CONSTANTS
  SIGRTMIN = 34
  Signos <- MCSignos
  Words <- MCWords
  RtOffsets <- MCRtOffsets
  Decimals <- MCDecimals
  Argvs <- MCArgvs
  None = None
SPECIFICATION Spec
INVARIANTS
  TypeOK
  NamesRoundTripOutsideGap
  StrtosigAgreesWithParser
PROPERTY
  SkillRemovesFirstOption
