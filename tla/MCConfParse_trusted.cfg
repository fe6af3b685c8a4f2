CONSTANTS
  NULL = NULL
  DEFAULT = DEFAULT
  Word <- MCWord
  ProtoPrefixed <- MCProtoPrefixed
  PortPrefixed <- MCPortPrefixed
  Digits <- MCDigits
  MaskChars <- MCMaskChars
  Value <- MCValue
  Name <- MCName
  Token <- MCToken
  Mac <- MCMac
  NormMac <- MCNormMac
  ScanInt <- MCScanInt
  IP <- MCIP
  TopLines <- TrustedTop
  ServerLines <- NoLines
  RulesetLines <- NoLines
  MaxLines = 4
SPECIFICATION Spec
INVARIANTS TrustedMacsComplete
CHECK_DEADLOCK FALSE
