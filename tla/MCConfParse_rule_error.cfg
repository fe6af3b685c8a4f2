CONSTANTS
  NULL = NULL
  DEFAULT = DEFAULT
  Word <- MCWord
  ProtoPrefixed <- MCProtoPrefixed
  PortPrefixed <- MCPortPrefixed
  Digits <- MCDigits
  MaskChars <- MCMaskChars
  Value <- MCValue
  Name <- MCName
  Token <- MCToken
  Mac <- MCMac
  NormMac <- MCNormMac
  ScanInt <- MCScanInt
  IP <- MCIP
  TopLines <- RulesetTop
  ServerLines <- NoLines
  RulesetLines <- RulesetBody
  MaxLines = 4
SPECIFICATION Spec
INVARIANTS InvalidRuleIsFatal
CHECK_DEADLOCK FALSE
