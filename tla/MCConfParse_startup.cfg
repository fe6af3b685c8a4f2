CONSTANTS
  NULL = NULL
  DEFAULT = DEFAULT
  Word <- MCWord
  ProtoPrefixed <- MCProtoPrefixed
  PortPrefixed <- MCPortPrefixed
  Digits <- MCDigits
  MaskChars <- MCMaskChars
  Value <- MCValue
  Name <- MCName
  Token <- MCToken
  Mac <- MCMac
  NormMac <- MCNormMac
  ScanInt <- MCScanInt
  IP <- MCIP
  TopLines <- StartupTop
  ServerLines <- StartupServer
  RulesetLines <- NoLines
  MaxLines = 5
SPECIFICATION Spec
INVARIANTS ServersFollowFile TypeOK
CHECK_DEADLOCK FALSE
