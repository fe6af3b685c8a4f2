CONSTANTS
  NULL = NULL
  Word <- MCWordTail
  ProtoPrefixed <- MCProtoPrefixed
  PortPrefixed <- MCNoPort
  Digits <- MCDigitsTail
  MaskChars <- MCMaskTail
  MinWords = 2
  MaxWords = 3
  Trailing = {TRUE}
SPECIFICATION Spec
INVARIANT RuleParserMatchesGrammar
