CONSTANTS
  NULL = NULL
  Word <- MCWordTail
  ProtoPrefixed <- MCProtoPrefixed
  PortPrefixed <- MCNoPort
  Digits <- MCDigitsTail
  MaskChars <- MCMaskTail
  MinWords = 4
  MaxWords = 4
  Trailing = {FALSE}
SPECIFICATION Spec
INVARIANT RuleParserMatchesGrammar
