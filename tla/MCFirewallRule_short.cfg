CONSTANTS
  NULL = NULL
  Word <- MCWord
  ProtoPrefixed <- MCProtoPrefixed
  PortPrefixed <- MCPortPrefixed
  Digits <- MCDigits
  MaskChars <- MCMaskChars
  MinWords = 0
  MaxWords = 3
  Trailing = {FALSE}
SPECIFICATION Spec
INVARIANT RuleParserMatchesGrammar
