\* Scripts of up to four nodes with the regex (?<a>[A-Z])(?<aa>\d) and a
\* map block on x.a, evaluated on the record "A1".
CONSTANTS
  Idents <- MCIdents
  Fields <- MCFields
  Templates <- MCTemplates
  NoValue = NoValue
  MaxArgs = 2
  MaxStack = 2
  FieldKeys <- MCFieldKeys
  Texts <- MCTexts
  Nums = {}
  RegexPatterns = {"UpperDigit"}
  Fns = {}
  MatchKeyLists = {}
  MapKeys <- MCMapXaKey
  MapCaseKeyLists <- MCMapAnyCase
  InitRecords <- MCInitRecordA1
  MaxNodes = 4
SPECIFICATION Spec
INVARIANT MapYieldsCaseResult
