\* Scripts of up to six nodes whose assignments may sit in map cases on
\* @name, with match cases x and _, evaluated on the record "a".
CONSTANTS
  Idents <- MCIdents
  Fields <- MCFields
  Templates <- MCTemplates
  NoValue = NoValue
  MaxArgs = 2
  MaxStack = 2
  FieldKeys = {}
  Texts <- MCTexts
  Nums = {}
  RegexPatterns = {}
  Fns = {}
  MatchKeyLists <- MCMatchKeysValid
  MapKeys <- MCMapFieldKey
  MapCaseKeyLists <- MCMapTextCase
  InitRecords <- MCInitRecordA
  MaxNodes = 6
SPECIFICATION Spec
INVARIANT MatchFiresReadyCase
