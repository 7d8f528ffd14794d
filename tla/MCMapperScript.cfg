\* Compile every script of up to four nodes over x, @name, "1", regexes
\* and number(), then evaluate it on the records "1" and "a", repeatedly.
CONSTANTS
  Idents <- MCIdents
  Fields <- MCFields
  Templates <- MCTemplates
  NoValue = NoValue
  MaxArgs = 2
  MaxStack = 2
  FieldKeys <- MCFieldKeys
  Texts <- MCTexts
  Nums = {}
  RegexPatterns = {"Digits"}
  Fns = {"number"}
  MatchKeyLists <- MCMatchKeyLists
  MapKeys <- MCMapKeys
  MapCaseKeyLists <- MCMapCaseKeyLists
  InitRecords <- MCInitRecords
  MaxNodes = 4
SPECIFICATION Spec
INVARIANTS TypeOK ArenaWellFormed OnlyAssignedNamesMissing
