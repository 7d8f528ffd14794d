\* Straight-line scripts of up to two nodes over x and @name.
CONSTANTS
  Idents <- MCIdents
  Fields <- MCFields
  Templates <- MCTemplates
  NoValue = NoValue
  MaxArgs = 2
  MaxStack = 2
  FieldKeys <- MCFieldKeys
  Texts <- MCTexts
  Nums = {}
  RegexPatterns = {"Digits"}
  Fns = {"concat"}
  MatchKeyLists = {}
  MapKeys = {}
  MapCaseKeyLists = {}
  InitRecords <- MCInitRecordA
  MaxNodes = 2
SPECIFICATION Spec
INVARIANT ValidatedNoUnknownVar
