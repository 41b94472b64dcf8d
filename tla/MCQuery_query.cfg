SPECIFICATION Spec
CONSTANTS
  Queries <- MCQueries
  Characters <- MCCharacters
  MaxEdits = 1
  MaxInt = 20
  NameMax = 4
  SqlMax = 24
INVARIANTS
  ReplyTextSurvives
  QueryMeansWhatItSays
