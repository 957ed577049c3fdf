SPECIFICATION Spec
CONSTANTS
  Atoms <- MCAtoms
  Space = "_"
  Bullet = "-"
  Subject = "I"
  Adverb = "once"
  DigestMark = "#"
  Hints = {"v", "M"}
  LowerOf <- MCLower
  MinText = 3
  MinSaid = 3
  MaxText = 6
  MaxSaid = 5
  MaxParsed = 2
  MaxGuessed = 3
  Answers <- MCAnswers
  Transcripts <- MCTranscripts
  Notes <- MCNotes
  Queries <- MCQueries
  MaxAsked = 1
  Importances = {1}
  TopK = 2
  VectorTake = 3
  RrfK = 60
  Scale = 238266
  ListTake = 3
  MaxRows = 3
INVARIANT TypeOK
INVARIANT FactsDiffer
INVARIANT FusionOrder
INVARIANT RecallsSomething
INVARIANT KeywordsFillGaps
CHECK_DEADLOCK FALSE
