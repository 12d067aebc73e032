SPECIFICATION TiersSpec
CONSTANTS
  v = v
  w = w
  NoText = NoText
  Word <- MCWord
  Answers <- MCAnswers
  Inputs <- MCInputs
  MetadataLengths <- MCMetadata
INVARIANTS
  WithinPolicy
  QualityKept
  AnswerAccurate
PROPERTIES
  CallEnds
