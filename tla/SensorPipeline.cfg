CONSTANTS
  QueueLength = 16
  MaxActs = 2
SPECIFICATION Spec
INVARIANTS
  PipelineTypeOK
  ReadsLiveSensor
PROPERTIES
  AnswersComing
  RefreshAnswered
  SensingGoesOn
