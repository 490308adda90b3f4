SPECIFICATION PipelineSpec
CONSTANTS
  ConfidenceThreshold = 85
  MAX_PAYLOAD_BYTES = 7
  MAX_PAYLOAD_DEPTH = 2
  MAX_PAYLOAD_FIELDS = 3
  MAX_FIELDS_PER_OBJECT = 2
  MAX_ARRAY_ITEMS = 2
  MAX_PAYLOAD_NODES = 5
  MAX_CANONICAL_EVENT_BYTES = 9
  EnvelopeBytes = 2
  MAX_PAST_SKEW = 2
  MAX_FUTURE_SKEW = 1
  MaxBytes = 2
  PartSizes = {0, 1, 2}
  Declarations <- MCDeclarations
  MaxInputBytes = 6
  InstructionBytes = 2
  Events <- MCEvents
  Outputs <- MCOutputs
CHECK_DEADLOCK FALSE
INVARIANTS
  AnsweredAndRecorded
  BodyIsWhole
  IngestionIsExact
  ProviderSeesOnlyAccepted
  DecisionIsGrounded
