SPECIFICATION Spec
CONSTANTS
  EventIds = {e, f}
  ConfidenceThreshold = 85
  Types <- EventTypes
  Intentions <- Intents
  ReasonCounts = {0, 1}
  Confidences = {84, 85, 86}
INVARIANTS
  ExternalActionNeedsAPerson
  AllowOnlyWhatIsQuiet
PROPERTIES
  AlarmNeverRelaxes
