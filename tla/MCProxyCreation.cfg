SPECIFICATION CreationSpec
CONSTANTS
  Declares <- DeclaresMap
  Unrooted = {""}
  Documents <- DocumentsGiven
  Imports <- ConfigurationsImported
  Bases <- BasesTyped
  Pipelines <- PipelinesBuilt
  Targets <- TargetsTyped
  MaxEdits = 4
  MaxCreated = 1
INVARIANTS CreatedWasReviewed
CHECK_DEADLOCK FALSE
