SPECIFICATION FairSpec
CONSTANTS
  Target = {"a", "b"}
  Source = {"s"}
  Operation = {"o1"}
  Processor = {"x"}
  None = None
  FirstTarget <- OneSource
  MaxAttempts = 3
PROPERTIES OperationsEnd
