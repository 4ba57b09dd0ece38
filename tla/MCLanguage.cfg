SPECIFICATION Spec
CONSTANTS
  Letters <- MCLetters
  Digits <- MCDigits
  Keywords <- MCKeywords
  Unnamed <- MCUnnamed
  Sources <- MCSources
  StringHash <- MCStringHash
  Contexts = {"c1", "c2"}
  Programs <- StoragePrograms
  CodeOf <- MCCodeOf
  GasLimits = {21000, 45000}
  MaxStack = 5
  MaxMemory = 3
  MaxCallDepth = 4
  MaxExecutions = 3
CHECK_DEADLOCK FALSE
INVARIANTS MaximalMunch ParserSound CompiledMeansSource GasBounded StorageIsSuccessfulWrites
