SPECIFICATION RecorderSpec
CONSTANTS
  Recorders = {"r1", "r2"}
  Processes = {"r1", "r2"}
  ProcessOf <- TwoProcesses
  None = None
  MaxCrashes = 0
PROPERTIES ManifestKeeps
