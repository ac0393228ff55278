SPECIFICATION Spec
CONSTANTS
  Files = {f, g}
  MaxScript = 2
  MaxInput = 2
  MaxDepth = 2
PROPERTIES FilesMeanTheirLines AcyclicFilesEnd
CHECK_DEADLOCK FALSE
