SPECIFICATION Spec
CONSTANTS
 Confirm = 1
 Window = 3
 MaxLog = 1
 MinKept = 1
 Mined = {"buy", "out"}
 MaxBlocks = 5
 MaxForks = 1
 MaxFaults = 0
CHECK_DEADLOCK FALSE
PROPERTIES ReorganizedFailsClosed
