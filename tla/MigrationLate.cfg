SPECIFICATION Spec
CONSTANTS
 Pages = 3
 MaxRuns = 3
 MaxFaults = 2
CHECK_DEADLOCK FALSE
INVARIANTS SequencesPreserved
