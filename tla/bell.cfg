CONSTANTS
  Plants = {"LATEX", "SLURRY"}
  First = "LATEX"
  Limit = 2
  MaxNotes = 4
  MaxSwitches = 1
  MaxMarks = 1
SPECIFICATION FairSpec
CHECK_DEADLOCK FALSE
INVARIANT BellHolds
PROPERTY ArrivalHeard
