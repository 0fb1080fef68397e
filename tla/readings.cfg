CONSTANTS
  Sources = {"plc", "scada"}
  Ids = {1, 2}
  BatchLimit = 1
  MaxTransit = 2
  MaxOutages = 1
  r1 = r1
  r2 = r2
  Unheard = Unheard
SPECIFICATION ReadingsSpec
SYMMETRY ReadingsSymmetry
CHECK_DEADLOCK FALSE
INVARIANTS NothingForgotten TelemetryHolds MachinesHold LineIsWhatWasHeard ListWithoutHoles
PROPERTY LogImplemented
