CONSTANTS
  Interval = {i1, i2, i3, i4}
  FirstReg = 4
  LastReg = 5
  MaxNo = 5
SPECIFICATION Spec
SYMMETRY IntervalSymmetry
INVARIANTS
  TypeOK
  NoSharing
  NoRegisterLost
  SpillOnlyUnderPressure
PROPERTIES
  ImplementsAssignment
CHECK_DEADLOCK FALSE
