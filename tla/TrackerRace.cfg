SPECIFICATION Spec
CONSTANTS
  p1 = p1
  p2 = p2
  b1 = b1
  Trackers <- TwoTrackers
  Bastions <- OneBastion
  TTL = 1
  Delay = 2
  Inactive = 2
  BatchSize = 1
  MaxRestarts = 1
  Nobody = Nobody
SYMMETRY TrackerSymmetry
INVARIANTS
  TypeOK
  OneLeader
  NoAlarmForTheFound
PROPERTIES
  NoChangeUnannounced
