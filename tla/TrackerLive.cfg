SPECIFICATION FairSpec
CONSTANTS
  p1 = p1
  p2 = p2
  b1 = b1
  Trackers <- OneTracker
  Bastions <- OneBastion
  TTL = 2
  Delay = 3
  Inactive = 3
  BatchSize = 1
  MaxRestarts = 1
  Nobody = Nobody
PROPERTIES
  StatusFollows
  KeyIsTaken
