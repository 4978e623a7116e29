SPECIFICATION Spec
CONSTANTS
  Notes <- MCNotes
  Velocities <- MCVelocities
INVARIANTS
  TypeOK
  FollowsSender
  EvenTempo
  NanoloopLocks
  DownbeatsAlike
