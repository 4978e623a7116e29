SPECIFICATION Spec
CONSTANTS
  Notes <- MCNotes
  Velocities <- MCVelocities
INVARIANT TempoAsAsked
