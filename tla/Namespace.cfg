\* Two names, a TTL of two ticks, two events.
CONSTANTS
  Name = {a, b}
  TTL = 2
  MaxEvents = 2
SPECIFICATION Spec
SYMMETRY Symmetry
INVARIANTS
  TypeOK
  SuspectOnly
  BeliefBounded
