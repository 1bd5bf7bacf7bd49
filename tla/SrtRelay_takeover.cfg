SPECIFICATION FairSpec
CONSTANTS
  q1 = q1
  s1 = s1
  arena = arena
  program = program
  None = None
  Publishers = {p1, p2, q1}
  Readers = {r1, s1}
  Names = {arena, program}
  NameOf <- MCNameOf
CHECK_DEADLOCK FALSE
INVARIANT TakeoverIsClean
PROPERTY DeadPublisherGoes
