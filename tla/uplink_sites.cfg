SPECIFICATION Spec
CONSTANTS
  g = g
  a = a
  b = b
  c = c
  d = d
  NoAck = NoAck
INVARIANTS
  AcksHeard
  OnceOnEverySite
  InOrderThroughRelay
  AnswersAreAwaited
  GivesUpInTime
