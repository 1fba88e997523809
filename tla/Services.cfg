\* Two devices in turn; two viewers and three changes of
\* the slot; two streams and both shutdowns; two discards.
CONSTANTS
  MaxGenerations = 2
  Clients = {c1, c2}
  MaxSlot = 3
  Streams = {s1, s2}
  Shutdowns = {main, lifespan}
  Discards = {d1, d2}
SPECIFICATION MCSpec
INVARIANTS
  OneReader
  DevicesReturned
  OwedOneAnswer
  ShutdownReachesAll
  DiscardsKept
PROPERTIES
  OutageEnds
  ReaderReplaced
  AnswersAreFresh
  ClientsServed
  EveryDiscardDone
CHECK_DEADLOCK FALSE
