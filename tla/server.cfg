SPECIFICATION FairSpec
CONSTANTS
  N = 2
  Body = 2
  Packet = 4
  Kinds = {"get", "post", "delete", "unsized"}
  PipeIgnored = FALSE
CHECK_DEADLOCK FALSE
INVARIANTS
  TypeOK
  NothingLost
  BodiesTheirOwn
  ResponsesWhole
  EndsClosed
PROPERTIES
  GoneIsNoticed
  ImplementsExchange
