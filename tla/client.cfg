SPECIFICATION FairSpec
CONSTANTS
  j1 = j1
  j2 = j2
  Jobs = {j1, j2}
  web = web
  secure = secure
  Uses <- SmallUses
  Nobody = Nobody
  Hosts = {web, secure}
  Https = {secure}
  Links = {1, 2, 3, 4}
  Calls = 2
  Codes = {"ok", "redirect", "error"}
  Body = 1
CHECK_DEADLOCK FALSE
INVARIANTS
  TypeOK
  OwnResponse
  NoGarbage
  NeverBlocks
  BodyOnce
PROPERTIES
  CallsEnd
