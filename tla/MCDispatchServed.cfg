SPECIFICATION FairSpec
CONSTANTS
  m1 = m1
  m2 = m2
  m3 = m3
  s1 = s1
  s2 = s2
  tg = tg
  a1 = a1
  a2 = a2
  NoMsg = NoMsg
  Msgs = {m1, m2}
  Sessions = {s1, s2}
  Channels = {tg}
  Agents = {a1, a2}
  Registries = {{a1}}
  DefaultAgent = a1
  Route <- OneRoute
  Delegators = {}
  LoadedLevels = {"inactive", "kill_all"}
  Endpoints = {"chat", "stream"}
  Silent = {m2}
  MaxDeltas = 2
  InboundCapacity = 1
  OutboundCapacity = 1
INVARIANTS OneReplyEach ClientsSeeTheirs
PROPERTIES  ReplyReachesChat
CHECK_DEADLOCK FALSE
