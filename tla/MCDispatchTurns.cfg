SPECIFICATION FairSpec
CONSTANTS
  m1 = m1
  m2 = m2
  m3 = m3
  s1 = s1
  s2 = s2
  tg = tg
  a1 = a1
  a2 = a2
  NoMsg = NoMsg
  Msgs = {m1, m2}
  Sessions = {s1, s2}
  Channels = {tg}
  Agents = {a1, a2}
  Registries = {{a1}, {a2}, {}}
  DefaultAgent = a1
  Route <- MCRoute
  Delegators = {a1}
  LoadedLevels = {"inactive", "tool_freeze"}
  Endpoints = {}
  Silent = {}
  MaxDeltas = 0
  InboundCapacity = 1
  OutboundCapacity = 2
INVARIANTS TurnsDoNotInterleave TurnedAwayForGood
 
CHECK_DEADLOCK FALSE
