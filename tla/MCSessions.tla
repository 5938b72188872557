----------------------------- MODULE MCSessions ------------------------------
(* A session's history and the calls of one MCP server, for TLC.  They     *)
(* share no state: a behaviour is about one of them.                       *)
EXTENDS SessionHistory, McpStdio

CONSTANTS c1, c2, c3
VARIABLE about

BothInit == HistoryInit /\ Init /\ about \in {"history", "server"}

BothNext ==
  /\ \/ about = "history" /\ HistoryNext /\ UNCHANGED vars
     \/ about = "server" /\ Next /\ UNCHANGED historyVars
  /\ UNCHANGED about

BothSpec == BothInit /\ [][BothNext]_<<historyVars, vars, about>> /\ Fairness
=============================================================================
