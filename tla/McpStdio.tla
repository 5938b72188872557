------------------------------ MODULE McpStdio ------------------------------
(***************************************************************************)
(* The stdio transport of an MCP server                                    *)
(* (crates/adaclaw-tools/src/mcp/stdio.rs) and the tool wrapper that gives *)
(* each call a timeout (mcp/mod.rs, McpTool::execute).                     *)
(*                                                                         *)
(* All calls share one child process behind one async mutex: a call writes *)
(* a request line to the process and reads lines until one is a response.  *)
(* A failed attempt kills the process, starts a new one (MaxRestarts times *)
(* at most), shakes hands with it and tries once more.  The timeout drops  *)
(* the call's future wherever it is suspended: waiting for the mutex, for  *)
(* the killed process to be reaped, or for a line.                         *)
(*                                                                         *)
(* The server is not part of the repository: it answers each request once  *)
(* with a result or an error, may send notifications, and may crash.       *)
(***************************************************************************)
EXTENDS Naturals, Sequences

CONSTANTS
  Calls,         \* identities of tool calls
  None,
  MaxRestarts,   \* 3
  MaxNotes,      \* bound: notifications one process sends
  Faults         \* what may go wrong: a subset of {"timeout", "crash", "error", "spawn"}

ASSUME McpAssumption ==
  /\ None \notin Calls
  /\ MaxRestarts \in Nat /\ MaxNotes \in Nat
  /\ Faults \subseteq {"timeout", "crash", "error", "spawn"}

VARIABLES
  holder,     \* the call that has the mutex, or None
  pc,         \* c -> where its future is
  result,     \* c -> what its caller was told
  alive,      \* the child process runs
  stdin,      \* lines written to the process and not yet taken by it
  stdout,     \* lines it has written that are not yet read
  cut,        \* the start of the next line was lost with the future that read it
  restarts,   \* restart_count
  notes,      \* notifications the process has sent
  ready,      \* the process has been told "notifications/initialized"
  tainted,    \* a call was dropped while it talked to this process
  early       \* a process was given a tool call before it was initialized

serverVars == <<alive, stdin, stdout, notes, ready, early>>
vars == <<holder, pc, result, alive, stdin, stdout, cut, restarts, notes, ready, tainted,
          early>>

(* A line is a request, the "initialized" notification, a response or a    *)
(* notification of the server.  The id names the call and the attempt.     *)
Ids == Calls \X {"first", "init", "retry"}
Request(id) == [type |-> "request", id |-> id]
Initialized == [type |-> "initialized", id |-> <<None, "init">>]
Response(id, what) == [type |-> what, id |-> id]
Note == [type |-> "note", id |-> <<None, "init">>]

Init ==
  /\ holder = None
  /\ pc = [c \in Calls |-> "idle"]
  /\ result = [c \in Calls |-> <<"none">>]
  /\ alive = TRUE /\ ready = TRUE
  /\ stdin = <<>> /\ stdout = <<>> /\ cut = FALSE
  /\ restarts = 0 /\ notes = 0
  /\ tainted = FALSE
  /\ early = FALSE

Reading == {"first", "init", "retry"}
Active == {"waiting", "kill"} \cup Reading

Return(c, r) ==
  /\ pc' = [pc EXCEPT ![c] = "done"]
  /\ result' = [result EXCEPT ![c] = r]
  /\ holder' = IF holder = c THEN None ELSE holder

Goto(c, p) ==
  /\ pc' = [pc EXCEPT ![c] = p]
  /\ UNCHANGED <<result, holder>>

-----------------------------------------------------------------------------
Call(c) ==
  /\ pc[c] = "idle"
  /\ Goto(c, "waiting")
  /\ UNCHANGED <<serverVars, cut, restarts, tainted>>

(* Mutant: off by one. *)
GiveUpOrRestartOnceMore(c) ==
  IF restarts > MaxRestarts
    THEN Return(c, <<"failed">>) /\ UNCHANGED <<alive, stdin>>
    ELSE /\ pc' = [pc EXCEPT ![c] = "kill"] /\ holder' = c /\ UNCHANGED result
         /\ alive' = FALSE /\ stdin' = <<>>

(* An attempt failed: restart, unless the budget is spent.  The old        *)
(* process is sent the signal before the call waits for its end.           *)
GiveUpOrRestart(c) ==
  IF restarts >= MaxRestarts
    THEN Return(c, <<"failed">>) /\ UNCHANGED <<alive, stdin>>
    ELSE /\ pc' = [pc EXCEPT ![c] = "kill"] /\ holder' = c /\ UNCHANGED result
         /\ alive' = FALSE /\ stdin' = <<>>

(* Mutant: no mutex. *)
AcquireUnlocked(c) ==
  /\ pc[c] = "waiting" /\ alive
  /\ holder' = c
  /\ pc' = [pc EXCEPT ![c] = "first"]
  /\ stdin' = Append(stdin, Request(<<c, "first">>))
  /\ UNCHANGED <<result, alive, stdout, cut, restarts, notes, ready, tainted, early>>

(* The mutex is got and the request written, which a dead process refuses. *)
Acquire(c) ==
  /\ pc[c] = "waiting" /\ holder = None
  /\ IF alive
       THEN /\ holder' = c
            /\ pc' = [pc EXCEPT ![c] = "first"]
            /\ stdin' = Append(stdin, Request(<<c, "first">>))
            /\ UNCHANGED <<result, alive>>
       ELSE GiveUpOrRestart(c)
  /\ UNCHANGED <<stdout, cut, restarts, notes, ready, tainted, early>>

(* One turn of the read loop of send_request_with_state. *)
Line == Head(stdout)
Arrived == stdout # <<>>
EndOfFile == ~Arrived /\ ~alive
Skipped == Arrived /\ ~cut /\ Line.type = "note"

(* Mutant: a notification is taken for a response. *)
AnsweredByAny == Arrived /\ ~cut /\ Line.type \in {"ok", "note"}
Answered == Arrived /\ ~cut /\ Line.type = "ok"

(* Mutant: the end of file looks like an empty line. *)
FailedOnLine == Arrived /\ (cut \/ Line.type = "error")
Failed == EndOfFile \/ (Arrived /\ (cut \/ Line.type = "error"))

Consume ==
  /\ stdout' = IF Arrived THEN Tail(stdout) ELSE stdout
  /\ cut' = FALSE

SkipNote(c) ==
  /\ pc[c] \in Reading
  /\ Skipped
  /\ Consume
  /\ UNCHANGED <<holder, pc, result, alive, stdin, restarts, notes, ready, tainted, early>>

(* The response to a tool call: whatever its id, it is the result. *)
TakeResult(c) ==
  /\ pc[c] \in {"first", "retry"}
  /\ Answered
  /\ Return(c, <<"ok", Line.id, tainted>>)
  /\ Consume
  /\ UNCHANGED <<alive, stdin, restarts, notes, ready, tainted, early>>

FailFirst(c) ==
  /\ pc[c] = "first"
  /\ Failed
  /\ GiveUpOrRestart(c)
  /\ Consume
  /\ UNCHANGED <<restarts, notes, ready, tainted, early>>

(* Mutant: a new process gets the call without the handshake. *)
SpawnNoHandshake(c) ==
  /\ pc[c] = "kill"
  /\ alive' = TRUE /\ stdin' = <<Request(<<c, "retry">>)>> /\ stdout' = <<>> /\ cut' = FALSE
  /\ restarts' = restarts + 1
  /\ notes' = 0 /\ ready' = FALSE /\ tainted' = FALSE
  /\ Goto(c, "retry")
  /\ UNCHANGED early

(* The old process is gone: a new one, to which the handshake is written   *)
(* at once.                                                                *)
Spawn(c) ==
  /\ pc[c] = "kill"
  /\ alive' = TRUE /\ stdin' = <<Request(<<c, "init">>)>> /\ stdout' = <<>> /\ cut' = FALSE
  /\ restarts' = restarts + 1
  /\ notes' = 0 /\ ready' = FALSE /\ tainted' = FALSE
  /\ Goto(c, "init")
  /\ UNCHANGED early

(* The command does not start: the dead process stays where it was, and    *)
(* the attempt does not count.                                             *)
SpawnFails(c) ==
  /\ "spawn" \in Faults
  /\ pc[c] = "kill"
  /\ Return(c, <<"failed">>)
  /\ UNCHANGED <<serverVars, cut, restarts, tainted>>

(* The handshake is answered: the process is told so and gets the call     *)
(* again.  A process that died in between refuses both lines.              *)
InitAnswered(c) ==
  /\ pc[c] = "init"
  /\ Answered
  /\ Consume
  /\ IF alive
       THEN /\ stdin' = stdin \o <<Initialized, Request(<<c, "retry">>)>>
            /\ Goto(c, "retry")
       ELSE Return(c, <<"failed">>) /\ UNCHANGED stdin
  /\ UNCHANGED <<alive, restarts, notes, ready, tainted, early>>

(* A failed handshake leaves the new process in place, not initialized; a  *)
(* failed second attempt is not followed by a third.                       *)
FailLater(c) ==
  /\ pc[c] \in {"init", "retry"}
  /\ Failed
  /\ Return(c, <<"failed">>)
  /\ Consume
  /\ UNCHANGED <<alive, stdin, restarts, notes, ready, tainted, early>>

(* The timeout of McpTool::execute drops the future.  read_line is not     *)
(* cancel safe: the part of a line it had read is lost with it.            *)
Timeout(c) ==
  /\ "timeout" \in Faults
  /\ pc[c] \in Active
  /\ Return(c, <<"timeout">>)
  /\ tainted' = (tainted \/ pc[c] \in Reading)
  /\ \/ UNCHANGED cut
     \/ pc[c] \in Reading /\ alive /\ cut' = TRUE
  /\ UNCHANGED <<serverVars, restarts>>

-----------------------------------------------------------------------------
(* The server. *)

Serve ==
  /\ alive /\ stdin # <<>>
  /\ stdin' = Tail(stdin)
  /\ LET line == Head(stdin)
     IN IF line.type = "initialized"
          THEN ready' = TRUE /\ UNCHANGED <<stdout, early>>
          ELSE /\ \E what \in {"ok", "error"} :
                    /\ what = "error" => "error" \in Faults
                    /\ stdout' = Append(stdout, Response(line.id, what))
               /\ early' = (early \/ (line.id[2] # "init" /\ ~ready))
               /\ UNCHANGED ready
  /\ UNCHANGED <<holder, pc, result, alive, cut, restarts, notes, tainted>>

Notify ==
  /\ alive /\ notes < MaxNotes
  /\ notes' = notes + 1
  /\ stdout' = Append(stdout, Note)
  /\ UNCHANGED <<holder, pc, result, alive, stdin, cut, restarts, ready, tainted, early>>

Crash ==
  /\ "crash" \in Faults
  /\ alive
  /\ alive' = FALSE /\ stdin' = <<>>
  /\ UNCHANGED <<holder, pc, result, stdout, cut, restarts, notes, ready, tainted, early>>

-----------------------------------------------------------------------------
Step(c) ==
  \/ Acquire(c) \/ SkipNote(c) \/ TakeResult(c) \/ FailFirst(c)
  \/ Spawn(c) \/ SpawnFails(c) \/ InitAnswered(c) \/ FailLater(c)

Next ==
  \/ \E c \in Calls : Call(c) \/ Step(c) \/ Timeout(c)
  \/ Serve \/ Notify \/ Crash

(* The runtime polls a future that can go on; the server answers.          *)
Fairness == WF_vars(Serve) /\ \A c \in Calls : SF_vars(Acquire(c)) /\ WF_vars(Step(c))

Spec == Init /\ [][Next]_vars
FairSpec == Spec /\ Fairness
-----------------------------------------------------------------------------
(* Properties. *)

Lines == [type : {"request", "initialized", "ok", "error", "note"},
          id : Ids \cup {<<None, "init">>}]

Results == {<<"none">>, <<"failed">>, <<"timeout">>}
           \cup ({"ok"} \X (Ids \cup {<<None, "init">>}) \X BOOLEAN)

(* Every variable has its type; no more processes are started than the     *)
(* restart budget of call_tool allows.                                     *)
TypeOK ==
  /\ holder \in Calls \cup {None}
  /\ pc \in [Calls -> {"idle", "done"} \cup Active]
  /\ result \in [Calls -> Results]
  /\ alive \in BOOLEAN /\ cut \in BOOLEAN /\ ready \in BOOLEAN
  /\ tainted \in BOOLEAN /\ early \in BOOLEAN
  /\ stdin \in Seq(Lines) /\ stdout \in Seq(Lines)
  /\ restarts \in 0..MaxRestarts
  /\ notes \in 0..MaxNotes

(* The request the process still owes an answer to, or has answered.       *)
Requests(q) == {k \in DOMAIN q : q[k].type = "request"}
Answers(q) == {k \in DOMAIN q : q[k].type \in {"ok", "error"}}

(* As long as no call was dropped while it talked to the process, client   *)
(* and server are in step: the only lines that belong to a call belong to  *)
(* the attempt of the call that has the mutex, and there is one of them.   *)
InStep ==
  ~tainted =>
    /\ ~cut
    /\ \A k \in Requests(stdin) : holder # None /\ stdin[k].id = <<holder, pc[holder]>>
    /\ \A k \in Answers(stdout) : holder # None /\ stdout[k].id = <<holder, pc[holder]>>
    /\ \A j, k \in Requests(stdin) : j = k
    /\ \A j, k \in Answers(stdout) : j = k
    /\ Requests(stdin) = {} \/ Answers(stdout) = {}

(* A call that gets another call's answer follows a call that was dropped  *)
(* on the same process: the ids of responses are never compared.           *)
OwnAnswer ==
  \A c \in Calls : result[c][1] = "ok" => result[c][2][1] = c \/ result[c][3]

(* A process gets a tool call before it is initialized only after a call   *)
(* failed or was dropped.                                                  *)
HandshakeUnlessBroken ==
  early => \E c \in Calls : result[c][1] \in {"failed", "timeout"}

(* With or without a timeout every call comes back, if the server answers  *)
(* or dies: no error path keeps the mutex or reads for ever.               *)
CallsReturn == \A c \in Calls : pc[c] = "waiting" ~> pc[c] = "done"

(* Processes are started within the restart budget, which TypeOK states,   *)
(* and spoken to in the order of the protocol.                             *)
StartsAreOrderly ==
  TypeOK /\ HandshakeUnlessBroken
=============================================================================
