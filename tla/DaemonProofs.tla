---------------------------- MODULE DaemonProofs ----------------------------
(***************************************************************************)
(* Proofs about the tool servers a daemon runs and how it comes up:        *)
(* McpStdio, for every number of calls and restarts, and Startup, for      *)
(* every configuration.                                                    *)
(*                                                                         *)
(* InStep is proved from two facts about who talks to the process: the     *)
(* mutex is held exactly by the call that does (HolderInv), and a dead     *)
(* process has nothing left to read (DeadInv).  OwnAnswer follows, since   *)
(* the response a call takes is a line of the stdout InStep speaks of.     *)
(***************************************************************************)
EXTENDS McpStdio, Startup, TLAPS, FiniteSetTheorems, WellFoundedInduction

USE McpAssumption

Talking == {"kill"} \cup Reading

(* The mutex is held by the one call that talks to the process.            *)
HolderInv == \A c \in Calls : pc[c] \in Talking <=> holder = c

(* Only a call that may still restart the process kills it.                *)
BudgetInv == \A c \in Calls : pc[c] = "kill" => restarts < MaxRestarts

(* A process that is dead takes no more requests.                          *)
DeadInv == ~alive => stdin = <<>>

(* Only requests and the notification are written to a process.            *)
StdinInv == \A k \in DOMAIN stdin : stdin[k].type \in {"request", "initialized"}

Inv == TypeOK /\ HolderInv /\ BudgetInv /\ DeadInv /\ StdinInv /\ InStep

-----------------------------------------------------------------------------
(* Sequences of lines. *)

(* What is appended to a pipe or taken from it is a line.                  *)
LEMMA LineKinds ==
  ASSUME NEW id \in Ids
  PROVE  Request(id) \in Lines
BY DEF Request, Lines

LEMMA OtherLines == Initialized \in Lines /\ Note \in Lines
BY DEF Initialized, Note, Lines

(* Every line a process takes can be answered.                             *)
LEMMA AnswerIsLine ==
  ASSUME NEW l \in Lines, NEW what \in {"ok", "error"}
  PROVE  Response(l.id, what) \in Lines
BY DEF Response, Lines

(* Taking the first line shifts the others.                                *)
LEMMA TailShifts ==
  ASSUME NEW q \in Seq(Lines), q # <<>>
  PROVE  /\ \A k \in Requests(Tail(q)) : k + 1 \in Requests(q) /\ Tail(q)[k] = q[k+1] /\ k \in Nat \ {0}
         /\ \A k \in Answers(Tail(q)) : k + 1 \in Answers(q) /\ Tail(q)[k] = q[k+1] /\ k \in Nat \ {0}
<1>1. \A k \in DOMAIN Tail(q) : k + 1 \in DOMAIN q /\ Tail(q)[k] = q[k+1] /\ k \in Nat \ {0}
  OBVIOUS
<1> QED BY <1>1 DEF Requests, Answers

(* Writing a line leaves the others where they were.                       *)
LEMMA AppendKeeps ==
  ASSUME NEW q \in Seq(Lines), NEW l \in Lines
  PROVE  /\ \A k \in Requests(Append(q, l)) :
              \/ k \in Requests(q) /\ Append(q, l)[k] = q[k]
              \/ k = Len(q) + 1 /\ l.type = "request" /\ Append(q, l)[k] = l
         /\ \A k \in Answers(Append(q, l)) :
              \/ k \in Answers(q) /\ Append(q, l)[k] = q[k]
              \/ k = Len(q) + 1 /\ l.type \in {"ok", "error"} /\ Append(q, l)[k] = l
<1>1. \A k \in DOMAIN Append(q, l) :
        \/ k \in DOMAIN q /\ Append(q, l)[k] = q[k]
        \/ k = Len(q) + 1 /\ Append(q, l)[k] = l
  OBVIOUS
<1> QED BY <1>1 DEF Requests, Answers

-----------------------------------------------------------------------------
(* Initially the process has been shaken hands with and nobody talks.      *)
LEMMA InitHolds == Init => Inv
<1> SUFFICES ASSUME Init PROVE Inv
  OBVIOUS
<1>1. TypeOK
  <2>1. result \in [Calls -> Results]
    BY DEF Init, Results
  <2>2. restarts \in 0..MaxRestarts /\ notes \in 0..MaxNotes
    BY DEF Init
  <2>3. holder \in Calls \cup {None} /\ pc \in [Calls -> {"idle", "done"} \cup Active]
    BY DEF Init
  <2>4. stdin \in Seq(Lines) /\ stdout \in Seq(Lines)
    BY DEF Init
  <2> QED BY <2>1, <2>2, <2>3, <2>4 DEF Init, TypeOK
<1>2. HolderInv
  BY DEF Init, HolderInv, Talking, Reading
<1>3. DeadInv
  BY DEF Init, DeadInv
<1>4. InStep
  BY DEF Init, InStep, Requests, Answers
<1>5. BudgetInv
  BY DEF Init, BudgetInv
<1>6. StdinInv
  BY DEF Init, StdinInv
<1> QED BY <1>1, <1>2, <1>3, <1>4, <1>5, <1>6 DEF Inv

(* What a return and a step of the program counter do to the types.        *)
LEMMA ReturnType ==
  ASSUME TypeOK, NEW c \in Calls, NEW r \in Results, Return(c, r)
  PROVE  /\ pc' \in [Calls -> {"idle", "done"} \cup Active]
         /\ result' \in [Calls -> Results]
         /\ holder' \in Calls \cup {None}
BY DEF Return, TypeOK

LEMMA GotoType ==
  ASSUME TypeOK, NEW c \in Calls, NEW p \in Active, Goto(c, p)
  PROVE  /\ pc' \in [Calls -> {"idle", "done"} \cup Active]
         /\ result' \in [Calls -> Results]
         /\ holder' \in Calls \cup {None}
BY DEF Goto, TypeOK

LEMMA ConsumeType ==
  ASSUME TypeOK, Consume
  PROVE  stdout' \in Seq(Lines) /\ cut' \in BOOLEAN
<1>1. stdout \in Seq(Lines)
  BY DEF TypeOK
<1>2. CASE Arrived
  <2>1. stdout # <<>> /\ stdout' = Tail(stdout) /\ cut' = FALSE
    BY <1>2 DEF Consume, Arrived
  <2>2. stdout' \in Seq(Lines)
    BY <1>1, <2>1
  <2> QED BY <2>1, <2>2
<1>3. CASE ~Arrived
  BY <1>1, <1>3 DEF Consume
<1> QED BY <1>2, <1>3

LEMMA GiveUpOrRestartType ==
  ASSUME TypeOK, NEW c \in Calls, GiveUpOrRestart(c)
  PROVE  /\ pc' \in [Calls -> {"idle", "done"} \cup Active]
         /\ result' \in [Calls -> Results]
         /\ holder' \in Calls \cup {None}
         /\ alive' \in BOOLEAN /\ stdin' \in Seq(Lines)
<1>1. <<"failed">> \in Results
  BY DEF Results
<1>2. CASE restarts >= MaxRestarts
  <2>1. Return(c, <<"failed">>) /\ UNCHANGED <<alive, stdin>>
    BY <1>2 DEF GiveUpOrRestart
  <2> QED BY <2>1, <1>1, ReturnType DEF TypeOK
<1>3. CASE ~(restarts >= MaxRestarts)
  <2>1. /\ pc' = [pc EXCEPT ![c] = "kill"] /\ holder' = c /\ result' = result
        /\ alive' = FALSE /\ stdin' = <<>>
    BY <1>3 DEF GiveUpOrRestart
  <2>2. stdin' \in Seq(Lines)
    BY <2>1
  <2>3. pc' \in [Calls -> {"idle", "done"} \cup Active]
    BY <2>1 DEF TypeOK, Active
  <2> QED BY <2>1, <2>2, <2>3 DEF TypeOK
<1> QED BY <1>2, <1>3

(* Every step keeps the types, the restart budget among them.              *)
LEMMA TypeStep == TypeOK /\ BudgetInv /\ [Next]_vars => TypeOK'
<1> SUFFICES ASSUME TypeOK, BudgetInv, [Next]_vars PROVE TypeOK'
  OBVIOUS
<1>0. <<"failed">> \in Results /\ <<"timeout">> \in Results
  BY DEF Results
<1>1. ASSUME NEW c \in Calls, Call(c) PROVE TypeOK'
  <2>1. Goto(c, "waiting")
    BY <1>1 DEF Call
  <2> QED BY <1>1, <2>1, GotoType DEF Call, TypeOK, Active, serverVars
<1>2. ASSUME NEW c \in Calls, Acquire(c) PROVE TypeOK'
  <2>1. CASE alive
    <3>1. <<c, "first">> \in Ids
      BY DEF Ids
    <3>2. stdin' \in Seq(Lines)
      <4>1. Request(<<c, "first">>) \in Lines /\ stdin \in Seq(Lines)
        BY <3>1, LineKinds DEF TypeOK
      <4>2. stdin' = Append(stdin, Request(<<c, "first">>))
        BY <1>2, <2>1 DEF Acquire
      <4> QED BY <4>1, <4>2
    <3> QED BY <1>2, <2>1, <3>2 DEF Acquire, TypeOK, Active, Reading
  <2>2. CASE ~alive
    BY <1>2, <2>2, GiveUpOrRestartType DEF Acquire, TypeOK
  <2> QED BY <2>1, <2>2
<1>3. ASSUME NEW c \in Calls, SkipNote(c) PROVE TypeOK'
  BY <1>3, ConsumeType DEF SkipNote, TypeOK
<1>4. ASSUME NEW c \in Calls, TakeResult(c) PROVE TypeOK'
  <2>1. <<"ok", Line.id, tainted>> \in Results
    <3>1. Line \in Lines /\ tainted \in BOOLEAN
      BY <1>4 DEF TakeResult, Answered, Arrived, Line, TypeOK
    <3>2. Line.id \in Ids \cup {<<None, "init">>}
      BY <3>1 DEF Lines
    <3> QED BY <3>1, <3>2 DEF Results
  <2> QED BY <1>4, <2>1, ConsumeType, ReturnType DEF TakeResult, TypeOK
<1>5. ASSUME NEW c \in Calls, FailFirst(c) PROVE TypeOK'
  BY <1>5, ConsumeType, GiveUpOrRestartType DEF FailFirst, TypeOK
<1>6. ASSUME NEW c \in Calls, Spawn(c) PROVE TypeOK'
  <2>1. <<c, "init">> \in Ids
    BY DEF Ids
  <2>2. stdin' \in Seq(Lines) /\ stdout' \in Seq(Lines)
    <3>1. Request(<<c, "init">>) \in Lines
      BY <2>1, LineKinds
    <3> QED BY <1>6, <3>1 DEF Spawn
  <2>3. Goto(c, "init") /\ pc[c] = "kill"
    BY <1>6 DEF Spawn
  <2>4. restarts' \in 0..MaxRestarts /\ notes' \in 0..MaxNotes
    BY <1>6 DEF Spawn, BudgetInv, TypeOK
  <2> QED BY <1>6, <2>2, <2>3, <2>4, GotoType DEF Spawn, TypeOK, Active, Reading
<1>7. ASSUME NEW c \in Calls, SpawnFails(c) PROVE TypeOK'
  BY <1>0, <1>7, ReturnType DEF SpawnFails, TypeOK, serverVars
<1>8. ASSUME NEW c \in Calls, InitAnswered(c) PROVE TypeOK'
  <2>1. CASE alive
    <3>1. <<c, "retry">> \in Ids
      BY DEF Ids
    <3>2. stdin' \in Seq(Lines)
      <4>1. Initialized \in Lines /\ Request(<<c, "retry">>) \in Lines /\ stdin \in Seq(Lines)
        BY <3>1, LineKinds, OtherLines DEF TypeOK
      <4>2. stdin' = stdin \o <<Initialized, Request(<<c, "retry">>)>>
        BY <1>8, <2>1 DEF InitAnswered
      <4> QED BY <4>1, <4>2
    <3>3. Goto(c, "retry")
      BY <1>8, <2>1 DEF InitAnswered
    <3> QED BY <1>8, <3>2, <3>3, ConsumeType, GotoType DEF InitAnswered, TypeOK, Active, Reading
  <2>2. CASE ~alive
    BY <1>0, <1>8, <2>2, ConsumeType, ReturnType DEF InitAnswered, TypeOK
  <2> QED BY <2>1, <2>2
<1>9. ASSUME NEW c \in Calls, FailLater(c) PROVE TypeOK'
  BY <1>0, <1>9, ConsumeType, ReturnType DEF FailLater, TypeOK
<1>10. ASSUME NEW c \in Calls, Timeout(c) PROVE TypeOK'
  BY <1>0, <1>10, ReturnType DEF Timeout, TypeOK, serverVars
<1>11. ASSUME Serve PROVE TypeOK'
  <2>1. Head(stdin) \in Lines /\ Tail(stdin) \in Seq(Lines)
    BY <1>11 DEF Serve, TypeOK
  <2>2. \A what \in {"ok", "error"} : Response(Head(stdin).id, what) \in Lines
    BY <2>1, AnswerIsLine
  <2>3. stdout' \in Seq(Lines)
    <3>1. \/ stdout' = stdout
          \/ \E what \in {"ok", "error"} : stdout' = Append(stdout, Response(Head(stdin).id, what))
      BY <1>11 DEF Serve
    <3> QED BY <2>2, <3>1 DEF TypeOK
  <2>4. ready' \in BOOLEAN /\ early' \in BOOLEAN
    BY <1>11 DEF Serve, TypeOK
  <2> QED BY <1>11, <2>1, <2>3, <2>4 DEF Serve, TypeOK
<1>12. ASSUME Notify PROVE TypeOK'
  <2>1. stdout' \in Seq(Lines)
    BY <1>12, OtherLines DEF Notify, TypeOK
  <2>2. notes' \in 0..MaxNotes
    BY <1>12 DEF Notify, TypeOK
  <2> QED BY <1>12, <2>1, <2>2 DEF Notify, TypeOK
<1>13. ASSUME Crash PROVE TypeOK'
  <2>1. alive' = FALSE /\ stdin' = <<>>
    BY <1>13 DEF Crash
  <2>2. stdin' \in Seq(Lines)
    BY <2>1 DEF TypeOK
  <2> QED BY <1>13, <2>1, <2>2 DEF Crash, TypeOK
<1>14. CASE UNCHANGED vars
  BY <1>14 DEF vars, TypeOK
<1> QED BY <1>1, <1>2, <1>3, <1>4, <1>5, <1>6, <1>7, <1>8, <1>9, <1>10, <1>11, <1>12, <1>13, <1>14
        DEF Next, Step

-----------------------------------------------------------------------------
(* A call that returns gives the mutex back.                               *)
LEMMA ReturnHolder ==
  ASSUME TypeOK, HolderInv, NEW c \in Calls, NEW r, Return(c, r)
  PROVE  HolderInv'
<1>1. pc' = [pc EXCEPT ![c] = "done"] /\ holder' = IF holder = c THEN None ELSE holder
  BY DEF Return
<1>2. "done" \notin Talking
  BY DEF Talking, Reading
<1> QED BY <1>1, <1>2 DEF HolderInv, TypeOK

(* A call that goes on talking keeps the mutex, which it had or nobody     *)
(* had.                                                                    *)
LEMMA TalkHolder ==
  ASSUME TypeOK, HolderInv, NEW c \in Calls, NEW p \in Talking,
         holder \in {c, None}, holder' = c, pc' = [pc EXCEPT ![c] = p]
  PROVE  HolderInv'
BY DEF HolderInv, TypeOK

LEMMA GiveUpOrRestartHolder ==
  ASSUME TypeOK, HolderInv, NEW c \in Calls, holder \in {c, None}, GiveUpOrRestart(c)
  PROVE  HolderInv'
<1>1. CASE restarts >= MaxRestarts
  BY <1>1, ReturnHolder DEF GiveUpOrRestart
<1>2. CASE ~(restarts >= MaxRestarts)
  <2>1. pc' = [pc EXCEPT ![c] = "kill"] /\ holder' = c
    BY <1>2 DEF GiveUpOrRestart
  <2>2. "kill" \in Talking
    BY DEF Talking
  <2> QED BY <2>1, <2>2, TalkHolder
<1> QED BY <1>1, <1>2

(* Every step keeps the mutex with the call that talks.                    *)
LEMMA HolderStep == TypeOK /\ HolderInv /\ [Next]_vars => HolderInv'
<1> SUFFICES ASSUME TypeOK, HolderInv, [Next]_vars PROVE HolderInv'
  OBVIOUS
<1>0. /\ {"kill", "first", "init", "retry"} \subseteq Talking
      /\ "idle" \notin Talking /\ "waiting" \notin Talking
  BY DEF Talking, Reading
<1>1. ASSUME NEW c \in Calls, Call(c) PROVE HolderInv'
  <2>1. pc[c] = "idle" /\ pc' = [pc EXCEPT ![c] = "waiting"] /\ holder' = holder
    BY <1>1 DEF Call, Goto
  <2> QED BY <1>0, <2>1 DEF HolderInv, TypeOK
<1>2. ASSUME NEW c \in Calls, Acquire(c) PROVE HolderInv'
  <2>1. CASE alive
    BY <1>0, <1>2, <2>1, TalkHolder DEF Acquire
  <2>2. CASE ~alive
    BY <1>2, <2>2, GiveUpOrRestartHolder DEF Acquire
  <2> QED BY <2>1, <2>2
<1>3. ASSUME NEW c \in Calls, SkipNote(c) PROVE HolderInv'
  BY <1>3 DEF SkipNote, HolderInv
<1>4. ASSUME NEW c \in Calls, TakeResult(c) PROVE HolderInv'
  BY <1>4, ReturnHolder DEF TakeResult
<1>5. ASSUME NEW c \in Calls, FailFirst(c) PROVE HolderInv'
  <2>1. holder = c
    BY <1>0, <1>5 DEF FailFirst, HolderInv
  <2> QED BY <1>5, <2>1, GiveUpOrRestartHolder DEF FailFirst
<1>6. ASSUME NEW c \in Calls, Spawn(c) PROVE HolderInv'
  <2>1. holder = c /\ holder' = holder /\ pc' = [pc EXCEPT ![c] = "init"]
    BY <1>0, <1>6 DEF Spawn, HolderInv, Goto
  <2> QED BY <1>0, <2>1, TalkHolder
<1>7. ASSUME NEW c \in Calls, SpawnFails(c) PROVE HolderInv'
  BY <1>7, ReturnHolder DEF SpawnFails
<1>8. ASSUME NEW c \in Calls, InitAnswered(c) PROVE HolderInv'
  <2>1. CASE alive
    <3>1. holder = c /\ holder' = holder /\ pc' = [pc EXCEPT ![c] = "retry"]
      BY <1>0, <1>8, <2>1 DEF InitAnswered, HolderInv, Goto
    <3> QED BY <1>0, <3>1, TalkHolder
  <2>2. CASE ~alive
    BY <1>8, <2>2, ReturnHolder DEF InitAnswered
  <2> QED BY <2>1, <2>2
<1>9. ASSUME NEW c \in Calls, FailLater(c) PROVE HolderInv'
  BY <1>9, ReturnHolder DEF FailLater
<1>10. ASSUME NEW c \in Calls, Timeout(c) PROVE HolderInv'
  BY <1>10, ReturnHolder DEF Timeout
<1>11. ASSUME Serve \/ Notify \/ Crash \/ UNCHANGED vars PROVE HolderInv'
  BY <1>11 DEF Serve, Notify, Crash, vars, HolderInv
<1> QED BY <1>1, <1>2, <1>3, <1>4, <1>5, <1>6, <1>7, <1>8, <1>9, <1>10, <1>11 DEF Next, Step

-----------------------------------------------------------------------------
(* A process is killed only within the budget.                             *)
LEMMA GiveUpOrRestartBudget ==
  ASSUME TypeOK, BudgetInv, NEW c \in Calls, GiveUpOrRestart(c), restarts' = restarts
  PROVE  BudgetInv'
<1>1. CASE restarts >= MaxRestarts
  BY <1>1 DEF GiveUpOrRestart, Return, BudgetInv, TypeOK
<1>2. CASE ~(restarts >= MaxRestarts)
  <2>1. pc' = [pc EXCEPT ![c] = "kill"]
    BY <1>2 DEF GiveUpOrRestart
  <2>2. restarts < MaxRestarts
    BY <1>2 DEF TypeOK
  <2> QED BY <2>1, <2>2 DEF BudgetInv, TypeOK
<1> QED BY <1>1, <1>2

(* Every step keeps the budget.                                            *)
LEMMA BudgetStep == TypeOK /\ HolderInv /\ BudgetInv /\ [Next]_vars => BudgetInv'
<1> SUFFICES ASSUME TypeOK, HolderInv, BudgetInv, [Next]_vars PROVE BudgetInv'
  OBVIOUS
<1>1. ASSUME NEW c \in Calls, NEW r, Return(c, r), restarts' = restarts PROVE BudgetInv'
  BY <1>1 DEF Return, BudgetInv, TypeOK
<1>2. ASSUME NEW c \in Calls, NEW p \in {"waiting", "init", "retry"}, Goto(c, p), restarts' = restarts
      PROVE BudgetInv'
  BY <1>2 DEF Goto, BudgetInv, TypeOK
<1>3. ASSUME NEW c \in Calls, Acquire(c) PROVE BudgetInv'
  <2>1. CASE alive
    BY <1>3, <2>1 DEF Acquire, BudgetInv, TypeOK
  <2>2. CASE ~alive
    BY <1>3, <2>2, GiveUpOrRestartBudget DEF Acquire
  <2> QED BY <2>1, <2>2
<1>4. ASSUME NEW c \in Calls, FailFirst(c) PROVE BudgetInv'
  BY <1>4, GiveUpOrRestartBudget DEF FailFirst
<1>5. ASSUME NEW c \in Calls, Spawn(c) PROVE BudgetInv'
  <2>1. pc[c] = "kill" /\ pc' = [pc EXCEPT ![c] = "init"]
    BY <1>5 DEF Spawn, Goto
  <2>2. \A d \in Calls : pc[d] = "kill" => d = c
    BY <2>1 DEF HolderInv, Talking
  <2> QED BY <2>1, <2>2 DEF BudgetInv, TypeOK
<1>6. ASSUME NEW c \in Calls, InitAnswered(c) PROVE BudgetInv'
  BY <1>1, <1>2, <1>6 DEF InitAnswered
<1>7. ASSUME NEW c \in Calls,
             TakeResult(c) \/ SpawnFails(c) \/ FailLater(c) \/ Timeout(c)
      PROVE BudgetInv'
  BY <1>1, <1>7 DEF TakeResult, SpawnFails, FailLater, Timeout
<1>8. ASSUME NEW c \in Calls, Call(c) \/ SkipNote(c) PROVE BudgetInv'
  BY <1>2, <1>8 DEF Call, SkipNote, BudgetInv
<1>9. ASSUME Serve \/ Notify \/ Crash \/ UNCHANGED vars PROVE BudgetInv'
  BY <1>9 DEF Serve, Notify, Crash, vars, BudgetInv
<1> QED BY <1>3, <1>4, <1>5, <1>6, <1>7, <1>8, <1>9 DEF Next, Step

-----------------------------------------------------------------------------
(* What a failed attempt leaves of the process.                            *)
LEMMA GiveUpOrRestartPipe ==
  ASSUME NEW c \in Calls, GiveUpOrRestart(c)
  PROVE  \/ alive' = alive /\ stdin' = stdin /\ holder' = IF holder = c THEN None ELSE holder
         \/ alive' = FALSE /\ stdin' = <<>> /\ holder' = c
BY DEF GiveUpOrRestart, Return

(* Every step writes to live processes only, and only requests and the     *)
(* notification.                                                           *)
LEMMA PipeStep == TypeOK /\ DeadInv /\ StdinInv /\ [Next]_vars => DeadInv' /\ StdinInv'
<1> DEFINE Pipes == DeadInv /\ StdinInv
<1> SUFFICES ASSUME TypeOK, Pipes, [Next]_vars PROVE Pipes'
  OBVIOUS
<1>1. ASSUME alive' = alive, stdin' = stdin PROVE Pipes'
  BY <1>1 DEF DeadInv, StdinInv
<1>2. ASSUME stdin' = <<>> PROVE Pipes'
  BY <1>2 DEF DeadInv, StdinInv
<1>3. ASSUME NEW c \in Calls, GiveUpOrRestart(c) PROVE Pipes'
  BY <1>1, <1>2, <1>3, GiveUpOrRestartPipe
<1>4. ASSUME NEW c \in Calls, Acquire(c) PROVE Pipes'
  <2>1. CASE alive
    <3>1. alive' /\ stdin' = Append(stdin, Request(<<c, "first">>))
      BY <1>4, <2>1 DEF Acquire
    <3>2. Request(<<c, "first">>).type = "request"
      BY DEF Request
    <3> QED BY <3>1, <3>2 DEF DeadInv, StdinInv, TypeOK
  <2>2. CASE ~alive
    BY <1>3, <1>4, <2>2 DEF Acquire
  <2> QED BY <2>1, <2>2
<1>5. ASSUME NEW c \in Calls, FailFirst(c) PROVE Pipes'
  BY <1>3, <1>5 DEF FailFirst
<1>6. ASSUME NEW c \in Calls, Spawn(c) PROVE Pipes'
  BY <1>6 DEF Spawn, Request, DeadInv, StdinInv
<1>7. ASSUME NEW c \in Calls, InitAnswered(c) PROVE Pipes'
  <2>1. CASE alive
    <3>1. alive' /\ stdin' = stdin \o <<Initialized, Request(<<c, "retry">>)>>
      BY <1>7, <2>1 DEF InitAnswered
    <3>2. Request(<<c, "retry">>).type = "request" /\ Initialized.type = "initialized"
      BY DEF Request, Initialized
    <3> QED BY <3>1, <3>2 DEF DeadInv, StdinInv, TypeOK
  <2>2. CASE ~alive
    BY <1>1, <1>7, <2>2 DEF InitAnswered
  <2> QED BY <2>1, <2>2
<1>8. ASSUME Serve PROVE Pipes'
  <2>1. alive' = alive /\ alive /\ stdin # <<>> /\ stdin' = Tail(stdin)
    BY <1>8 DEF Serve
  <2>2. StdinInv'
    BY <2>1 DEF StdinInv, TypeOK
  <2> QED BY <2>1, <2>2 DEF DeadInv
<1>9. ASSUME Crash PROVE Pipes'
  BY <1>2, <1>9 DEF Crash
<1>10. ASSUME NEW c \in Calls,
              \/ Call(c) \/ SkipNote(c) \/ TakeResult(c) \/ SpawnFails(c)
              \/ FailLater(c) \/ Timeout(c)
       PROVE Pipes'
  BY <1>1, <1>10 DEF Call, SkipNote, TakeResult, SpawnFails, FailLater, Timeout, serverVars
<1>11. ASSUME Notify \/ UNCHANGED vars PROVE Pipes'
  BY <1>1, <1>11 DEF Notify, vars
<1> QED BY <1>4, <1>5, <1>6, <1>7, <1>8, <1>9, <1>10, <1>11 DEF Next, Step

-----------------------------------------------------------------------------
(* A step that touches neither the pipes nor the call that talks keeps     *)
(* client and server in step.                                              *)
LEMMA QuietStep ==
  ASSUME HolderInv, InStep, holder \in Calls \cup {None},
         UNCHANGED <<stdin, stdout, cut, tainted, holder>>,
         holder # None => pc'[holder] = pc[holder]
  PROVE  InStep'
BY DEF InStep

(* With nothing of a call in the pipes they are in step.                   *)
LEMMA EmptyStep ==
  ASSUME ~tainted' => ~cut' /\ Requests(stdin') = {} /\ Answers(stdout') = {}
  PROVE  InStep'
BY DEF InStep

(* A line that ends the read loop is the only one that belonged to a call. *)
LEMMA ConsumedAll ==
  ASSUME TypeOK, DeadInv, InStep, ~tainted, Answered \/ Failed, Consume
  PROVE  ~cut' /\ Requests(stdin) = {} /\ Answers(stdout') = {}
<1>1. ~cut'
  BY DEF Consume
<1>2. CASE EndOfFile
  BY <1>1, <1>2 DEF EndOfFile, Arrived, Consume, DeadInv, Requests, Answers
<1>3. CASE ~EndOfFile
  <2>1. Arrived /\ Line.type \in {"ok", "error"}
    BY <1>3 DEF Answered, Failed, InStep
  <2>2. stdout # <<>> /\ stdout \in Seq(Lines) /\ stdout' = Tail(stdout)
    BY <2>1 DEF TypeOK, Arrived, Consume
  <2>3. 1 \in Answers(stdout)
    BY <2>1, <2>2 DEF Answers, Line
  <2>4. Requests(stdin) = {}
    BY <2>3 DEF InStep
  <2>5. Answers(stdout') = {}
    BY <2>2, <2>3, TailShifts DEF InStep
  <2> QED BY <1>1, <2>4, <2>5
<1> QED BY <1>2, <1>3

(* Before the mutex is taken the pipes hold nothing of a call.             *)
LEMMA FreeIsQuiet ==
  ASSUME InStep, holder = None, ~tainted
  PROVE  ~cut /\ Requests(stdin) = {} /\ Answers(stdout) = {}
BY DEF InStep

(* Nor do they while a killed process is waited for.                       *)
LEMMA KilledIsQuiet ==
  ASSUME TypeOK, InStep, HolderInv, NEW c \in Calls, pc[c] = "kill", ~tainted
  PROVE  ~cut /\ Requests(stdin) = {} /\ Answers(stdout) = {}
<1>1. holder = c
  BY DEF HolderInv, Talking
<1>2. \A l \in Lines : l.id # <<c, "kill">>
  BY DEF Lines, Ids
<1>3. \A k \in Requests(stdin) : stdin[k] \in Lines
  BY DEF TypeOK, Requests
<1>4. \A k \in Answers(stdout) : stdout[k] \in Lines
  BY DEF TypeOK, Answers
<1> QED BY <1>1, <1>2, <1>3, <1>4 DEF InStep

(* Every step that does not drop a call keeps client and server in step.   *)
LEMMA InStepStep == Inv /\ [Next]_vars => InStep'
<1> SUFFICES ASSUME Inv, [Next]_vars PROVE InStep'
  OBVIOUS
<1> USE DEF Inv
<1>0. holder \in Calls \cup {None}
  BY DEF TypeOK
<1>1. ASSUME NEW c \in Calls, Call(c) PROVE InStep'
  <2>1. pc[c] = "idle" /\ pc' = [pc EXCEPT ![c] = "waiting"] /\ holder' = holder
    BY <1>1 DEF Call, Goto
  <2>2. holder # c
    BY <2>1 DEF HolderInv, Talking, Reading
  <2>3. holder # None => pc'[holder] = pc[holder]
    BY <1>0, <2>1, <2>2 DEF TypeOK
  <2> QED BY <1>0, <1>1, <2>1, <2>3, QuietStep DEF Call, serverVars
<1>2. ASSUME NEW c \in Calls, Acquire(c) PROVE InStep'
  <2>0. holder = None /\ UNCHANGED <<stdout, cut, tainted>>
    BY <1>2 DEF Acquire
  <2>1. CASE alive
    <3>1. /\ stdin' = Append(stdin, Request(<<c, "first">>))
          /\ holder' = c /\ pc' = [pc EXCEPT ![c] = "first"]
      BY <1>2, <2>1 DEF Acquire
    <3>2. holder' # None /\ pc'[holder'] = "first"
      BY <3>1 DEF TypeOK
    <3>3. <<c, "first">> \in Ids
      BY DEF Ids
    <3>4. Request(<<c, "first">>) \in Lines /\ stdin \in Seq(Lines)
      BY <3>3, LineKinds DEF TypeOK
    <3>5. Request(<<c, "first">>).id = <<c, "first">>
      BY DEF Request
    <3>6. ~tainted' => \A k \in Requests(stdin') : k = Len(stdin) + 1 /\ stdin'[k].id = <<c, "first">>
      <4>1. ~tainted' => Requests(stdin) = {}
        BY <2>0, FreeIsQuiet
      <4>2. \A k \in Requests(stdin') :
              \/ k \in Requests(stdin)
              \/ k = Len(stdin) + 1 /\ stdin'[k] = Request(<<c, "first">>)
        BY <3>1, <3>4, AppendKeeps
      <4> QED BY <3>5, <4>1, <4>2
    <3>7. ~tainted' => ~cut' /\ Answers(stdout') = {}
      BY <2>0, FreeIsQuiet
    <3> QED BY <3>1, <3>2, <3>6, <3>7 DEF InStep
  <2>2. CASE ~alive
    <3>1. stdin' \in {stdin, <<>>}
      BY <1>2, <2>2, GiveUpOrRestartPipe DEF Acquire
    <3> QED BY <2>0, <3>1, FreeIsQuiet, EmptyStep DEF Requests
  <2> QED BY <2>1, <2>2
<1>3. ASSUME NEW c \in Calls, SkipNote(c) PROVE InStep'
  <2>1. /\ stdout # <<>> /\ stdout \in Seq(Lines) /\ stdout' = Tail(stdout) /\ cut' = FALSE
        /\ UNCHANGED <<holder, pc, stdin, tainted>>
    BY <1>3 DEF SkipNote, Skipped, Consume, Arrived, TypeOK
  <2>2. \A k \in Answers(stdout') : k + 1 \in Answers(stdout) /\ stdout'[k] = stdout[k+1] /\ k \in Nat \ {0}
    BY <2>1, TailShifts
  <2>3. ~tainted => \A k \in Answers(stdout') : holder # None /\ stdout'[k].id = <<holder, pc[holder]>>
    BY <2>2 DEF InStep
  <2>4. ~tainted => \A j, k \in Answers(stdout') : j = k
    BY <2>2 DEF InStep
  <2>5. Answers(stdout) = {} => Answers(stdout') = {}
    BY <2>2
  <2> QED BY <2>1, <2>3, <2>4, <2>5 DEF InStep
<1>4. ASSUME NEW c \in Calls, TakeResult(c) PROVE InStep'
  BY <1>4, ConsumedAll, EmptyStep DEF TakeResult
<1>5. ASSUME NEW c \in Calls, FailFirst(c) PROVE InStep'
  <2>1. stdin' \in {stdin, <<>>}
    BY <1>5, GiveUpOrRestartPipe DEF FailFirst
  <2> QED BY <1>5, <2>1, ConsumedAll, EmptyStep DEF FailFirst, Requests
<1>6. ASSUME NEW c \in Calls, Spawn(c) PROVE InStep'
  <2>1. /\ stdin' = <<Request(<<c, "init">>)>> /\ stdout' = <<>> /\ cut' = FALSE
        /\ holder' = holder /\ pc[c] = "kill" /\ pc' = [pc EXCEPT ![c] = "init"]
    BY <1>6 DEF Spawn, Goto
  <2>2. holder = c
    BY <2>1 DEF HolderInv, Talking
  <2>3. holder' # None /\ <<holder', pc'[holder']>> = <<c, "init">>
    BY <2>1, <2>2 DEF TypeOK
  <2>4. stdin'[1].id = <<c, "init">> /\ DOMAIN stdin' = {1}
    BY <2>1 DEF Request
  <2> QED BY <2>1, <2>3, <2>4 DEF InStep, Requests, Answers
<1>7. ASSUME NEW c \in Calls, SpawnFails(c) PROVE InStep'
  <2>1. pc[c] = "kill" /\ UNCHANGED <<stdin, stdout, cut, tainted>>
    BY <1>7 DEF SpawnFails, serverVars
  <2> QED BY <2>1, KilledIsQuiet, EmptyStep
<1>8. ASSUME NEW c \in Calls, InitAnswered(c) PROVE InStep'
  <2>0. pc[c] = "init" /\ Answered /\ Consume /\ tainted' = tainted
    BY <1>8 DEF InitAnswered
  <2>1. CASE alive
    <3>1. /\ stdin' = stdin \o <<Initialized, Request(<<c, "retry">>)>>
          /\ holder' = holder /\ pc' = [pc EXCEPT ![c] = "retry"]
      BY <1>8, <2>1 DEF InitAnswered, Goto
    <3>2. holder = c
      BY <2>0 DEF HolderInv, Talking, Reading
    <3>3. holder' # None /\ pc'[holder'] = "retry" /\ holder' = c
      BY <3>1, <3>2 DEF TypeOK
    <3>4. <<c, "retry">> \in Ids
      BY DEF Ids
    <3>5. /\ Request(<<c, "retry">>) \in Lines /\ Initialized \in Lines /\ stdin \in Seq(Lines)
      BY <3>4, LineKinds, OtherLines DEF TypeOK
    <3>6. Request(<<c, "retry">>).id = <<c, "retry">> /\ Initialized.type # "request"
      BY DEF Request, Initialized
    <3> DEFINE mid == Append(stdin, Initialized)
    <3>7. mid \in Seq(Lines) /\ stdin' = Append(mid, Request(<<c, "retry">>))
      BY <3>1, <3>5
    <3>8. ~tainted' => Requests(stdin) = {} /\ ~cut' /\ Answers(stdout') = {}
      BY <2>0, ConsumedAll
    <3>9. ~tainted' => Requests(mid) = {}
      BY <3>5, <3>6, <3>8, AppendKeeps
    <3>10. ~tainted' => \A k \in Requests(stdin') : k = Len(mid) + 1 /\ stdin'[k].id = <<c, "retry">>
      <4>1. \A k \in Requests(stdin') :
              \/ k \in Requests(mid)
              \/ k = Len(mid) + 1 /\ stdin'[k] = Request(<<c, "retry">>)
        BY <3>5, <3>7, AppendKeeps
      <4> QED BY <3>6, <3>9, <4>1
    <3> QED BY <3>3, <3>8, <3>10 DEF InStep
  <2>2. CASE ~alive
    BY <1>8, <2>0, <2>2, ConsumedAll, EmptyStep DEF InitAnswered
  <2> QED BY <2>1, <2>2
<1>9. ASSUME NEW c \in Calls, FailLater(c) PROVE InStep'
  BY <1>9, ConsumedAll, EmptyStep DEF FailLater
<1>10. ASSUME NEW c \in Calls, Timeout(c) PROVE InStep'
  <2>0. /\ pc' = [pc EXCEPT ![c] = "done"] /\ holder' = IF holder = c THEN None ELSE holder
        /\ tainted' = (tainted \/ pc[c] \in Reading) /\ pc[c] \in Active
        /\ pc[c] \notin Reading => cut' = cut
        /\ UNCHANGED <<stdin, stdout>>
    BY <1>10 DEF Timeout, Return, serverVars
  <2>1. CASE pc[c] \in Reading
    BY <2>0, <2>1 DEF InStep
  <2>2. CASE pc[c] = "kill"
    <3>1. UNCHANGED <<stdin, stdout, cut, tainted>>
      <4>1. pc[c] \notin Reading
        BY <2>2 DEF Reading
      <4> QED BY <2>0, <4>1 DEF TypeOK
    <3> QED BY <2>2, <3>1, KilledIsQuiet, EmptyStep
  <2>3. CASE pc[c] = "waiting"
    <3>1. holder # c
      BY <2>3 DEF HolderInv, Talking, Reading
    <3>2. holder # None => pc'[holder] = pc[holder]
      BY <1>0, <2>0, <3>1 DEF TypeOK
    <3>3. UNCHANGED <<stdin, stdout, cut, tainted, holder>>
      BY <2>0, <2>3, <3>1 DEF Reading, TypeOK
    <3> QED BY <1>0, <3>2, <3>3, QuietStep
  <2> QED BY <2>0, <2>1, <2>2, <2>3 DEF Active
<1>11. ASSUME Serve PROVE InStep'
  <2>0. /\ stdin # <<>> /\ stdin \in Seq(Lines) /\ stdin' = Tail(stdin) /\ stdout \in Seq(Lines)
        /\ UNCHANGED <<holder, pc, cut, tainted>>
    BY <1>11 DEF Serve, TypeOK
  <2>1. CASE Head(stdin).type = "initialized"
    <3>1. stdout' = stdout
      BY <1>11, <2>1 DEF Serve
    <3>2. \A k \in Requests(stdin') : k + 1 \in Requests(stdin) /\ stdin'[k] = stdin[k+1] /\ k \in Nat \ {0}
      BY <2>0, TailShifts
    <3>3. ~tainted => \A k \in Requests(stdin') : holder # None /\ stdin'[k].id = <<holder, pc[holder]>>
      BY <3>2 DEF InStep
    <3>4. ~tainted => \A j, k \in Requests(stdin') : j = k
      BY <3>2 DEF InStep
    <3>5. Requests(stdin) = {} => Requests(stdin') = {}
      BY <3>2
    <3> QED BY <2>0, <3>1, <3>3, <3>4, <3>5 DEF InStep
  <2>2. CASE Head(stdin).type # "initialized"
    <3>1. PICK what \in {"ok", "error"} : stdout' = Append(stdout, Response(Head(stdin).id, what))
      BY <1>11, <2>2 DEF Serve
    <3>2. 1 \in Requests(stdin) /\ Head(stdin) = stdin[1] /\ Head(stdin) \in Lines
      BY <2>0, <2>2 DEF StdinInv, Requests
    <3>3. Response(Head(stdin).id, what) \in Lines
      BY <3>2, AnswerIsLine
    <3>4. Response(Head(stdin).id, what).id = stdin[1].id
      BY <3>2 DEF Response
    <3>5. ~tainted => Requests(stdin') = {}
      BY <2>0, <3>2, TailShifts DEF InStep
    <3>6. ~tainted => /\ ~cut /\ holder # None /\ stdin[1].id = <<holder, pc[holder]>>
                      /\ Answers(stdout) = {}
      BY <3>2 DEF InStep
    <3>7. ~tainted => \A k \in Answers(stdout') : k = Len(stdout) + 1 /\ stdout'[k].id = stdin[1].id
      BY <2>0, <3>1, <3>3, <3>4, <3>6, AppendKeeps
    <3> QED BY <2>0, <3>5, <3>6, <3>7 DEF InStep
  <2> QED BY <2>1, <2>2
<1>12. ASSUME Notify PROVE InStep'
  <2>1. /\ stdout' = Append(stdout, Note) /\ stdout \in Seq(Lines) /\ Note \in Lines
        /\ UNCHANGED <<holder, pc, stdin, cut, tainted>>
    BY <1>12, OtherLines DEF Notify, TypeOK
  <2>2. Note.type = "note"
    BY DEF Note
  <2>3. \A k \in Answers(stdout') : k \in Answers(stdout) /\ stdout'[k] = stdout[k]
    BY <2>1, <2>2, AppendKeeps
  <2> QED BY <2>1, <2>3 DEF InStep
<1>13. ASSUME Crash PROVE InStep'
  <2>1. stdin' = <<>> /\ UNCHANGED <<holder, pc, stdout, cut, tainted>>
    BY <1>13 DEF Crash
  <2>2. Requests(stdin') = {}
    BY <2>1 DEF Requests
  <2> QED BY <2>1, <2>2 DEF InStep
<1>14. CASE UNCHANGED vars
  BY <1>14 DEF vars, InStep
<1> QED BY <1>1, <1>2, <1>3, <1>4, <1>5, <1>6, <1>7, <1>8, <1>9, <1>10, <1>11, <1>12, <1>13, <1>14
        DEF Next, Step

(* The invariant holds in every state.                                     *)
LEMMA InvHolds == Spec => []Inv
<1>1. Inv /\ [Next]_vars => Inv'
  BY TypeStep, HolderStep, BudgetStep, PipeStep, InStepStep DEF Inv
<1> QED BY <1>1, InitHolds, PTL DEF Spec

(* Every variable keeps its type, and a server's processes are restarted   *)
(* MaxRestarts times at most however calls fail, time out and interleave   *)
(* (stdio.rs, restart_if_needed).                                          *)
THEOREM TypeCorrect == Spec => []TypeOK
<1>1. Inv => TypeOK
  BY DEF Inv
<1> QED BY <1>1, InvHolds, PTL

(* Unless a call was dropped while it talked to the process, the pipes     *)
(* hold at most one line that belongs to a call, and it belongs to the     *)
(* call that has the mutex (stdio.rs, call_tool).                          *)
THEOREM ClientAndServerInStep == Spec => []InStep
<1>1. Inv => InStep
  BY DEF Inv
<1> QED BY <1>1, InvHolds, PTL

-----------------------------------------------------------------------------
(* Only a response changes a result into an answer, and it is the answer   *)
(* to the call that takes it unless a call was dropped on the process.     *)
LEMMA OwnAnswerStep == Inv /\ OwnAnswer /\ [Next]_vars => OwnAnswer'
<1> SUFFICES ASSUME Inv, OwnAnswer, [Next]_vars PROVE OwnAnswer'
  OBVIOUS
<1>1. ASSUME UNCHANGED result PROVE OwnAnswer'
  BY <1>1 DEF OwnAnswer
<1>2. ASSUME NEW c \in Calls, NEW r \in {<<"failed">>, <<"timeout">>}, result' = [result EXCEPT ![c] = r]
      PROVE OwnAnswer'
  <2>1. r[1] # "ok"
    BY <1>2
  <2> QED BY <1>2, <2>1 DEF OwnAnswer, Inv, TypeOK
<1>3. ASSUME NEW c \in Calls, GiveUpOrRestart(c) PROVE OwnAnswer'
  BY <1>1, <1>2, <1>3 DEF GiveUpOrRestart, Return
<1>4. ASSUME NEW c \in Calls, TakeResult(c) PROVE OwnAnswer'
  <2>1. /\ Arrived /\ Line.type = "ok" /\ pc[c] \in Reading
        /\ result' = [result EXCEPT ![c] = <<"ok", Line.id, tainted>>]
    BY <1>4 DEF TakeResult, Answered, Return, Reading
  <2>2. 1 \in Answers(stdout) /\ Line = stdout[1]
    BY <2>1 DEF Inv, TypeOK, Answers, Arrived, Line
  <2>3. holder = c
    BY <2>1 DEF Inv, HolderInv, Talking
  <2>4. ~tainted => Line.id[1] = c
    BY <2>2, <2>3 DEF Inv, InStep
  <2>5. result'[c][2] = Line.id /\ result'[c][3] = tainted
    BY <2>1 DEF Inv, TypeOK
  <2>6. \A d \in Calls : d # c => result'[d] = result[d]
    BY <2>1 DEF Inv, TypeOK
  <2>7. tainted \in BOOLEAN
    BY DEF Inv, TypeOK
  <2> QED BY <2>4, <2>5, <2>6, <2>7 DEF OwnAnswer
<1>5. ASSUME NEW c \in Calls, Acquire(c) \/ FailFirst(c) PROVE OwnAnswer'
  BY <1>1, <1>3, <1>5 DEF Acquire, FailFirst
<1>6. ASSUME NEW c \in Calls,
             SpawnFails(c) \/ InitAnswered(c) \/ FailLater(c) \/ Timeout(c)
      PROVE OwnAnswer'
  BY <1>1, <1>2, <1>6 DEF SpawnFails, InitAnswered, FailLater, Timeout, Return, Goto
<1>7. ASSUME NEW c \in Calls, Call(c) \/ SkipNote(c) \/ Spawn(c) PROVE OwnAnswer'
  BY <1>1, <1>7 DEF Call, SkipNote, Spawn, Goto
<1>8. ASSUME Serve \/ Notify \/ Crash \/ UNCHANGED vars PROVE OwnAnswer'
  BY <1>1, <1>8 DEF Serve, Notify, Crash, vars
<1> QED BY <1>4, <1>5, <1>6, <1>7, <1>8 DEF Next, Step

(* A tool call returns its own response, unless an earlier call was        *)
(* dropped while it talked to the same process: the mutex and the one      *)
(* response per request do what comparing ids would do (stdio.rs,          *)
(* send_request_with_state).                                               *)
THEOREM AnswersAreOwn == Spec => []OwnAnswer
<1>1. Init => OwnAnswer
  BY DEF Init, OwnAnswer
<1> QED BY <1>1, InvHolds, OwnAnswerStep, PTL DEF Spec

-----------------------------------------------------------------------------
(* The handshake.  A call has been told nothing until it returns, so that   *)
(* what broke once stays broken.                                            *)
Broken == \E c \in Calls : result[c][1] \in {"failed", "timeout"}

OwnWord == \A c \in Calls : pc[c] # "done" => result[c] = <<"none">>

LEMMA ReturnWord ==
  ASSUME TypeOK, OwnWord, NEW c \in Calls, NEW r, pc[c] # "done", Return(c, r)
  PROVE  OwnWord' /\ (Broken => Broken')
<1>1. /\ \A d \in Calls \ {c} : pc'[d] = pc[d] /\ result'[d] = result[d]
      /\ pc'[c] = "done" /\ result[c] = <<"none">>
  BY DEF Return, TypeOK, OwnWord
<1>2. result[c][1] \notin {"failed", "timeout"}
  BY <1>1
<1> QED BY <1>1, <1>2 DEF OwnWord, Broken

LEMMA ReturnBroken ==
  ASSUME TypeOK, NEW c \in Calls, NEW r \in {<<"failed">>, <<"timeout">>}, Return(c, r)
  PROVE  Broken'
<1>1. result'[c] = r /\ r[1] \in {"failed", "timeout"}
  BY DEF Return, TypeOK
<1> QED BY <1>1 DEF Broken

(* A call that goes on has still been told nothing. *)
LEMMA GoonWord ==
  ASSUME TypeOK, OwnWord, NEW c \in Calls, NEW p, pc[c] # "done",
         pc' = [pc EXCEPT ![c] = p], result' = result
  PROVE  OwnWord' /\ (Broken => Broken')
BY DEF OwnWord, Broken, TypeOK

LEMMA GiveUpOrRestartWord ==
  ASSUME TypeOK, OwnWord, NEW c \in Calls, pc[c] # "done", GiveUpOrRestart(c)
  PROVE  /\ OwnWord' /\ (Broken => Broken')
         /\ Broken' \/ (alive' = FALSE /\ stdin' = <<>>)
<1>1. CASE restarts >= MaxRestarts
  BY <1>1, ReturnWord, ReturnBroken DEF GiveUpOrRestart
<1>2. CASE ~(restarts >= MaxRestarts)
  BY <1>2, GoonWord DEF GiveUpOrRestart
<1> QED BY <1>1, <1>2

LEMMA WordStep == TypeOK /\ OwnWord /\ [Next]_vars => OwnWord' /\ (Broken => Broken')
<1> DEFINE Kept == OwnWord' /\ (Broken => Broken')
<1> SUFFICES ASSUME TypeOK, OwnWord, [Next]_vars PROVE Kept
  OBVIOUS
<1>1. ASSUME UNCHANGED <<pc, result>> PROVE Kept
  BY <1>1 DEF OwnWord, Broken
<1>2. ASSUME NEW c \in Calls, NEW p, pc[c] # "done", Goto(c, p) PROVE Kept
  BY <1>2, GoonWord DEF Goto
<1>3. ASSUME NEW c \in Calls, Acquire(c) PROVE Kept
  <2>1. CASE alive
    BY <1>3, <2>1, GoonWord DEF Acquire
  <2>2. CASE ~alive
    BY <1>3, <2>2, GiveUpOrRestartWord DEF Acquire
  <2> QED BY <2>1, <2>2
<1>4. ASSUME NEW c \in Calls, FailFirst(c) PROVE Kept
  BY <1>4, GiveUpOrRestartWord DEF FailFirst
<1>5. ASSUME NEW c \in Calls, InitAnswered(c) PROVE Kept
  BY <1>2, <1>5, ReturnWord DEF InitAnswered
<1>6. ASSUME NEW c \in Calls, TakeResult(c) \/ SpawnFails(c) \/ FailLater(c) \/ Timeout(c) PROVE Kept
  BY <1>6, ReturnWord DEF TakeResult, SpawnFails, FailLater, Timeout, Active, Reading
<1>7. ASSUME NEW c \in Calls, Call(c) \/ Spawn(c) PROVE Kept
  BY <1>2, <1>7 DEF Call, Spawn
<1>8. ASSUME NEW c \in Calls, SkipNote(c) PROVE Kept
  BY <1>1, <1>8 DEF SkipNote
<1>9. ASSUME Serve \/ Notify \/ Crash \/ UNCHANGED vars PROVE Kept
  BY <1>1, <1>9 DEF Serve, Notify, Crash, vars
<1> QED BY <1>3, <1>4, <1>5, <1>6, <1>7, <1>8, <1>9 DEF Next, Step

(* While nothing is broken, a process that has not been told so yet either  *)
(* has the notification in its stdin or is talked to by the call that will  *)
(* write it, and no tool call is ahead of the notification.                 *)
Initializing == \E k \in DOMAIN stdin : stdin[k].type = "initialized"

HandshakeInv ==
  /\ OwnWord
  /\ ~Broken =>
       /\ ~early
       /\ alive /\ ~ready => (holder # None /\ pc[holder] = "init") \/ Initializing
       /\ ~ready => \A k \in Requests(stdin) : stdin[k].id[2] # "init" =>
                      \E j \in DOMAIN stdin : j < k /\ stdin[j].type = "initialized"

(* A step after which something is broken. *)
LEMMA BrokenStep == ASSUME OwnWord', Broken' PROVE HandshakeInv'
BY DEF HandshakeInv

(* A step that leaves the pipes alone and whoever shakes hands at it. *)
LEMMA HandshakeQuiet ==
  ASSUME HandshakeInv, OwnWord', Broken => Broken', UNCHANGED <<alive, stdin, ready, early>>,
         (holder # None /\ pc[holder] = "init") => (holder' # None /\ pc'[holder'] = "init")
  PROVE  HandshakeInv'
BY DEF HandshakeInv, Initializing, Requests

(* The process is dead and has nothing to read. *)
LEMMA HandshakeDead ==
  ASSUME HandshakeInv, OwnWord', Broken => Broken', alive' = FALSE, stdin' = <<>>, early' = early
  PROVE  HandshakeInv'
BY DEF HandshakeInv, Requests

LEMMA HandshakeStep == Inv /\ HandshakeInv /\ [Next]_vars => HandshakeInv'
<1> SUFFICES ASSUME Inv, HandshakeInv, [Next]_vars PROVE HandshakeInv'
  OBVIOUS
<1> USE DEF Inv
<1>a. OwnWord' /\ (Broken => Broken')
  BY WordStep DEF HandshakeInv
<1>b. OwnWord
  BY DEF HandshakeInv
<1>0. holder \in Calls \cup {None} /\ <<"failed">> \in Results /\ <<"timeout">> \in Results
  BY DEF TypeOK, Results
<1>1. ASSUME NEW c \in Calls, Call(c) PROVE HandshakeInv'
  <2>1. pc[c] = "idle" /\ pc' = [pc EXCEPT ![c] = "waiting"] /\ holder' = holder
    BY <1>1 DEF Call, Goto
  <2>2. holder # c
    BY <2>1 DEF HolderInv, Talking, Reading
  <2> QED BY <1>a, <1>0, <1>1, <2>1, <2>2, HandshakeQuiet DEF Call, serverVars, TypeOK
<1>2. ASSUME NEW c \in Calls, Acquire(c) PROVE HandshakeInv'
  <2>0. holder = None /\ pc[c] # "done" /\ UNCHANGED <<ready, early>>
    BY <1>2 DEF Acquire
  <2>1. CASE alive
    <3>1. /\ stdin' = Append(stdin, Request(<<c, "first">>)) /\ alive' = alive
          /\ stdin \in Seq(Lines)
      BY <1>2, <2>1 DEF Acquire, TypeOK
    <3>2. /\ DOMAIN stdin' = DOMAIN stdin \cup {Len(stdin) + 1} /\ DOMAIN stdin = 1..Len(stdin)
          /\ \A k \in DOMAIN stdin : stdin'[k] = stdin[k]
          /\ Len(stdin) \in Nat
      BY <3>1
    <3>3. ~Broken' /\ ~ready => Initializing
      BY <1>a, <2>0, <2>1 DEF HandshakeInv
    <3>4. Initializing => Initializing'
      BY <3>2 DEF Initializing
    <3>5. ASSUME ~Broken', ~ready', NEW k \in Requests(stdin'), stdin'[k].id[2] # "init"
          PROVE  \E j \in DOMAIN stdin' : j < k /\ stdin'[j].type = "initialized"
      <4>1. CASE k = Len(stdin) + 1
        BY <2>0, <3>2, <3>3, <3>5, <4>1 DEF Initializing
      <4>2. CASE k \in DOMAIN stdin
        <5>1. k \in Requests(stdin) /\ stdin[k].id[2] # "init"
          BY <3>2, <3>5, <4>2 DEF Requests
        <5> QED BY <1>a, <2>0, <3>2, <3>5, <5>1 DEF HandshakeInv
      <4> QED BY <3>2, <4>1, <4>2 DEF Requests
    <3> QED BY <1>a, <2>0, <3>1, <3>3, <3>4, <3>5 DEF HandshakeInv
  <2>2. CASE ~alive
    BY <1>a, <1>b, <1>2, <2>0, <2>2, GiveUpOrRestartWord, BrokenStep, HandshakeDead DEF Acquire
  <2> QED BY <2>1, <2>2
<1>3. ASSUME NEW c \in Calls, SkipNote(c) PROVE HandshakeInv'
  BY <1>a, <1>3, HandshakeQuiet DEF SkipNote
<1>4. ASSUME NEW c \in Calls, TakeResult(c) PROVE HandshakeInv'
  <2>1. holder = c /\ pc[c] # "init"
    BY <1>4 DEF TakeResult, HolderInv, Talking, Reading
  <2> QED BY <1>a, <1>4, <2>1, HandshakeQuiet DEF TakeResult
<1>5. ASSUME NEW c \in Calls, FailFirst(c) PROVE HandshakeInv'
  <2>1. pc[c] # "done" /\ GiveUpOrRestart(c) /\ early' = early
    BY <1>5 DEF FailFirst
  <2> QED BY <1>a, <1>b, <2>1, GiveUpOrRestartWord, BrokenStep, HandshakeDead
<1>6. ASSUME NEW c \in Calls, Spawn(c) PROVE HandshakeInv'
  <2>1. holder = c /\ holder' = holder /\ pc'[c] = "init"
    BY <1>6 DEF Spawn, HolderInv, Talking, Goto, TypeOK
  <2>2. stdin' = <<Request(<<c, "init">>)>> /\ Request(<<c, "init">>).id[2] = "init" /\ early' = early
    BY <1>6 DEF Spawn, Request
  <2>3. \A k \in Requests(stdin') : stdin'[k].id[2] = "init"
    BY <2>2 DEF Requests
  <2> QED BY <1>0, <1>a, <2>1, <2>2, <2>3 DEF HandshakeInv
<1>7. ASSUME NEW c \in Calls, SpawnFails(c) \/ FailLater(c) \/ Timeout(c) PROVE HandshakeInv'
  <2>1. \E r \in {<<"failed">>, <<"timeout">>} : Return(c, r)
    BY <1>7 DEF SpawnFails, FailLater, Timeout
  <2> QED BY <1>a, <2>1, ReturnBroken, BrokenStep
<1>8. ASSUME NEW c \in Calls, InitAnswered(c) PROVE HandshakeInv'
  <2>1. CASE alive
    <3>1. /\ stdin' = stdin \o <<Initialized, Request(<<c, "retry">>)>>
          /\ stdin \in Seq(Lines) /\ UNCHANGED <<alive, ready, early>>
      BY <1>8, <2>1 DEF InitAnswered, TypeOK
    <3>2. /\ DOMAIN stdin' = DOMAIN stdin \cup {Len(stdin) + 1, Len(stdin) + 2}
          /\ DOMAIN stdin = 1..Len(stdin) /\ Len(stdin) \in Nat
          /\ \A k \in DOMAIN stdin : stdin'[k] = stdin[k]
          /\ stdin'[Len(stdin) + 1] = Initialized
      BY <3>1
    <3>3. stdin'[Len(stdin) + 1].type = "initialized"
      BY <3>2 DEF Initialized
    <3>4. Initializing'
      BY <3>2, <3>3 DEF Initializing
    <3>5. ASSUME ~Broken', ~ready', NEW k \in Requests(stdin'), stdin'[k].id[2] # "init"
          PROVE  \E j \in DOMAIN stdin' : j < k /\ stdin'[j].type = "initialized"
      <4>1. CASE k = Len(stdin) + 2
        BY <3>2, <3>3, <4>1
      <4>2. CASE k = Len(stdin) + 1
        BY <3>3, <3>5, <4>2 DEF Requests
      <4>3. CASE k \in DOMAIN stdin
        <5>1. k \in Requests(stdin) /\ stdin[k].id[2] # "init"
          BY <3>2, <3>5, <4>3 DEF Requests
        <5> QED BY <1>a, <3>1, <3>2, <3>5, <5>1 DEF HandshakeInv
      <4> QED BY <3>2, <4>1, <4>2, <4>3 DEF Requests
    <3> QED BY <1>a, <3>1, <3>4, <3>5 DEF HandshakeInv
  <2>2. CASE ~alive
    BY <1>a, <1>8, <2>2, ReturnBroken, BrokenStep DEF InitAnswered
  <2> QED BY <2>1, <2>2
<1>9. ASSUME Serve PROVE HandshakeInv'
  <2>0. /\ stdin # <<>> /\ stdin \in Seq(Lines) /\ stdin' = Tail(stdin)
        /\ UNCHANGED <<holder, pc, result, alive>> /\ 1 \in DOMAIN stdin /\ Head(stdin) = stdin[1]
    BY <1>9 DEF Serve, TypeOK
  <2>1. \A k \in DOMAIN stdin' : k + 1 \in DOMAIN stdin /\ stdin'[k] = stdin[k+1] /\ k \in Nat \ {0}
    BY <2>0
  <2>2. CASE stdin[1].type = "initialized"
    <3>1. ready' = TRUE /\ early' = early
      BY <1>9, <2>0, <2>2 DEF Serve
    <3> QED BY <1>a, <3>1 DEF HandshakeInv
  <2>3. CASE stdin[1].type # "initialized"
    <3>1. ready' = ready /\ early' = (early \/ (stdin[1].id[2] # "init" /\ ~ready))
      BY <1>9, <2>0, <2>3 DEF Serve
    <3>2. \A j \in DOMAIN stdin : stdin[j].type = "initialized" =>
            j - 1 \in DOMAIN stdin' /\ stdin'[j-1] = stdin[j]
      <4> SUFFICES ASSUME NEW j \in DOMAIN stdin, stdin[j].type = "initialized"
                   PROVE  j - 1 \in DOMAIN stdin' /\ stdin'[j-1] = stdin[j]
        OBVIOUS
      <4>1. j \in 1..Len(stdin) /\ j # 1 /\ Len(stdin) \in Nat
        BY <2>0, <2>3
      <4>2. Len(stdin') = Len(stdin) - 1 /\ stdin' \in Seq(Lines)
        BY <2>0
      <4>3. j - 1 \in 1..Len(stdin')
        BY <4>1, <4>2
      <4> QED BY <2>0, <4>1, <4>2, <4>3
    <3>3. ~Broken' => ~early'
      <4>1. SUFFICES ASSUME ~Broken', ~ready, stdin[1].id[2] # "init" PROVE FALSE
        BY <1>a, <3>1 DEF HandshakeInv
      <4>2. 1 \in Requests(stdin)
        BY <2>0, <2>3 DEF StdinInv, Requests
      <4>3. PICK j \in DOMAIN stdin : j < 1
        BY <1>a, <4>1, <4>2 DEF HandshakeInv
      <4> QED BY <2>0, <4>3
    <3>4. Initializing => Initializing'
      BY <3>2 DEF Initializing
    <3>5. ASSUME ~Broken', ~ready', NEW k \in Requests(stdin'), stdin'[k].id[2] # "init"
          PROVE  \E j \in DOMAIN stdin' : j < k /\ stdin'[j].type = "initialized"
      <4>1. k + 1 \in Requests(stdin) /\ stdin[k+1].id[2] # "init" /\ k \in Nat
        BY <2>1, <3>5 DEF Requests
      <4>2. PICK j \in DOMAIN stdin : j < k + 1 /\ stdin[j].type = "initialized"
        BY <1>a, <3>1, <3>5, <4>1 DEF HandshakeInv
      <4>3. j - 1 < k
        BY <2>0, <4>1, <4>2
      <4> QED BY <3>2, <4>2, <4>3
    <3> QED BY <1>a, <2>0, <3>1, <3>3, <3>4, <3>5 DEF HandshakeInv
  <2> QED BY <2>2, <2>3
<1>10. ASSUME Notify \/ UNCHANGED vars PROVE HandshakeInv'
  BY <1>a, <1>10, HandshakeQuiet DEF Notify, vars
<1>11. ASSUME Crash PROVE HandshakeInv'
  BY <1>a, <1>11, HandshakeDead DEF Crash
<1> QED BY <1>1, <1>2, <1>3, <1>4, <1>5, <1>6, <1>7, <1>8, <1>9, <1>10, <1>11 DEF Next, Step

(* Processes are started within the restart budget, and a process gets a    *)
(* tool call before it is initialized only after a call failed or was       *)
(* dropped, however many calls interleave (stdio.rs, restart_if_needed and  *)
(* initialize).                                                             *)
THEOREM ProcessesStartInOrder == Spec => []StartsAreOrderly
<1>1. Init => HandshakeInv
  BY DEF Init, HandshakeInv, OwnWord, Broken, Requests
<1>2. Inv /\ HandshakeInv => StartsAreOrderly
  BY DEF Inv, HandshakeInv, Broken, StartsAreOrderly, HandshakeUnlessBroken
<1> QED BY <1>1, <1>2, InvHolds, HandshakeStep, PTL DEF Spec

-----------------------------------------------------------------------------
HIDE McpAssumption

(* Every set of natural numbers that is not empty has a least element.     *)
LEMMA LeastNumber ==
  ASSUME NEW S \in SUBSET Nat, S # {}
  PROVE  \E n \in S : \A m \in S : n <= m
<1>1. \E n \in S : \A m \in S : ~(<<m, n>> \in OpToRel(<, Nat))
  BY NatLessThanWellFounded, WFMin
<1>2. PICK n \in S : \A m \in S : <<m, n>> \notin OpToRel(<, Nat)
  BY <1>1
<1>3. ASSUME NEW m \in S PROVE n <= m
  <2>1. <<m, n>> \notin {ss \in Nat \X Nat : ss[1] < ss[2]}
    BY <1>2, Zenon DEF OpToRel
  <2>2. ~(m < n)
    BY <2>1
  <2> QED BY <2>2
<1> QED BY <1>3

(* Start-up.  Whatever has been come to is there or in broken, with what   *)
(* it should have been given.                                              *)

ConfigInv ==
  phase # "off" => \E c \in Configs \cup {NoConfig} : config = ApplyEnv(c, environment)

Wanted == DOMAIN config.agents \cup {"assistant"}
Own(a) == IF AgentConfig(a).provider \in providers THEN AgentConfig(a).provider ELSE spare
Built(a) == a \in DOMAIN registry \/ <<"agent", a>> \in broken

ProvidersInv ==
  phase \in {"servers", "agents", "channels", "up"} =>
    LET known == DOMAIN config.providers \cap KnownProviders
    IN providers = IF known = {} /\ environment \cap OpenAiKeys # {} THEN {"openai"} ELSE known

MemoryInv ==
  phase \notin {"off", "memory"} /\ broken = {} =>
    memory = IF config.backend \in {"sqlite", "markdown"} /\ (config.backend = "sqlite" => EmbedderIsHad)
             THEN config.backend ELSE "none"

LoadedTool == [server : STRING \ {"native"}, tool : STRING]
Loaded(s) ==
  <<"server", s>> \in broken
  \/ \A i \in DOMAIN ServerTools[s] : \E j \in DOMAIN mcpTools : mcpTools[j] = [server |-> s, tool |-> ServerTools[s][i]]

ServersInv ==
  /\ mcpTools \in Seq(LoadedTool)
  /\ phase = "servers" => \A s \in config.servers \ left : Loaded(s)
  /\ phase \in {"agents", "channels", "up"} => \A s \in config.servers : Loaded(s)

AgentsInv ==
  /\ registry = [a \in DOMAIN registry |-> registry[a]]
  /\ phase \in {"off", "memory", "providers", "servers"} => DOMAIN registry = {}
  /\ phase = "agents" /\ providers # {} => \A a \in Wanted \ left : Built(a)
  /\ phase \in {"channels", "up"} /\ providers # {} => \A a \in Wanted : Built(a)
  /\ broken = {} => \A a \in DOMAIN registry : registry[a] = Own(a)

ServedNames(S) == {NameOf(config.channels[n].kind) : n \in {x \in S : CanServe(config.channels[x])}}

ChannelsInv ==
  /\ phase \in {"off", "memory", "providers", "servers", "agents"} => channels = {}
  /\ phase = "channels" => left \subseteq DOMAIN config.channels /\ channels = ServedNames(DOMAIN config.channels \ left)
  /\ phase = "up" => channels = ServedNames(DOMAIN config.channels)

StartupPhases == {"off", "memory", "providers", "servers", "agents", "channels", "up"}

StartupInv ==
  phase \in StartupPhases /\ ConfigInv /\ ProvidersInv /\ MemoryInv /\ ServersInv /\ AgentsInv /\ ChannelsInv

(* What a configuration is made of, whatever it was loaded from.           *)
IsConfig(c) ==
  /\ c = [providers |-> c.providers, agents |-> c.agents, routing |-> c.routing, channels |-> c.channels,
          servers |-> c.servers, backend |-> c.backend, embedding |-> c.embedding]
  /\ IsFiniteSet(DOMAIN c.agents) /\ c.agents = [a \in DOMAIN c.agents |-> c.agents[a]]
  /\ DOMAIN c.routing \subseteq Nat /\ c.routing = [i \in DOMAIN c.routing |-> c.routing[i]]
  /\ \A n \in DOMAIN c.channels :
       c.channels[n] = [kind |-> c.channels[n].kind, token |-> c.channels[n].token, extras |-> c.channels[n].extras]
  /\ \A s \in c.servers : s \in STRING \ {"native"} /\ ServerTools[s] \in Seq(STRING)

LEMMA ConfigsAre == \A c \in Configs \cup {NoConfig} : IsConfig(c)
<1>1. ASSUME NEW c \in Configs PROVE IsConfig(c)
  BY StartupAssumption, Zenon DEF IsConfig
<1>2. IsConfig(NoConfig)
  <2>1. /\ NoConfig.providers = <<>> /\ NoConfig.agents = <<>> /\ NoConfig.routing = <<>>
        /\ NoConfig.channels = <<>> /\ NoConfig.servers = {}
    BY DEF NoConfig
  <2>2. DOMAIN <<>> = {} /\ <<>> = [i \in DOMAIN <<>> |-> <<>>[i]]
    OBVIOUS
  <2>3. IsFiniteSet({})
    BY FS_EmptySet
  <2>4. NoConfig = [providers |-> NoConfig.providers, agents |-> NoConfig.agents, routing |-> NoConfig.routing,
                    channels |-> NoConfig.channels, servers |-> NoConfig.servers, backend |-> NoConfig.backend,
                    embedding |-> NoConfig.embedding]
    BY DEF NoConfig
  <2>5. /\ IsFiniteSet(DOMAIN NoConfig.agents)
        /\ NoConfig.agents = [a \in DOMAIN NoConfig.agents |-> NoConfig.agents[a]]
        /\ DOMAIN NoConfig.routing = {}
        /\ NoConfig.routing = [i \in DOMAIN NoConfig.routing |-> NoConfig.routing[i]]
        /\ DOMAIN NoConfig.channels = {}
    BY <2>1, <2>2, <2>3
  <2> HIDE DEF NoConfig
  <2> QED BY <2>1, <2>4, <2>5 DEF IsConfig
<1> QED BY <1>1, <1>2

LEMMA ApplyEnvIs ==
  ASSUME NEW c, IsConfig(c), NEW e
  PROVE  /\ ApplyEnv(c, e).providers = WithProviders(c.providers, e)
         /\ ApplyEnv(c, e).channels = WithToken(c.channels, e)
         /\ ApplyEnv(c, e).agents = c.agents /\ ApplyEnv(c, e).routing = c.routing
         /\ ApplyEnv(c, e).servers = c.servers
<1>1. c = [providers |-> c.providers, agents |-> c.agents, routing |-> c.routing, channels |-> c.channels,
           servers |-> c.servers, backend |-> c.backend, embedding |-> c.embedding]
  BY DEF IsConfig
<1> QED BY <1>1 DEF ApplyEnv

(* What the steps of the start may take for granted of the configuration.  *)
LEMMA ConfigFacts ==
  ASSUME ConfigInv, phase # "off"
  PROVE  /\ IsFiniteSet(DOMAIN config.agents) /\ config.agents = [a \in DOMAIN config.agents |-> config.agents[a]]
         /\ DOMAIN config.routing \subseteq Nat /\ config.routing = [i \in DOMAIN config.routing |-> config.routing[i]]
         /\ config.providers = [p \in DOMAIN config.providers |-> config.providers[p]]
         /\ \A s \in config.servers : s \in STRING \ {"native"} /\ ServerTools[s] \in Seq(STRING)
         /\ EnvironmentWins
<1>1. PICK c \in Configs \cup {NoConfig} : config = ApplyEnv(c, environment)
  BY DEF ConfigInv
<1>2. IsConfig(c)
  BY ConfigsAre
<1>3. /\ config.providers = WithProviders(c.providers, environment)
      /\ config.channels = WithToken(c.channels, environment)
      /\ config.agents = c.agents /\ config.routing = c.routing /\ config.servers = c.servers
  BY <1>1, <1>2, ApplyEnvIs
<1>4. /\ IsFiniteSet(DOMAIN c.agents) /\ c.agents = [a \in DOMAIN c.agents |-> c.agents[a]]
      /\ DOMAIN c.routing \subseteq Nat /\ c.routing = [i \in DOMAIN c.routing |-> c.routing[i]]
      /\ \A s \in c.servers : s \in STRING \ {"native"} /\ ServerTools[s] \in Seq(STRING)
  BY <1>2 DEF IsConfig
<1>5. \A n \in DOMAIN c.channels :
        c.channels[n] = [kind |-> c.channels[n].kind, token |-> c.channels[n].token, extras |-> c.channels[n].extras]
  BY <1>2 DEF IsConfig
<1> DEFINE byEnv == UNION {ProviderOf(v) : v \in environment}
<1>6. /\ DOMAIN config.providers = DOMAIN c.providers \cup byEnv
      /\ config.providers = [p \in DOMAIN config.providers |-> config.providers[p]]
      /\ \A p \in byEnv : config.providers[p] = "env"
  BY <1>3 DEF WithProviders
<1>7. \A v \in environment : \A p \in ProviderOf(v) : p \in byEnv
  OBVIOUS
<1>8. "ADACLAW_TELEGRAM_TOKEN" \in environment =>
        "telegram" \in DOMAIN config.channels /\ config.channels["telegram"].token
  <2> SUFFICES ASSUME "ADACLAW_TELEGRAM_TOKEN" \in environment
               PROVE  "telegram" \in DOMAIN config.channels /\ config.channels["telegram"].token
    OBVIOUS
  <2> PICK section : section = IF "telegram" \in DOMAIN c.channels THEN c.channels["telegram"]
                               ELSE [kind |-> "telegram", token |-> FALSE, extras |-> FALSE]
    OBVIOUS
  <2>1. config.channels = [n \in DOMAIN c.channels \cup {"telegram"} |->
                             IF n = "telegram" THEN [section EXCEPT !.token = TRUE] ELSE c.channels[n]]
    BY <1>3 DEF WithToken
  <2>2. [section EXCEPT !.token = TRUE].token = TRUE
    <3>1. section = [kind |-> section.kind, token |-> section.token, extras |-> section.extras]
      BY <1>5
    <3> QED BY <3>1
  <2> QED BY <2>1, <2>2
<1> HIDE DEF byEnv
<1> QED BY <1>3, <1>4, <1>6, <1>7, <1>8 DEF EnvironmentWins

LEMMA StartupInitHolds == StartupInit => StartupInv
<1> SUFFICES ASSUME StartupInit PROVE StartupInv
  OBVIOUS
<1>1. /\ phase = "off" /\ broken = {} /\ channels = {} /\ mcpTools = <<>> /\ registry = <<>>
  BY DEF StartupInit
<1>2. DOMAIN <<>> = {} /\ <<>> = [i \in DOMAIN <<>> |-> <<>>[i]] /\ <<>> \in Seq(LoadedTool)
  OBVIOUS
<1>3. AgentsInv
  BY <1>1, <1>2 DEF AgentsInv
<1>4. ServersInv
  BY <1>1, <1>2 DEF ServersInv
<1> QED
  BY <1>1, <1>3, <1>4 DEF StartupInv, StartupPhases, ConfigInv, ProvidersInv, MemoryInv, ChannelsInv

LEMMA LoadConfigStep ==
  ASSUME StartupInv, NEW c \in Configs, NEW f, NEW e, LoadConfig(c, f, e)
  PROVE  StartupInv'
<1>1. /\ phase = "off" /\ phase' = "memory" /\ environment' = e /\ config' = Load(c, f, e)
      /\ UNCHANGED <<mcpTools, registry, channels>>
  BY DEF LoadConfig
<1>2. ConfigInv'
  <2>1. \E d \in Configs \cup {NoConfig} : config' = ApplyEnv(d, environment')
    BY <1>1 DEF Load
  <2> QED BY <2>1 DEF ConfigInv
<1>3. AgentsInv'
  <2>1. registry = [a \in DOMAIN registry |-> registry[a]] /\ DOMAIN registry = {}
    BY <1>1 DEF StartupInv, AgentsInv
  <2> QED BY <1>1, <2>1 DEF AgentsInv
<1>4. ServersInv'
  BY <1>1 DEF StartupInv, ServersInv
<1>5. ChannelsInv'
  BY <1>1 DEF StartupInv, ChannelsInv
<1> QED
  BY <1>1, <1>2, <1>3, <1>4, <1>5 DEF StartupInv, StartupPhases, ProvidersInv, MemoryInv

(* A configuration stays what it is.                                       *)
LEMMA ConfigStays ==
  ASSUME ConfigInv, phase # "off", UNCHANGED <<config, environment>> PROVE ConfigInv'
BY DEF ConfigInv

LEMMA OpenMemoryStep ==
  ASSUME StartupInv, NEW ok \in BOOLEAN, OpenMemory(ok)
  PROVE  StartupInv'
<1>1. /\ phase = "memory" /\ phase' = "providers"
      /\ memory' = IF /\ config.backend \in {"sqlite", "markdown"} /\ ok
                      /\ config.backend = "sqlite" => EmbedderIsHad
                   THEN config.backend ELSE "none"
      /\ broken' = IF ok THEN broken ELSE broken \cup {<<"memory">>}
      /\ UNCHANGED <<environment, config, mcpTools, registry, channels>>
  BY DEF OpenMemory
<1>2. ConfigInv'
  BY <1>1, ConfigStays DEF StartupInv
<1>3. MemoryInv'
  <2>1. broken' = {} => ok
    BY <1>1
  <2> QED BY <1>1, <2>1 DEF MemoryInv, EmbedderIsHad
<1>4. AgentsInv'
  <2>1. registry = [a \in DOMAIN registry |-> registry[a]] /\ DOMAIN registry = {}
    BY <1>1 DEF StartupInv, AgentsInv
  <2> QED BY <1>1, <2>1 DEF AgentsInv
<1>5. ServersInv'
  BY <1>1 DEF StartupInv, ServersInv
<1>6. ChannelsInv'
  BY <1>1 DEF StartupInv, ChannelsInv
<1> QED
  BY <1>1, <1>2, <1>3, <1>4, <1>5, <1>6 DEF StartupInv, StartupPhases, ProvidersInv

LEMMA CreateProvidersStep ==
  ASSUME StartupInv, CreateProviders
  PROVE  StartupInv'
<1> DEFINE known == DOMAIN config.providers \cap KnownProviders
<1>1. /\ phase = "providers" /\ phase' = "servers"
      /\ providers' = IF known = {} /\ environment \cap OpenAiKeys # {} THEN {"openai"} ELSE known
      /\ left' = config.servers
      /\ UNCHANGED <<environment, config, memory, mcpTools, registry, channels, broken>>
  BY DEF CreateProviders
<1>2. ConfigInv'
  BY <1>1, ConfigStays DEF StartupInv
<1>3. ProvidersInv'
  BY <1>1 DEF ProvidersInv
<1>4. MemoryInv'
  BY <1>1 DEF StartupInv, MemoryInv, EmbedderIsHad
<1>5. AgentsInv'
  <2>1. registry = [a \in DOMAIN registry |-> registry[a]] /\ DOMAIN registry = {}
    BY <1>1 DEF StartupInv, AgentsInv
  <2> QED BY <1>1, <2>1 DEF AgentsInv
<1>6. ServersInv'
  BY <1>1 DEF StartupInv, ServersInv
<1>7. ChannelsInv'
  BY <1>1 DEF StartupInv, ChannelsInv
<1> QED
  BY <1>1, <1>2, <1>3, <1>4, <1>5, <1>6, <1>7 DEF StartupInv, StartupPhases

(* What later phases leave alone.                                          *)
LEMMA EarlierStays ==
  ASSUME StartupInv, UNCHANGED <<config, environment, providers, memory>>,
         phase \in {"servers", "agents", "channels", "up"}, phase' \in {"servers", "agents", "channels", "up"},
         broken \subseteq broken'
  PROVE  ConfigInv' /\ ProvidersInv' /\ MemoryInv'
<1>1. ConfigInv'
  BY ConfigStays DEF StartupInv
<1>2. ProvidersInv'
  BY DEF StartupInv, ProvidersInv
<1>3. MemoryInv'
  <2>1. broken' = {} => broken = {}
    OBVIOUS
  <2> QED BY <2>1 DEF StartupInv, MemoryInv, EmbedderIsHad
<1> QED BY <1>1, <1>2, <1>3

LEMMA ServersStay ==
  ASSUME ServersInv, phase \in {"agents", "channels", "up"}, phase' \in {"agents", "channels", "up"},
         UNCHANGED <<config, mcpTools>>, broken \subseteq broken'
  PROVE  ServersInv'
BY DEF ServersInv, Loaded

LEMMA LoadServerStep ==
  ASSUME StartupInv, NEW s \in config.servers, NEW ok \in BOOLEAN, LoadServer(s, ok)
  PROVE  StartupInv'
<1>1. /\ phase = "servers" /\ phase' = phase /\ s \in left /\ left' = left \ {s}
      /\ broken' = IF ok THEN broken ELSE broken \cup {<<"server", s>>}
      /\ UNCHANGED <<environment, config, memory, providers, spare, registry, channels>>
  BY DEF LoadServer
<1> DEFINE offered == [i \in DOMAIN ServerTools[s] |-> [server |-> s, tool |-> ServerTools[s][i]]]
<1>2. mcpTools' = IF ok THEN mcpTools \o offered ELSE mcpTools
  BY DEF LoadServer
<1>3. broken \subseteq broken'
  BY <1>1
<1>4. ConfigInv' /\ ProvidersInv' /\ MemoryInv'
  BY <1>1, <1>3, EarlierStays
<1>5. offered \in Seq(LoadedTool) /\ mcpTools \in Seq(LoadedTool)
  <2>1. s \in STRING \ {"native"} /\ ServerTools[s] \in Seq(STRING)
    BY <1>1, ConfigFacts DEF StartupInv
  <2>2. DOMAIN ServerTools[s] = 1 .. Len(ServerTools[s]) /\ Len(ServerTools[s]) \in Nat
        /\ \A i \in DOMAIN ServerTools[s] : [server |-> s, tool |-> ServerTools[s][i]] \in LoadedTool
    BY <2>1 DEF LoadedTool
  <2>3. \A n \in Nat : [1..n -> LoadedTool] \subseteq Seq(LoadedTool)
    <3> HIDE DEF LoadedTool
    <3> QED OBVIOUS
  <2>4. offered \in [1 .. Len(ServerTools[s]) -> LoadedTool]
    BY <2>2
  <2> HIDE DEF offered
  <2> QED BY <2>2, <2>3, <2>4 DEF StartupInv, ServersInv
<1>6. /\ \A j \in DOMAIN mcpTools : j \in DOMAIN mcpTools' /\ mcpTools'[j] = mcpTools[j]
      /\ ok => \A i \in DOMAIN offered : \E j \in DOMAIN mcpTools' : mcpTools'[j] = offered[i]
      /\ mcpTools' \in Seq(LoadedTool)
  <2> HIDE DEF offered, LoadedTool
  <2>1. CASE ok
    <3> PICK n \in Nat, k \in Nat : n = Len(mcpTools) /\ k = Len(offered)
      BY <1>5
    <3>1. /\ DOMAIN mcpTools = 1..n /\ DOMAIN offered = 1..k
          /\ DOMAIN mcpTools' = 1 .. n + k /\ mcpTools' \in Seq(LoadedTool)
          /\ \A j \in 1..n : mcpTools'[j] = mcpTools[j]
          /\ \A i \in 1..k : mcpTools'[n + i] = offered[i]
      BY <1>2, <1>5, <2>1
    <3>2. \A i \in 1..k : n + i \in 1 .. n + k
      OBVIOUS
    <3> QED BY <3>1, <3>2
  <2>2. CASE ~ok
    BY <1>2, <1>5, <2>2
  <2> QED BY <2>1, <2>2
<1>7. ServersInv'
  <2>1. ASSUME NEW t \in config.servers \ left, Loaded(t) PROVE Loaded(t)'
    BY <1>3, <1>6, <2>1 DEF Loaded
  <2>2. Loaded(s)'
    <3>1. CASE ok
      BY <1>6, <3>1 DEF Loaded
    <3>2. CASE ~ok
      BY <1>1, <3>2 DEF Loaded
    <3> QED BY <3>1, <3>2
  <2>3. \A t \in config.servers \ left : Loaded(t)
    BY <1>1 DEF StartupInv, ServersInv
  <2>4. \A t \in config'.servers \ left' : t = s \/ t \in config.servers \ left
    BY <1>1
  <2> HIDE DEF offered
  <2> QED BY <1>1, <1>6, <2>1, <2>2, <2>3, <2>4 DEF ServersInv
<1>8. AgentsInv'
  <2>1. registry = [a \in DOMAIN registry |-> registry[a]] /\ DOMAIN registry = {}
    BY <1>1 DEF StartupInv, AgentsInv
  <2> QED BY <1>1, <2>1 DEF AgentsInv
<1>9. ChannelsInv'
  BY <1>1 DEF StartupInv, ChannelsInv
<1> HIDE DEF offered
<1> QED
  BY <1>1, <1>4, <1>7, <1>8, <1>9 DEF StartupInv, StartupPhases

LEMMA OpenStoreStep ==
  ASSUME StartupInv, NEW ok \in BOOLEAN, OpenStore(ok)
  PROVE  StartupInv'
<1>1. /\ phase = "servers" /\ phase' = "agents" /\ left = {}
      /\ broken' = IF ok THEN broken ELSE broken \cup {<<"store">>}
      /\ left' = DOMAIN config.agents \cup {"assistant"}
      /\ UNCHANGED <<environment, config, memory, providers, spare, mcpTools, registry, channels>>
  BY DEF OpenStore
<1>2. broken \subseteq broken'
  BY <1>1
<1>3. ConfigInv' /\ ProvidersInv' /\ MemoryInv'
  BY <1>1, <1>2, EarlierStays
<1>4. ServersInv'
  BY <1>1, <1>2 DEF StartupInv, ServersInv, Loaded
<1>5. AgentsInv'
  <2>1. registry = [a \in DOMAIN registry |-> registry[a]] /\ DOMAIN registry = {}
    BY <1>1 DEF StartupInv, AgentsInv
  <2> QED BY <1>1, <2>1 DEF AgentsInv, Wanted
<1>6. ChannelsInv'
  BY <1>1 DEF StartupInv, ChannelsInv
<1> QED
  BY <1>1, <1>3, <1>4, <1>5, <1>6 DEF StartupInv, StartupPhases

LEMMA BuildAgentStep ==
  ASSUME StartupInv, NEW a \in left, NEW ok \in BOOLEAN, BuildAgent(a, ok)
  PROVE  StartupInv'
<1> PICK given : given = Own(a)
  OBVIOUS
<1>1. /\ phase = "agents" /\ phase' = phase /\ left' = left \ {a}
      /\ broken' = IF ok THEN broken ELSE broken \cup {<<"agent", a>>}
      /\ UNCHANGED <<environment, config, memory, providers, spare, mcpTools, channels>>
      /\ registry' = IF ok /\ providers # {} THEN Registered(a, given) ELSE registry
  BY DEF BuildAgent, LeftAfter, Own
<1>2. broken \subseteq broken'
  BY <1>1
<1>3. ConfigInv' /\ ProvidersInv' /\ MemoryInv'
  BY <1>1, <1>2, EarlierStays
<1>4. ServersInv'
  BY <1>1, <1>2, ServersStay DEF StartupInv
<1>5. /\ registry = [x \in DOMAIN registry |-> registry[x]]
      /\ providers # {} => \A x \in Wanted \ left : Built(x)
      /\ broken = {} => \A x \in DOMAIN registry : registry[x] = Own(x)
  BY <1>1 DEF StartupInv, AgentsInv
<1>6. \A x : Own(x)' = Own(x)
  BY <1>1 DEF Own, AgentConfig
<1>7. /\ registry' = [x \in DOMAIN registry' |-> registry'[x]]
      /\ DOMAIN registry' = IF ok /\ providers # {} THEN DOMAIN registry \cup {a} ELSE DOMAIN registry
      /\ \A x \in DOMAIN registry' :
           (x \in DOMAIN registry /\ registry'[x] = registry[x]) \/ (x = a /\ registry'[x] = given)
  <2>1. CASE ok /\ providers # {}
    <3>1. registry' = [x \in DOMAIN registry \cup {a} |-> IF x = a THEN given ELSE registry[x]]
      BY <1>1, <2>1 DEF Registered
    <3> QED BY <2>1, <3>1
  <2>2. CASE ~(ok /\ providers # {})
    BY <1>1, <1>5, <2>2
  <2> QED BY <2>1, <2>2
<1>8. AgentsInv'
  <2>1. ASSUME providers # {}, NEW x \in Wanted' \ left' PROVE Built(x)'
    <3>1. x = a \/ x \in Wanted \ left
      BY <1>1 DEF Wanted
    <3>2. CASE x = a
      BY <1>1, <1>7, <2>1, <3>2 DEF Built
    <3>3. CASE x \in Wanted \ left
      BY <1>2, <1>5, <1>7, <2>1, <3>3 DEF Built
    <3> QED BY <3>1, <3>2, <3>3
  <2>2. ASSUME broken' = {}, NEW x \in DOMAIN registry' PROVE registry'[x] = Own(x)'
    <3>1. broken = {}
      BY <1>2, <2>2
    <3> QED BY <1>5, <1>6, <1>7, <3>1
  <2> QED BY <1>1, <1>7, <2>1, <2>2 DEF AgentsInv
<1>9. ChannelsInv'
  BY <1>1 DEF StartupInv, ChannelsInv
<1> QED
  BY <1>1, <1>3, <1>4, <1>8, <1>9 DEF StartupInv, StartupPhases

(* The second try comes only after every agent failed.                     *)
LEMMA BuildFallbackStep ==
  ASSUME StartupInv, NEW ok \in BOOLEAN, BuildFallback(ok)
  PROVE  StartupInv'
<1>1. /\ phase = "agents" /\ phase' = "channels" /\ left = {} /\ left' = DOMAIN config.channels
      /\ UNCHANGED <<environment, config, memory, providers, spare, mcpTools, channels, broken>>
      /\ registry' = IF registry = <<>> /\ providers # {} /\ ok THEN Registered("assistant", spare) ELSE registry
  BY DEF BuildFallback
<1>2. ConfigInv' /\ ProvidersInv' /\ MemoryInv'
  BY <1>1, EarlierStays
<1>3. ServersInv'
  BY <1>1, ServersStay DEF StartupInv
<1>4. /\ registry = [x \in DOMAIN registry |-> registry[x]]
      /\ providers # {} => \A x \in Wanted : Built(x)
      /\ broken = {} => \A x \in DOMAIN registry : registry[x] = Own(x)
  BY <1>1 DEF StartupInv, AgentsInv
<1>5. \A x : Own(x)' = Own(x)
  BY <1>1 DEF Own, AgentConfig
<1>6. AgentsInv'
  <2>1. CASE registry' = registry
    <3>1. providers # {} => \A x \in Wanted' : Built(x)'
      BY <1>1, <1>4, <2>1 DEF Wanted, Built
    <3> QED BY <1>1, <1>4, <1>5, <2>1, <3>1 DEF AgentsInv
  <2>2. CASE registry' # registry
    <3>1. registry = <<>> /\ providers # {} /\ registry' = Registered("assistant", spare)
      BY <1>1, <2>2
    <3>2. DOMAIN registry = {}
      BY <3>1
    <3>3. broken # {}
      BY <1>4, <3>1, <3>2 DEF Wanted, Built
    <3>4. registry' = [x \in DOMAIN registry' |-> registry'[x]]
      BY <3>1 DEF Registered
    <3>5. \A x \in Wanted' : Built(x)'
      BY <1>1, <1>4, <3>1, <3>2 DEF Wanted, Built
    <3> QED BY <1>1, <3>3, <3>4, <3>5 DEF AgentsInv
  <2> QED BY <2>1, <2>2
<1>7. ChannelsInv'
  <2>1. channels = {} /\ ServedNames({}) = {}
    BY <1>1 DEF StartupInv, ChannelsInv, ServedNames
  <2>2. DOMAIN config'.channels \ left' = {}
    BY <1>1
  <2> QED BY <1>1, <2>1, <2>2 DEF ChannelsInv, ServedNames
<1> QED
  BY <1>1, <1>2, <1>3, <1>6, <1>7 DEF StartupInv, StartupPhases

LEMMA AgentsStay ==
  ASSUME AgentsInv, phase = "channels", phase' \in {"channels", "up"},
         UNCHANGED <<config, providers, spare, registry, broken>>
  PROVE  AgentsInv'
<1>1. \A x : Own(x)' = Own(x)
  BY DEF Own, AgentConfig
<1>2. \A x : Built(x)' <=> Built(x)
  BY DEF Built
<1>3. Wanted' = Wanted
  BY DEF Wanted
<1> QED BY <1>1, <1>2, <1>3 DEF AgentsInv

LEMMA RegisterChannelStep ==
  ASSUME StartupInv, NEW n \in left, RegisterChannel(n)
  PROVE  StartupInv'
<1>1. /\ phase = "channels" /\ phase' = phase /\ left' = left \ {n}
      /\ channels' = IF CanServe(config.channels[n]) THEN channels \cup {NameOf(config.channels[n].kind)} ELSE channels
      /\ UNCHANGED <<environment, config, memory, providers, spare, mcpTools, registry, broken>>
  BY DEF RegisterChannel
<1>2. ConfigInv' /\ ProvidersInv' /\ MemoryInv'
  BY <1>1, EarlierStays
<1>3. ServersInv'
  BY <1>1, ServersStay DEF StartupInv
<1>4. AgentsInv'
  BY <1>1, AgentsStay DEF StartupInv
<1>5. ChannelsInv'
  <2>1. left \subseteq DOMAIN config.channels /\ channels = ServedNames(DOMAIN config.channels \ left)
    BY <1>1 DEF StartupInv, ChannelsInv
  <2> PICK S, T : S = DOMAIN config.channels \ left /\ T = DOMAIN config.channels \ left'
    OBVIOUS
  <2>2. T = S \cup {n}
    BY <1>1, <2>1
  <2>3. ServedNames(T) = IF CanServe(config.channels[n]) THEN ServedNames(S) \cup {NameOf(config.channels[n].kind)}
                         ELSE ServedNames(S)
    BY <2>2 DEF ServedNames
  <2>4. channels' = ServedNames(T)
    BY <1>1, <2>1, <2>3
  <2>5. DOMAIN config'.channels \ left' = T /\ config' = config
    BY <1>1
  <2>6. channels' = {NameOf(config'.channels[k].kind) :
                       k \in {x \in DOMAIN config'.channels \ left' : CanServe(config'.channels[x])}}
    BY <2>4, <2>5 DEF ServedNames
  <2> QED BY <1>1, <2>1, <2>6 DEF ChannelsInv, ServedNames
<1> QED
  BY <1>1, <1>2, <1>3, <1>4, <1>5 DEF StartupInv, StartupPhases

LEMMA GoUpStep ==
  ASSUME StartupInv, GoUp
  PROVE  StartupInv'
<1>1. /\ phase = "channels" /\ phase' = "up" /\ left = {}
      /\ UNCHANGED <<environment, config, memory, providers, spare, left, mcpTools, registry, channels, broken>>
  BY DEF GoUp
<1>2. ConfigInv' /\ ProvidersInv' /\ MemoryInv'
  BY <1>1, EarlierStays
<1>3. ServersInv'
  BY <1>1, ServersStay DEF StartupInv
<1>4. AgentsInv'
  BY <1>1, AgentsStay DEF StartupInv
<1>5. ChannelsInv'
  <2>1. channels = ServedNames(DOMAIN config.channels)
    BY <1>1 DEF StartupInv, ChannelsInv, ServedNames
  <2> QED BY <1>1, <2>1 DEF ChannelsInv, ServedNames
<1> QED
  BY <1>1, <1>2, <1>3, <1>4, <1>5 DEF StartupInv, StartupPhases

LEMMA StartupInductive == StartupInv /\ [StartupNext]_startupVars => StartupInv'
<1> SUFFICES ASSUME StartupInv, [StartupNext]_startupVars PROVE StartupInv'
  OBVIOUS
<1>1. ASSUME NEW c \in Configs, NEW f, NEW e, LoadConfig(c, f, e) PROVE StartupInv'
  BY <1>1, LoadConfigStep
<1>2. ASSUME NEW ok \in BOOLEAN, OpenMemory(ok) \/ OpenStore(ok) \/ BuildFallback(ok) PROVE StartupInv'
  BY <1>2, OpenMemoryStep, OpenStoreStep, BuildFallbackStep
<1>3. ASSUME NEW s \in config.servers, NEW ok \in BOOLEAN, LoadServer(s, ok) PROVE StartupInv'
  BY <1>3, LoadServerStep
<1>4. ASSUME NEW a \in left, NEW ok \in BOOLEAN, BuildAgent(a, ok) PROVE StartupInv'
  BY <1>4, BuildAgentStep
<1>5. ASSUME NEW n \in left, RegisterChannel(n) PROVE StartupInv'
  BY <1>5, RegisterChannelStep
<1>6. CASE CreateProviders \/ GoUp
  BY <1>6, CreateProvidersStep, GoUpStep
<1>7. CASE UNCHANGED startupVars
  <2>1. ConfigInv' /\ ProvidersInv' /\ MemoryInv'
    BY <1>7 DEF startupVars, StartupInv, ConfigInv, ProvidersInv, MemoryInv, EmbedderIsHad
  <2>2. ServersInv'
    BY <1>7 DEF startupVars, StartupInv, ServersInv, Loaded
  <2>3. AgentsInv'
    BY <1>7 DEF startupVars, StartupInv, AgentsInv, Wanted, Own, AgentConfig, Built
  <2>4. ChannelsInv'
    BY <1>7 DEF startupVars, StartupInv, ChannelsInv, ServedNames
  <2> QED BY <1>7, <2>1, <2>2, <2>3, <2>4 DEF startupVars, StartupInv
<1> QED BY <1>1, <1>2, <1>3, <1>4, <1>5, <1>6, <1>7 DEF StartupNext

-----------------------------------------------------------------------------
(* The tools of an agent.  KeptTools is a recursive function; that it exists,   *)
(* and what it returns, is shown with the first number at which either     *)
(* fails.                                                                  *)

NativeTool == [server : {"native"}, tool : STRING \cup {"delegate"}]
NativeEntry(i) == [server |-> "native", tool |-> NativeTools[i]]

KeptStep(names, f, i) ==
  IF i = 0 THEN <<>>
  ELSE IF NativeTools[i] \in names THEN Append(f[i - 1], NativeEntry(i))
  ELSE f[i - 1]

LEMMA NativeToolsAre ==
  /\ NativeTools \in Seq(STRING) /\ Len(NativeTools) \in Nat
  /\ \A i \in 1 .. Len(NativeTools) : NativeEntry(i) \in NativeTool
<1>1. NativeTools \in Seq(STRING)
  BY StartupAssumption, Zenon
<1>2. \A i \in 1 .. Len(NativeTools) : NativeTools[i] \in STRING
  BY <1>1
<1> QED BY <1>1, <1>2 DEF NativeEntry, NativeTool

LEMMA KeptStepTypes ==
  ASSUME NEW names, NEW i \in 0 .. Len(NativeTools), NEW f,
         \A j \in 0 .. i - 1 : f[j] \in Seq(NativeTool)
  PROVE  KeptStep(names, f, i) \in Seq(NativeTool)
<1>1. CASE i = 0
  BY <1>1 DEF KeptStep
<1>2. CASE i # 0
  <2>1. f[i - 1] \in Seq(NativeTool)
    BY <1>2, NativeToolsAre
  <2>2. NativeEntry(i) \in NativeTool
    BY <1>2, NativeToolsAre
  <2> QED BY <1>2, <2>1, <2>2 DEF KeptStep
<1> QED BY <1>1, <1>2

LEMMA KeptIs ==
  ASSUME NEW names
  PROVE  \A i \in 0 .. Len(NativeTools) : KeptTools(names)[i] = KeptStep(names, KeptTools(names), i)
<1> PICK n \in Nat : n = Len(NativeTools)
  BY NativeToolsAre
<1> DEFINE Runs(k, f) == /\ f \in [0..k -> Seq(NativeTool)]
                         /\ \A i \in 0..k : f[i] = KeptStep(names, f, i)
           bad == {k \in 0..n : \A f : ~Runs(k, f)}
<1>1. bad = {}
  <2> SUFFICES ASSUME bad # {} PROVE FALSE
    OBVIOUS
  <2>1. bad \in SUBSET Nat
    OBVIOUS
  <2>2. PICK b \in bad : \A k \in bad : b <= k
    <3> HIDE DEF bad
    <3> QED BY <2>1, LeastNumber
  <2>3. b \in 0..n /\ \A f : ~Runs(b, f)
    OBVIOUS
  <2>4. CASE b = 0
    <3> DEFINE f == [i \in 0..0 |-> <<>>]
    <3>1. \A i \in 0..0 : f[i] = KeptStep(names, f, i)
      BY DEF KeptStep
    <3>2. f \in [0..0 -> Seq(NativeTool)]
      OBVIOUS
    <3>3. Runs(0, f)
      <4> HIDE DEF f
      <4> QED BY <3>1, <3>2
    <3> HIDE DEF Runs
    <3> QED BY <2>3, <2>4, <3>3
  <2>5. CASE b # 0
    <3> PICK c \in Nat : c = b - 1 /\ b = c + 1
      BY <2>3, <2>5
    <3>1. c \in 0..n /\ c \notin bad
      <4>1. c \in 0..n /\ ~(b <= c)
        BY <2>3
      <4> HIDE DEF bad
      <4> QED BY <2>2, <4>1
    <3>2. \E f : Runs(c, f)
      BY <3>1
    <3>3. PICK f : Runs(c, f)
      <4> HIDE DEF Runs
      <4> QED BY <3>2
    <3> DEFINE g == [i \in 0..b |-> IF i = b THEN KeptStep(names, f, b) ELSE f[i]]
    <3>4. \A i \in 0..c : f[i] \in Seq(NativeTool) /\ f[i] = KeptStep(names, f, i)
      BY <3>3
    <3>5. KeptStep(names, f, b) \in Seq(NativeTool)
      <4>1. b \in 0 .. Len(NativeTools) /\ \A j \in 0 .. b - 1 : f[j] \in Seq(NativeTool)
        BY <2>3, <3>4
      <4> QED BY <4>1, KeptStepTypes
    <3>6. g \in [0..b -> Seq(NativeTool)]
      BY <3>4, <3>5
    <3>7. \A i \in 0..b : g[i] = KeptStep(names, f, i)
      BY <3>4
    <3>8. \A i \in 0..b : KeptStep(names, g, i) = KeptStep(names, f, i)
      <4>1. \A i \in 0..b : i # 0 => g[i - 1] = f[i - 1]
        OBVIOUS
      <4> HIDE DEF g
      <4> QED BY <4>1 DEF KeptStep
    <3>9. Runs(b, g)
      <4> HIDE DEF g
      <4> QED BY <3>6, <3>7, <3>8
    <3> HIDE DEF Runs
    <3> QED BY <2>3, <3>9
  <2> QED BY <2>4, <2>5
<1>2. \E f : Runs(n, f)
  <2>1. n \in 0..n /\ n \notin bad
    BY <1>1
  <2> QED BY <2>1
<1>3. PICK f : Runs(n, f)
  <2> HIDE DEF Runs
  <2> QED BY <1>2
<1>4. f = [i \in 0..n |-> KeptStep(names, f, i)]
  BY <1>3
<1>5. f = [i \in 0 .. Len(NativeTools) |->
             IF i = 0 THEN <<>>
             ELSE IF NativeTools[i] \in names
             THEN Append(f[i - 1], [server |-> "native", tool |-> NativeTools[i]])
             ELSE f[i - 1]]
  BY <1>4, Zenon DEF KeptStep, NativeEntry
<1>6. KeptTools(names) = [i \in 0 .. Len(NativeTools) |->
             IF i = 0 THEN <<>>
             ELSE IF NativeTools[i] \in names
             THEN Append(KeptTools(names)[i - 1], [server |-> "native", tool |-> NativeTools[i]])
             ELSE KeptTools(names)[i - 1]]
  BY <1>5, Zenon DEF KeptTools
<1>7. KeptTools(names) = [i \in 0..n |-> KeptStep(names, KeptTools(names), i)]
  BY <1>6, Zenon DEF KeptStep, NativeEntry
<1> QED BY <1>7

(* The tools among the first i that are called so.                         *)
KeepsAll(names, q, i) ==
  /\ q \in Seq(NativeTool)
  /\ \A t : (\E j \in DOMAIN q : q[j].tool = t) <=> t \in names /\ \E j \in 1..i : NativeTools[j] = t

LEMMA KeptKeeps ==
  ASSUME NEW names
  PROVE  \A i \in 0 .. Len(NativeTools) : KeepsAll(names, KeptTools(names)[i], i)
<1> PICK n \in Nat : n = Len(NativeTools)
  BY NativeToolsAre
<1> PICK f : f = KeptTools(names)
  OBVIOUS
<1> DEFINE bad == {i \in 0..n : ~KeepsAll(names, f[i], i)}
<1>1. SUFFICES ASSUME bad # {} PROVE FALSE
  OBVIOUS
<1>2. PICK b \in bad : \A k \in bad : b <= k
  <2>1. bad \in SUBSET Nat
    OBVIOUS
  <2> HIDE DEF bad
  <2> QED BY <1>1, <2>1, LeastNumber
<1>3. b \in 0..n /\ ~KeepsAll(names, f[b], b) /\ f[b] = KeptStep(names, f, b)
  BY KeptIs
<1>4. CASE b = 0
  <2>1. f[b] = <<>> /\ <<>> \in Seq(NativeTool) /\ DOMAIN <<>> = {} /\ 1..0 = {}
    BY <1>3, <1>4 DEF KeptStep
  <2> QED BY <1>3, <1>4, <2>1 DEF KeepsAll
<1>5. CASE b # 0
  <2> PICK c \in Nat : c = b - 1 /\ b = c + 1
    BY <1>3, <1>5
  <2>1. KeepsAll(names, f[c], c)
    <3>1. c \in 0..n /\ ~(b <= c)
      BY <1>3
    <3>2. c \notin bad
      <4> HIDE DEF bad
      <4> QED BY <1>2, <3>1
    <3> QED BY <3>1, <3>2
  <2>q. PICK q : q = f[c]
    OBVIOUS
  <2>2. q \in Seq(NativeTool)
        /\ \A t : (\E j \in DOMAIN q : q[j].tool = t) <=> t \in names /\ \E j \in 1..c : NativeTools[j] = t
    BY <2>1, <2>q DEF KeepsAll
  <2>3. \A t : (\E j \in 1..b : NativeTools[j] = t) <=> (\E j \in 1..c : NativeTools[j] = t) \/ NativeTools[b] = t
    <3>1. \A j : j \in 1..b <=> j \in 1..c \/ j = b
      BY <1>5, <1>3
    <3> QED BY <3>1
  <2>4. CASE NativeTools[b] \notin names
    <3>1. f[b] = q
      BY <1>3, <1>5, <2>4, <2>q DEF KeptStep
    <3> QED BY <1>3, <2>2, <2>3, <2>4, <3>1 DEF KeepsAll
  <2>5. CASE NativeTools[b] \in names
    <3> PICK e \in NativeTool : e = NativeEntry(b)
      BY <1>3, <1>5, NativeToolsAre
    <3>1. f[b] = Append(q, e)
      BY <1>3, <1>5, <2>5, <2>q DEF KeptStep
    <3>r. PICK r : r = Append(q, e)
      OBVIOUS
    <3>2. /\ r \in Seq(NativeTool) /\ Len(q) \in Nat
          /\ DOMAIN r = DOMAIN q \cup {Len(q) + 1}
          /\ r[Len(q) + 1] = e /\ \A j \in DOMAIN q : r[j] = q[j]
      <4> HIDE DEF NativeTool
      <4> QED BY <2>2, <3>r
    <3>3. e.tool = NativeTools[b]
      BY DEF NativeEntry
    <3>4. \A t : (\E j \in DOMAIN r : r[j].tool = t) <=> (\E j \in DOMAIN q : q[j].tool = t) \/ t = NativeTools[b]
      BY <3>2, <3>3
    <3>5. KeepsAll(names, r, b)
      BY <2>2, <2>3, <2>5, <3>2, <3>4 DEF KeepsAll
    <3> QED BY <1>3, <3>1, <3>r, <3>5
  <2> QED BY <2>4, <2>5
<1> QED BY <1>4, <1>5

(* Where the entries of three lists in a row are, and which of them are of *)
(* the daemon's own.                                                       *)
InARow(p, q, r, k, l, m, all) ==
  /\ DOMAIN p = 1..k /\ DOMAIN q = 1..l /\ DOMAIN r = 1..m /\ DOMAIN all = 1 .. k + l + m
  /\ \A j \in 1..k : all[j] = p[j]
  /\ \A j \in 1..l : all[k + j] = q[j]
  /\ \A j \in 1..m : all[k + l + j] = r[j]

AroundServers(p, q, r, k, l, m) ==
  /\ \A j \in 1..k : p[j].server = "native"
  /\ \A j \in 1..l : q[j].server # "native"
  /\ \A j \in 1..m : r[j].server = "native"

FirstOf(all, n, name, first) ==
  first \in 1..n /\ all[first].tool = name /\ \A y \in 1..n : all[y].tool = name => first <= y

CallsItsOwn(p, q, r, k, l, m, entry, name) ==
  entry.server = "native" <=>
    \/ \E j \in 1..k : p[j].tool = name
    \/ (\E j \in 1..m : r[j].tool = name) /\ \A j \in 1..l : q[j].tool # name

LEMMA ThreeInARow ==
  ASSUME NEW S, NEW p \in Seq(S), NEW q \in Seq(S), NEW r \in Seq(S)
  PROVE  \E k, l, m \in Nat : InARow(p, q, r, k, l, m, p \o q \o r)
<1>a. p \o q \in Seq(S)
  OBVIOUS
<1> PICK pq \in Seq(S) : pq = p \o q
  BY <1>a
<1>1. /\ Len(pq) = Len(p) + Len(q) /\ Len(p) \in Nat /\ Len(q) \in Nat /\ Len(r) \in Nat
      /\ DOMAIN p = 1 .. Len(p) /\ DOMAIN q = 1 .. Len(q) /\ DOMAIN r = 1 .. Len(r)
  OBVIOUS
<1>2. \A j \in 1 .. Len(p) : pq[j] = p[j]
  OBVIOUS
<1>3. \A j \in 1 .. Len(q) : pq[Len(p) + j] = q[j]
  OBVIOUS
<1>b. pq \o r \in Seq(S)
  OBVIOUS
<1> PICK all \in Seq(S) : all = pq \o r
  BY <1>b
<1>4. Len(all) = Len(pq) + Len(r) /\ DOMAIN all = 1 .. Len(all)
  OBVIOUS
<1>5. \A j \in 1 .. Len(pq) : all[j] = pq[j]
  OBVIOUS
<1>6. \A j \in 1 .. Len(r) : all[Len(pq) + j] = r[j]
  OBVIOUS
<1>7. \A j \in 1 .. Len(p) : j \in 1 .. Len(pq)
  BY <1>1
<1>8. \A j \in 1 .. Len(q) : Len(p) + j \in 1 .. Len(pq)
  BY <1>1
<1>9. all = p \o q \o r
  OBVIOUS
<1>10. /\ \A j \in 1 .. Len(p) : all[j] = p[j]
       /\ \A j \in 1 .. Len(q) : all[Len(p) + j] = q[j]
       /\ \A j \in 1 .. Len(r) : all[Len(p) + Len(q) + j] = r[j]
       /\ DOMAIN all = 1 .. Len(p) + Len(q) + Len(r)
  BY ONLY <1>1, <1>2, <1>3, <1>4, <1>5, <1>6, <1>7, <1>8
<1>11. InARow(p, q, r, Len(p), Len(q), Len(r), all)
  BY <1>1, <1>10, Zenon DEF InARow
<1> QED BY <1>1, <1>9, <1>11, Zenon

(* Of the entries of a name, the first is of the first list that has it.   *)
LEMMA FirstOfItsName ==
  ASSUME NEW k \in Nat, NEW l \in Nat, NEW m \in Nat, NEW p, NEW q, NEW r, NEW all, NEW name,
         InARow(p, q, r, k, l, m, all), AroundServers(p, q, r, k, l, m),
         NEW first, FirstOf(all, k + l + m, name, first)
  PROVE  CallsItsOwn(p, q, r, k, l, m, all[first], name)
<1> USE DEF InARow, AroundServers, FirstOf, CallsItsOwn
<1>1. CASE first \in 1..k
  <2>1. all[first] = p[first] /\ p[first].server = "native"
    BY <1>1
  <2> QED BY <1>1, <2>1
<1>2. CASE \E g \in 1..l : first = k + g
  <2> PICK g \in 1..l : first = k + g
    BY <1>2
  <2>1. all[first] = q[g] /\ q[g].server # "native" /\ q[g].tool = name
    OBVIOUS
  <2>2. \A j \in 1..k : p[j].tool # name
    OBVIOUS
  <2> QED BY <2>1, <2>2
<1>3. CASE \E g \in 1..m : first = k + l + g
  <2> PICK g \in 1..m : first = k + l + g
    BY <1>3
  <2>1. all[first] = r[g] /\ r[g].server = "native" /\ r[g].tool = name
    OBVIOUS
  <2>2. \A j \in 1..l : q[j].tool # name
    <3> SUFFICES ASSUME NEW j \in 1..l, q[j].tool = name PROVE FALSE
      OBVIOUS
    <3>1. k + j \in 1 .. k + l + m /\ all[k + j].tool = name /\ ~(first <= k + j)
      OBVIOUS
    <3> QED BY <3>1
  <2> QED BY <2>1, <2>2
<1>4. first \in 1..k \/ first - k \in 1..l \/ first - (k + l) \in 1..m
  OBVIOUS
<1>5. first = k + (first - k) /\ first = k + l + (first - (k + l))
  OBVIOUS
<1> QED BY <1>1, <1>2, <1>3, <1>4, <1>5

LEMMA DelegateIsNative ==
  LET e == [server |-> "native", tool |-> "delegate"]
  IN e \in NativeTool /\ e.tool = "delegate"
BY DEF NativeTool

LEMMA OwnToolsHold == StartupInv => OwnToolsAreReached
<1> SUFFICES ASSUME StartupInv, phase = "up", NEW a \in DOMAIN registry, NEW i \in DOMAIN Tools(a),
                    NEW t, t = Tools(a)[i].tool
             PROVE  ToolCalled(a, t) = "native" <=>
                      \/ t \in NativeNames \cap Allowed(a)
                      \/ t = "delegate" /\ AgentConfig(a).allow # {} /\ \A j \in DOMAIN mcpTools : mcpTools[j].tool # t
  BY DEF OwnToolsAreReached
<1> PICK p : p = OwnTools(a)
  OBVIOUS
<1> PICK r : r = Delegating(a)
  OBVIOUS
<1> PICK all : all = Tools(a)
  OBVIOUS
<1>1. p \in Seq(NativeTool) /\ ((\E j \in DOMAIN p : p[j].tool = t) <=> t \in NativeNames \cap Allowed(a))
  <2>1. KeepsAll(Allowed(a), p, Len(NativeTools))
    BY KeptKeeps, NativeToolsAre DEF OwnTools
  <2>2. DOMAIN NativeTools = 1 .. Len(NativeTools)
    BY NativeToolsAre
  <2> QED BY <2>1, <2>2 DEF KeepsAll, NativeNames
<1>2. r \in Seq(NativeTool) /\ ((\E j \in DOMAIN r : r[j].tool = t) <=> t = "delegate" /\ AgentConfig(a).allow # {})
  <2>1. CASE AgentConfig(a).allow = {}
    BY <2>1 DEF Delegating
  <2>2. CASE AgentConfig(a).allow # {}
    <3>e. PICK e : e = [server |-> "native", tool |-> "delegate"]
      OBVIOUS
    <3>1. e \in NativeTool /\ e.tool = "delegate"
      BY <3>e, DelegateIsNative
    <3>2. r = <<e>>
      BY <2>2, <3>e DEF Delegating
    <3>3. DOMAIN r = {1} /\ r[1] = e
      BY <3>2
    <3>4. r \in Seq(NativeTool)
      <4> HIDE DEF NativeTool
      <4> QED BY <3>1, <3>2
    <3> QED BY <2>2, <3>1, <3>3, <3>4
  <2> QED BY <2>1, <2>2
<1>3. mcpTools \in Seq(LoadedTool) /\ all = p \o mcpTools \o r
  BY DEF StartupInv, ServersInv, Tools
<1> DEFINE named == {x \in DOMAIN all : all[x].tool = t}
<1>4. PICK k \in Nat, l \in Nat, m \in Nat : InARow(p, mcpTools, r, k, l, m, all)
  <2> DEFINE S == NativeTool \cup LoadedTool
  <2>1. p \in Seq(S) /\ mcpTools \in Seq(S) /\ r \in Seq(S)
    <3> HIDE DEF NativeTool, LoadedTool
    <3> QED BY <1>1, <1>2, <1>3
  <2> HIDE DEF S
  <2>2. \E k, l, m \in Nat : InARow(p, mcpTools, r, k, l, m, p \o mcpTools \o r)
    BY <2>1, ThreeInARow, Zenon
  <2> QED BY <1>3, <2>2, Zenon
<1>a. DOMAIN p = 1..k /\ DOMAIN mcpTools = 1..l /\ DOMAIN r = 1..m /\ DOMAIN all = 1 .. k + l + m
  BY <1>4 DEF InARow
<1>5. AroundServers(p, mcpTools, r, k, l, m)
  <2>1. \A j \in 1..k : p[j] \in NativeTool
    <3> HIDE DEF NativeTool
    <3> QED BY <1>1, <1>a
  <2>2. \A j \in 1..l : mcpTools[j] \in LoadedTool
    <3> HIDE DEF LoadedTool
    <3> QED BY <1>3, <1>a
  <2>3. \A j \in 1..m : r[j] \in NativeTool
    <3> HIDE DEF NativeTool
    <3> QED BY <1>2, <1>a
  <2>4. (\A e \in NativeTool : e.server = "native") /\ \A e \in LoadedTool : e.server # "native"
    BY DEF NativeTool, LoadedTool
  <2> QED BY <2>1, <2>2, <2>3, <2>4, Zenon DEF AroundServers
<1>6. PICK first \in named : /\ \A y \in named : first <= y
                             /\ ToolCalled(a, t) = all[first].server
  <2>1. \E x \in named : \A y \in named : x <= y
    <3>1. i \in named /\ named \in SUBSET Nat
      BY <1>a
    <3> HIDE DEF named
    <3> QED BY <3>1, LeastNumber
  <2>2. ToolCalled(a, t) = all[CHOOSE x \in named : \A y \in named : x <= y].server
    BY Zenon DEF ToolCalled
  <2> HIDE DEF named
  <2> QED BY <2>1, <2>2, Zenon
<1>7. FirstOf(all, k + l + m, t, first)
  BY <1>a, <1>6 DEF FirstOf
<1>8. CallsItsOwn(p, mcpTools, r, k, l, m, all[first], t)
  <2> HIDE DEF named
  <2> QED BY <1>4, <1>5, <1>7, FirstOfItsName, Zenon
<1> QED BY <1>1, <1>2, <1>a, <1>6, <1>8 DEF CallsItsOwn

(* What failed is in broken, so all that is not is there.                  *)
LEMMA OneFailureHolds == StartupInv => OneFailureStopsOne
<1> SUFFICES ASSUME StartupInv, phase = "up" PROVE OneFailureStopsOne
  BY DEF OneFailureStopsOne
<1>1. providers # {} => {a \in Wanted : <<"agent", a>> \notin broken} \subseteq DOMAIN registry
  BY DEF StartupInv, AgentsInv, Built
<1>2. \A s \in config.servers : <<"server", s>> \notin broken =>
        {ServerTools[s][i] : i \in DOMAIN ServerTools[s]}
          \subseteq {mcpTools[i].tool : i \in {j \in DOMAIN mcpTools : mcpTools[j].server = s}}
  <2> SUFFICES ASSUME NEW s \in config.servers, <<"server", s>> \notin broken, NEW i \in DOMAIN ServerTools[s]
               PROVE  \E j \in DOMAIN mcpTools : mcpTools[j].server = s /\ mcpTools[j].tool = ServerTools[s][i]
    OBVIOUS
  <2>1. PICK j \in DOMAIN mcpTools : mcpTools[j] = [server |-> s, tool |-> ServerTools[s][i]]
    BY DEF StartupInv, ServersInv, Loaded
  <2> QED BY <2>1
<1>3. channels = ServedNames(DOMAIN config.channels)
  BY DEF StartupInv, ChannelsInv
<1>4. ASSUME NEW m \in SampleMessages, registry # <<>> PROVE Serves(m) # {}
  <2>1. DOMAIN registry # {}
    <3>1. registry = [a \in DOMAIN registry |-> registry[a]]
      BY DEF StartupInv, AgentsInv
    <3>2. DOMAIN registry = {} => registry = <<>>
      BY <3>1
    <3> QED BY <1>4, <3>2
  <2>2. Default # {}
    BY <2>1 DEF Default
  <2> QED BY <2>2 DEF Serves
<1> QED BY <1>1, <1>2, <1>3, <1>4, Zenon DEF OneFailureStopsOne, Wanted, ServedNames

-----------------------------------------------------------------------------
(* A configuration with nothing wrong, and nothing that failed.            *)

LEMMA NothingWrongMeans ==
  ASSUME StartupInv, phase = "up", NothingIsWrong
  PROVE  /\ broken = {}
         /\ DOMAIN config.agents # {}
         /\ \A a \in DOMAIN config.agents : config.agents[a].allow \subseteq DOMAIN config.agents
         /\ \A a \in DOMAIN config.agents : config.agents[a].provider \in providers
         /\ \A i \in DOMAIN config.routing : config.routing[i].agent \in DOMAIN config.agents
         /\ \A i \in DOMAIN config.routing :
              Cardinality(DOMAIN config.agents) > 1 => \E q \in DOMAIN config.routing : config.routing[q].by = "default"
         /\ \A n \in DOMAIN config.channels :
              config.channels[n].kind \in ValidKinds /\ HasWhatItNeeds(config.channels[n], environment)
         /\ config.backend \in {"sqlite", "markdown", "none"}
<1>1. /\ AgentErrors(config) = {} /\ RoutingErrors(config) = {}
      /\ ChannelErrors(config, environment) = {} /\ MemoryErrors(config, environment) = {}
  BY Zenon DEF NothingIsWrong, Validate
<1>2. broken = {} /\ config.providers # <<>> /\ DOMAIN config.providers \subseteq KnownProviders
  BY DEF NothingIsWrong
<1>3. config.agents # <<>>
  BY <1>1 DEF AgentErrors
<1>4. \A a \in DOMAIN config.agents : config.agents[a].allow \subseteq DOMAIN config.agents
  <2> SUFFICES ASSUME NEW a \in DOMAIN config.agents, ~(config.agents[a].allow \subseteq DOMAIN config.agents) PROVE FALSE
    OBVIOUS
  <2>1. <<a, "allow">> \in AgentErrors(config)
    BY <1>3, Zenon DEF AgentErrors
  <2> QED BY <1>1, <2>1
<1>5. \A a \in DOMAIN config.agents : config.agents[a].provider \in DOMAIN config.providers
  <2> SUFFICES ASSUME NEW a \in DOMAIN config.agents, config.agents[a].provider \notin DOMAIN config.providers PROVE FALSE
    OBVIOUS
  <2>1. <<a, "provider">> \in AgentErrors(config)
    BY <1>2, <1>3, Zenon DEF AgentErrors
  <2> QED BY <1>1, <2>1
<1>6. \A i \in DOMAIN config.routing : config.routing[i].agent \in DOMAIN config.agents
  <2> SUFFICES ASSUME NEW i \in DOMAIN config.routing, config.routing[i].agent \notin DOMAIN config.agents PROVE FALSE
    OBVIOUS
  <2>1. <<"routing", "agent">> \in RoutingErrors(config)
    BY <1>3, Zenon DEF RoutingErrors
  <2> QED BY <1>1, <2>1
<1>7. \A i \in DOMAIN config.routing :
        Cardinality(DOMAIN config.agents) > 1 => \E q \in DOMAIN config.routing : config.routing[q].by = "default"
  <2> SUFFICES ASSUME NEW i \in DOMAIN config.routing, Cardinality(DOMAIN config.agents) > 1,
                      \A q \in DOMAIN config.routing : config.routing[q].by # "default"
               PROVE  FALSE
    OBVIOUS
  <2>1. <<"routing", "default">> \in RoutingErrors(config)
    BY Zenon DEF RoutingErrors
  <2> QED BY <1>1, <2>1
<1>8. \A n \in DOMAIN config.channels :
        config.channels[n].kind \in ValidKinds /\ HasWhatItNeeds(config.channels[n], environment)
  <2> SUFFICES ASSUME NEW n \in DOMAIN config.channels,
                      ~(config.channels[n].kind \in ValidKinds /\ HasWhatItNeeds(config.channels[n], environment))
               PROVE  FALSE
    OBVIOUS
  <2>1. <<n, "section">> \in ChannelErrors(config, environment)
    BY Zenon DEF ChannelErrors
  <2> QED BY <1>1, <2>1
<1>9. config.backend \in {"sqlite", "markdown", "none"}
  <2> SUFFICES ASSUME config.backend \notin {"sqlite", "markdown", "none"} PROVE FALSE
    OBVIOUS
  <2>1. <<"memory", "backend">> \in MemoryErrors(config, environment)
    BY Zenon DEF MemoryErrors
  <2> QED BY <1>1, <2>1
<1>10. config.agents = [a \in DOMAIN config.agents |-> config.agents[a]]
  BY ConfigFacts DEF StartupInv
<1>11. DOMAIN config.agents # {}
  BY <1>3, <1>10
<1>12. DOMAIN config.providers \subseteq providers
  <2>1. DOMAIN config.providers # {}
    BY <1>5, <1>11
  <2>2. DOMAIN config.providers \cap KnownProviders = DOMAIN config.providers
    BY <1>2
  <2>3. providers = IF DOMAIN config.providers = {} /\ environment \cap OpenAiKeys # {} THEN {"openai"} ELSE DOMAIN config.providers
    BY <2>2, Zenon DEF StartupInv, ProvidersInv
  <2> QED BY <2>1, <2>3
<1> QED BY <1>2, <1>4, <1>5, <1>6, <1>7, <1>8, <1>9, <1>11, <1>12

LEMMA CheckedHolds == StartupInv => CheckedIsServed
<1> SUFFICES ASSUME StartupInv, phase = "up", NothingIsWrong PROVE CheckedIsServed
  BY DEF CheckedIsServed
<1>1. /\ broken = {} /\ DOMAIN config.agents # {}
      /\ \A a \in DOMAIN config.agents : config.agents[a].allow \subseteq DOMAIN config.agents
      /\ \A a \in DOMAIN config.agents : config.agents[a].provider \in providers
      /\ \A i \in DOMAIN config.routing : config.routing[i].agent \in DOMAIN config.agents
  BY NothingWrongMeans
<1>2. /\ \A i \in DOMAIN config.routing :
           Cardinality(DOMAIN config.agents) > 1 => \E q \in DOMAIN config.routing : config.routing[q].by = "default"
      /\ config.backend \in {"sqlite", "markdown", "none"}
  BY NothingWrongMeans
<1>3. /\ IsFiniteSet(DOMAIN config.agents) /\ config.agents = [a \in DOMAIN config.agents |-> config.agents[a]]
      /\ DOMAIN config.routing \subseteq Nat
  BY ConfigFacts DEF StartupInv
<1>4. DOMAIN config.agents \subseteq DOMAIN registry
  <2>1. providers # {}
    BY <1>1
  <2>2. \A a \in Wanted : Built(a)
    BY <2>1 DEF StartupInv, AgentsInv
  <2> QED BY <1>1, <2>2 DEF Wanted, Built
<1>5. ASSUME NEW a \in DOMAIN config.agents PROVE registry[a] = config.agents[a].provider
  BY <1>1, <1>4, <1>5 DEF StartupInv, AgentsInv, Own, AgentConfig
<1>6. ASSUME NEW m \in SampleMessages, Matches(m) # {} PROVE Serves(m) = {Route(m)}
  <2> DEFINE S == Matches(m)
             i == CHOOSE i \in S : \A j \in S : i <= j
  <2>1. S \in SUBSET Nat /\ S # {}
    BY <1>3, <1>6 DEF Matches
  <2>2. i \in S
    <3>1. \E x \in S : \A j \in S : x <= j
      <4> HIDE DEF S
      <4> QED BY <2>1, LeastNumber
    <3> HIDE DEF S
    <3> QED BY <3>1, Zenon
  <2>3. Route(m) = config.routing[i].agent
    BY <1>6, Zenon DEF Route
  <2>4. i \in DOMAIN config.routing
    <3>1. S \subseteq DOMAIN config.routing
      BY DEF Matches
    <3> HIDE DEF S, i
    <3> QED BY <2>2, <3>1
  <2> HIDE DEF i
  <2> QED BY <1>1, <1>4, <2>3, <2>4 DEF Serves
<1>7. ASSUME NEW m \in SampleMessages, Matches(m) = {}
      PROVE  config.routing = <<>> \/ Cardinality(DOMAIN config.agents) = 1
  <2>1. \A q \in DOMAIN config.routing : config.routing[q].by # "default"
    BY <1>7 DEF Matches, Fits
  <2>2. CASE DOMAIN config.routing = {}
    <3>1. config.routing = [i \in DOMAIN config.routing |-> config.routing[i]]
      BY ConfigFacts DEF StartupInv
    <3> QED BY <2>2, <3>1
  <2>3. CASE DOMAIN config.routing # {}
    <3>1. ~(Cardinality(DOMAIN config.agents) > 1)
      BY <1>2, <2>1, <2>3
    <3>2. Cardinality(DOMAIN config.agents) \in Nat /\ Cardinality(DOMAIN config.agents) # 0
      BY <1>1, <1>3, FS_CardinalityType, FS_EmptySet
    <3> QED BY <3>1, <3>2
  <2> QED BY <2>2, <2>3
<1>8. EmbedderIsHad => memory = config.backend
  BY <1>1, <1>2 DEF StartupInv, MemoryInv
<1>9. ASSUME NEW n \in DOMAIN config.channels, NEW s, s = config.channels[n],
              s.kind \notin {"email", "matrix"}, s.kind = "telegram" => s.token
       PROVE  NameOf(s.kind) \in channels
  <2>1. s.kind \in ValidKinds /\ HasWhatItNeeds(s, environment)
    BY <1>9, NothingWrongMeans
  <2>2. s.kind \in {"telegram", "cli", "discord", "slack", "dingtalk", "feishu", "wechat_work", "webhook", "whatsapp"}
    BY <1>9, <2>1 DEF ValidKinds
  <2>3. s.kind \in {"discord", "slack", "whatsapp"} => s.token
    BY <2>1 DEF HasWhatItNeeds
  <2>4. CanServe(s)
    BY <1>9, <2>2, <2>3 DEF CanServe, OtherKinds, TokenKinds
  <2>5. channels = ServedNames(DOMAIN config.channels)
    BY DEF StartupInv, ChannelsInv
  <2> QED BY <1>9, <2>4, <2>5, Zenon DEF ServedNames
<1>10. \A a \in DOMAIN config.agents : config.agents[a].allow \subseteq DOMAIN registry
  BY <1>1, <1>4
<1> QED BY <1>5, <1>6, <1>7, <1>8, <1>9, <1>10, Zenon DEF CheckedIsServed

(* Whatever the file and the environment say, in whatever order the loops  *)
(* take what they go over and whatever fails on the way: what was          *)
(* configured and could be had is what serves.                             *)
THEOREM ConfiguredServes == StartupSpec => []ConfiguredIsServed
<1>1. StartupInv => ConfiguredIsServed
  <2>1. StartupInv => EnvironmentWins
    <3>1. CASE phase = "off"
      BY <3>1 DEF EnvironmentWins
    <3>2. CASE phase # "off"
      BY <3>2, ConfigFacts DEF StartupInv
    <3> QED BY <3>1, <3>2
  <2> QED BY <2>1, OneFailureHolds, CheckedHolds, OwnToolsHold DEF ConfiguredIsServed
<1> QED BY <1>1, StartupInitHolds, StartupInductive, PTL DEF StartupSpec
=============================================================================
