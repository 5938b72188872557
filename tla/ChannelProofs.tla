--------------------------- MODULE ChannelProofs ----------------------------
(***************************************************************************)
(* Proofs about channels: how Telegram, Discord and the mailbox hand over  *)
(* what they receive, each once; the sync loop of Matrix; the posts of the *)
(* webhook channels and the tasks of WeChat Work; the access token of      *)
(* Feishu; and how the channels send replies.                              *)
(*                                                                         *)
(* Telegram, for every number of updates and starts, every limit and every *)
(* allowlist: the offset lives in the polling task and is gone when the    *)
(* process ends, so that nothing is handled twice rests on the probe of    *)
(* the next start.  The invariant says why one request is enough: what the *)
(* server keeps of the updates below the highest offset there was          *)
(* (WindowInv) fits into one answer, since a request forgets everything    *)
(* below its offset and only one answer is worked through before the next. *)
(***************************************************************************)
EXTENDS Telegram, Pollers, FeishuToken, Outgoing, MatrixSync, WecomTasks,
        TLAPS, SequenceTheorems, FiniteSetTheorems, WellFoundedInduction

USE TelegramAssumption

Working == pc \in {"work", "placeholder", "publish"}
Below(n) == {u \in backlog : u < n}
UpTo(n) == {u \in backlog : u <= n}

(* What is kept below the highest offset is in the next answer, and once a *)
(* start has probed, its offset is above all of that.                      *)
WindowInv ==
  /\ Cardinality(Below(reached)) <= Limit
  /\ pc = "poll" \/ Working => \A u \in backlog : u >= offset => u >= reached

(* What is left of an answer is in order, has not been reached, and comes  *)
(* from the lowest of what is kept.                                        *)
BatchInv ==
  /\ Working =>
       /\ \A i, j \in DOMAIN batch : i < j => batch[i] < batch[j]
       /\ \A i \in DOMAIN batch : batch[i] >= reached /\ Cardinality(UpTo(batch[i])) <= Limit
  /\ pc = "work" => batch # <<>>

(* The update being processed is the last that was reached.                *)
CurrentInv == Processing => offset = reached /\ Current \in Known

(* What was put on the bus was reached, in order, before the current one.  *)
OnceInv ==
  /\ \A i \in DOMAIN published : published[i] < reached /\ (Processing => published[i] < Current)
  /\ \A i, j \in DOMAIN published : i < j => published[i] < published[j]
  /\ \A u \in owed \cup answered : u < reached

Inv ==
  TypeOK /\ WindowInv /\ BatchInv /\ CurrentInv /\ OnceInv
    /\ EditsOnlyPlaceholders /\ TypingIsOwed

-----------------------------------------------------------------------------
(* Sets of numbers. *)

(* Every set of natural numbers that is not empty has a least element.     *)
LEMMA LeastNumber ==
  ASSUME NEW S \in SUBSET Nat, S # {}
  PROVE  \E n \in S : \A m \in S : n <= m
<1>1. \E n \in S : \A m \in S : ~(<<m, n>> \in OpToRel(<, Nat))
  BY NatLessThanWellFounded, WFMin
<1>2. PICK n \in S : \A m \in S : <<m, n>> \notin OpToRel(<, Nat)
  BY <1>1
<1>3. ASSUME NEW m \in S PROVE n <= m
  <2>1. <<m, n>> \notin {ss \in Nat \X Nat : ss[1] < ss[2]}
    BY <1>2, Zenon DEF OpToRel
  <2>2. ~(m < n)
    BY <2>1
  <2> QED BY <2>2
<1> QED BY <1>3

(* A bounded one has a greatest element.                                   *)
LEMMA GreatestNumber ==
  ASSUME NEW S \in SUBSET Nat, S # {}, NEW b \in Nat, \A n \in S : n <= b
  PROVE  \E n \in S : \A m \in S : m <= n
<1> DEFINE bounds == {k \in Nat : \A n \in S : n <= k}
<1>1. PICK k \in bounds : \A l \in bounds : k <= l
  BY LeastNumber, Zenon
<1>2. k \in S
  <2> SUFFICES ASSUME k \notin S PROVE FALSE
    OBVIOUS
  <2>1. \A n \in S : n < k
    BY <1>1
  <2>2. k # 0
    <3>1. PICK n \in S : TRUE
      OBVIOUS
    <3> QED BY <2>1, <3>1
  <2>3. k - 1 \in bounds
    BY <1>1, <2>1, <2>2
  <2> QED BY <1>1, <2>3
<1> QED BY <1>1, <1>2

LEMMA BoundedIsFinite ==
  ASSUME NEW b \in Nat, NEW T \in SUBSET (0..b)
  PROVE  IsFiniteSet(T) /\ Cardinality(T) \in Nat
<1>1. IsFiniteSet(0..b)
  BY FS_Interval
<1>2. IsFiniteSet(T)
  BY <1>1, FS_Subset
<1> QED BY <1>2, FS_CardinalityType

(* Finite sets of numbers have an ascending enumeration, the sequence an   *)
(* answer holds them in.                                                   *)
Ascending(s) == \A i, j \in DOMAIN s : i < j => s[i] < s[j]

LEMMA Enumeration ==
  ASSUME NEW b \in Nat, NEW S \in SUBSET (0..b)
  PROVE  \E s \in [1..Cardinality(S) -> S] : Ascending(s)
<1> DEFINE Listed(T) == \E s \in [1..Cardinality(T) -> T] : Ascending(s)
           bad == {n \in Nat : \E T \in SUBSET (0..b) : Cardinality(T) = n /\ ~Listed(T)}
<1>1. ASSUME NEW T \in SUBSET (0..b) PROVE IsFiniteSet(T) /\ Cardinality(T) \in Nat
  BY BoundedIsFinite
<1>2. SUFFICES ASSUME bad # {} PROVE FALSE
  BY <1>1
<1> HIDE DEF Listed
<1>3. PICK n \in bad : \A m \in bad : n <= m
  BY <1>2, LeastNumber
<1>4. PICK T \in SUBSET (0..b) : Cardinality(T) = n /\ ~Listed(T)
  BY <1>3
<1>5. T # {}
  <2> SUFFICES ASSUME T = {} PROVE Listed(T)
    BY <1>4
  <2>1. Cardinality(T) = 0
    BY FS_EmptySet
  <2> DEFINE e == [i \in 1..0 |-> i]
  <2>2. e \in [1..Cardinality(T) -> T] /\ Ascending(e)
    BY <2>1 DEF Ascending
  <2> QED BY <2>2 DEF Listed
<1>6. PICK top \in T : \A v \in T : v <= top
  <2>1. T \in SUBSET Nat /\ \A v \in T : v <= b
    OBVIOUS
  <2> QED BY <1>5, <2>1, GreatestNumber
<1> DEFINE U == T \ {top}
<1>7. n > 0 /\ Cardinality(U) = n - 1 /\ U \in SUBSET (0..b) /\ n \in Nat
  BY <1>1, <1>3, <1>4, <1>5, FS_RemoveElement, FS_EmptySet
<1>8. Listed(U)
  BY <1>3, <1>7
<1> HIDE DEF bad
<1>9. PICK s \in [1..n - 1 -> U] : Ascending(s)
  BY <1>7, <1>8 DEF Listed
<1> DEFINE t == [i \in 1..n |-> IF i = n THEN top ELSE s[i]]
<1>10. t \in [1..n -> T]
  BY <1>7, <1>9
<1>11. Ascending(t)
  <2> SUFFICES ASSUME NEW i \in 1..n, NEW j \in 1..n, i < j PROVE t[i] < t[j]
    BY DEF Ascending
  <2>1. i \in 1..n - 1 /\ t[i] = s[i] /\ s[i] \in U
    BY <1>7, <1>9
  <2>2. CASE j = n
    <3>1. t[j] = top
      BY <2>2
    <3>2. s[i] \in T /\ s[i] # top
      BY <2>1
    <3> HIDE DEF t
    <3>3. s[i] <= top
      BY <1>6, <3>2
    <3>4. s[i] \in 0..b /\ top \in 0..b
      BY <1>4, <1>6, <3>2
    <3>5. s[i] < top
      BY <3>2, <3>3, <3>4
    <3> QED BY <2>1, <3>1, <3>5
  <2>3. CASE j # n
    BY <1>9, <2>1, <2>3, <1>7 DEF Ascending
  <2> QED BY <2>2, <2>3
<1> QED BY <1>4, <1>10, <1>11 DEF Listed

-----------------------------------------------------------------------------
(* Answers of the server. *)

(* An update of an answer is kept, and with it at most Limit up to it.     *)
LEMMA AnswerHolds ==
  ASSUME TypeOK, NEW S \in SUBSET backlog
  PROVE  LET s == InOrder(Lowest(S, Limit))
         IN /\ s \in Seq(Known)
            /\ Ascending(s)
            /\ \A i \in DOMAIN s : s[i] \in S /\ Cardinality({v \in S : v <= s[i]}) <= Limit
<1> DEFINE L == Lowest(S, Limit)
           E == [1..Cardinality(L) -> L]
           s == InOrder(L)
<1>1. Len(update) \in Nat /\ S \subseteq 0..Len(update) /\ S \subseteq Known
  BY DEF TypeOK, Known
<1>2. L \in SUBSET (0..Len(update)) /\ \A u \in L : u \in S /\ Cardinality({v \in S : v <= u}) <= Limit
  BY <1>1 DEF Lowest
<1>3. Cardinality(L) \in Nat
  BY <1>1, <1>2, BoundedIsFinite
<1> HIDE DEF L
<1>4. \E e \in E : Ascending(e)
  BY <1>1, <1>2, Enumeration
<1>5. s \in E /\ Ascending(s)
  BY <1>4, Zenon DEF InOrder, Ascending
<1>6. s \in Seq(Known)
  <2>1. s \in [1..Cardinality(L) -> Known]
    BY <1>1, <1>2, <1>5
  <2> QED BY <1>3, <2>1
<1>7. ASSUME NEW i \in DOMAIN s PROVE s[i] \in S /\ Cardinality({v \in S : v <= s[i]}) <= Limit
  BY <1>2, <1>5
<1> QED BY <1>5, <1>6, <1>7 DEF L

(* How many a set of updates holds is a number, and no more than a larger  *)
(* set.                                                                    *)
LEMMA Counts ==
  ASSUME TypeOK, NEW S \in SUBSET Known, NEW T \in SUBSET S
  PROVE  Cardinality(T) \in Nat /\ Cardinality(S) \in Nat /\ Cardinality(T) <= Cardinality(S)
<1>1. Len(update) \in Nat /\ S \in SUBSET (0..Len(update)) /\ T \in SUBSET (0..Len(update))
  BY DEF TypeOK, Known
<1> QED BY <1>1, BoundedIsFinite, FS_Subset

-----------------------------------------------------------------------------
(* The steps. *)

LEMMA InitHolds == Init => Inv
<1> SUFFICES ASSUME Init PROVE Inv
  OBVIOUS
<1>1. TypeOK
  <2>1. Len(update) = 0 /\ update \in Seq(Contents) /\ batch \in Seq(Known) /\ published \in Seq(Known)
    BY DEF Init
  <2>2. placeholder \in [Chats -> Optional(Known)] /\ sending \in Optional(Known)
    BY DEF Init, Optional
  <2>3. starts \in 0..MaxStarts /\ Len(update) <= MaxUpdates
    BY <2>1 DEF Init
  <2>4. offset \in 0 .. Len(update) + 1 /\ reached \in 0 .. Len(update) + 1
    BY <2>1 DEF Init
  <2>5. running \in BOOLEAN /\ username \in BOOLEAN
    BY DEF Init
  <2>6. pc \in {"down", "probe", "poll", "work", "placeholder", "publish"}
    BY DEF Init
  <2>7. backlog \subseteq Known /\ typing \subseteq Chats /\ thinking \subseteq Known /\ owed \subseteq Known /\ answered \subseteq Known
    BY DEF Init
  <2> QED BY <2>1, <2>2, <2>3, <2>4, <2>5, <2>6, <2>7, Zenon DEF TypeOK
<1>2. Below(reached) = {}
  BY DEF Init, Below
<1>3. WindowInv
  <2>1. Cardinality(Below(reached)) = 0
    BY <1>2, FS_EmptySet
  <2> QED BY <2>1 DEF Init, WindowInv, Working
<1>4. BatchInv /\ CurrentInv /\ OnceInv
  BY DEF Init, BatchInv, CurrentInv, OnceInv, Working, Processing
<1>5. EditsOnlyPlaceholders /\ TypingIsOwed
  BY DEF Init, EditsOnlyPlaceholders, TypingIsOwed
<1> QED BY <1>1, <1>3, <1>4, <1>5 DEF Inv

(* The offset of the probe is above all of its answer.                     *)
LEMMA ProbeOffset ==
  ASSUME TypeOK, Probe
  PROVE  \/ Lowest(backlog, Limit) = {} /\ offset' = 0
         \/ \E u \in Lowest(backlog, Limit) :
              (\A v \in Lowest(backlog, Limit) : v <= u) /\ offset' = u + 1
<1> DEFINE L == Lowest(backlog, Limit)
<1>1. L \in SUBSET Nat /\ Len(update) \in Nat /\ \A v \in L : v <= Len(update)
  <2>1. L \subseteq backlog
    BY DEF Lowest
  <2> HIDE DEF L
  <2> QED BY <2>1 DEF TypeOK, Known
<1>2. offset' = (IF L = {} THEN 0 ELSE (CHOOSE u \in L : \A v \in L : v <= u) + 1)
  BY DEF Probe
<1> HIDE DEF L
<1>3. CASE L = {}
  BY <1>2, <1>3 DEF L
<1>4. CASE L # {}
  <2>1. \E u \in L : \A v \in L : v <= u
    BY <1>1, <1>4, GreatestNumber
  <2>2. PICK u \in L : u = (CHOOSE x \in L : \A v \in L : v <= x) /\ \A v \in L : v <= u
    BY <2>1
  <2> QED BY <1>2, <1>4, <2>2 DEF L
<1> QED BY <1>3, <1>4

(* A new update keeps what the others are the values of.                   *)
LEMMA ArriveTypes ==
  ASSUME TypeOK, Arrive
  PROVE  TypeOK'
<1>1. PICK c \in Contents : update' = Append(update, c)
  BY DEF Arrive
<1>2. Len(update') = Len(update) + 1 /\ update' \in Seq(Contents) /\ Len(update) \in Nat
  BY <1>1 DEF TypeOK
<1>3. Known \subseteq Known' /\ Len(update) + 1 \in Known'
  BY <1>2 DEF Known
<1>4. \A s \in Seq(Known) : s \in Seq(Known')
  BY <1>3
<1>5. batch' \in Seq(Known') /\ published' \in Seq(Known')
  BY <1>4 DEF TypeOK, Arrive
<1>6. Optional(Known) \subseteq Optional(Known')
  BY <1>3 DEF Optional
<1>7. placeholder' \in [Chats -> Optional(Known')] /\ sending' \in Optional(Known')
  BY <1>6 DEF TypeOK, Arrive
<1>8. backlog' \subseteq Known' /\ thinking' \subseteq Known' /\ owed' \subseteq Known' /\ answered' \subseteq Known'
  BY <1>2, <1>3 DEF TypeOK, Arrive
<1>9. /\ offset' \in 0 .. Len(update') + 1 /\ reached' \in 0 .. Len(update') + 1
      /\ Len(update') <= MaxUpdates
  BY <1>2 DEF TypeOK, Arrive
<1>10. Optional(Known)' = Optional(Known')
  BY DEF Optional
<1> QED BY <1>2, <1>5, <1>7, <1>8, <1>9, <1>10 DEF TypeOK, Arrive

(* What the update the task has taken is.                                  *)
LEMMA TakenUpdate ==
  ASSUME Inv, Take
  PROVE  /\ Head(batch) \in Known /\ Head(batch) >= reached
         /\ offset' = Head(batch) + 1 /\ reached' = Head(batch) + 1
         /\ batch' = Tail(batch) /\ batch \in Seq(Known) /\ batch # <<>>
         /\ reached \in Nat /\ Len(update) \in Nat
<1>1. batch # <<>> /\ batch \in Seq(Known)
  BY DEF Inv, TypeOK, BatchInv, Take
<1>2. Head(batch) = batch[1] /\ 1 \in DOMAIN batch /\ Head(batch) \in Known
  BY <1>1
<1>3. Head(batch) >= reached
  BY <1>2 DEF Inv, BatchInv, Take, Working
<1>4. reached \in Nat /\ Len(update) \in Nat
  BY DEF Inv, TypeOK
<1>5. reached' = Head(batch) + 1 /\ offset' = Head(batch) + 1
  BY <1>2, <1>3, <1>4 DEF Take, Larger, Known
<1> QED BY <1>1, <1>2, <1>3, <1>4, <1>5 DEF Take

(* The steps keep the types.                                               *)
LEMMA TypeStep ==
  ASSUME Inv, [Next]_vars
  PROVE  TypeOK'
<1> USE DEF Inv, Known
<1>1. CASE Arrive
  BY <1>1, ArriveTypes
<1>2. CASE Start
  <2>1. starts' \in 0..MaxStarts /\ offset' \in 0 .. Len(update) + 1
    BY <1>2 DEF TypeOK, Start
  <2>2. running' \in BOOLEAN /\ username' \in BOOLEAN
    BY <1>2, Zenon DEF TypeOK, Start
  <2> QED BY <1>2, <2>1, <2>2 DEF TypeOK, Start
<1>3. CASE Probe
  <2>1. offset' \in 0 .. Len(update) + 1
    <3>1. Lowest(backlog, Limit) \subseteq backlog
      BY DEF Lowest
    <3>2. offset' = 0 \/ \E u \in backlog : offset' = u + 1
      BY <1>3, <3>1, ProbeOffset
    <3> QED BY <3>2 DEF TypeOK
  <2> QED BY <1>3, <2>1 DEF TypeOK, Probe, Larger
<1>4. CASE Poll
  <2>1. backlog' \in SUBSET backlog /\ batch' = InOrder(Lowest(backlog', Limit))
    BY <1>4 DEF Poll
  <2>2. batch' \in Seq(Known)
    BY <2>1, AnswerHolds
  <2> QED BY <1>4, <2>1, <2>2 DEF TypeOK, Poll, Resume
<1>5. CASE LoopEnds
  BY <1>5 DEF TypeOK, LoopEnds
<1>6. CASE Take
  <2>1. /\ offset' \in 0 .. Len(update) + 1 /\ reached' \in 0 .. Len(update) + 1
        /\ batch' \in Seq(Known)
    <3>1. Head(batch) \in 1..Len(update) /\ Len(update) \in Nat
      BY <1>6, TakenUpdate
    <3>2. Tail(batch) \in Seq(Known)
      BY <1>6, TakenUpdate
    <3>3. offset' = Head(batch) + 1 /\ reached' = Head(batch) + 1 /\ batch' = Tail(batch)
      BY <1>6, TakenUpdate
    <3> QED BY <3>1, <3>2, <3>3
  <2>2. typing' \subseteq Chats /\ pc' \in {"poll", "work", "placeholder", "publish"}
    <3>1. update[Head(batch)] \in Content
      BY <1>6, TakenUpdate, TelegramAssumption DEF TypeOK
    <3>2. update[Head(batch)].chat \in Chats
      BY <3>1 DEF Content
    <3> QED BY <1>6, <3>2 DEF TypeOK, Take, Resume
  <2> QED BY <1>6, <2>1, <2>2 DEF TypeOK, Take
<1>7. CASE PostPlaceholder
  <2>1. Current \in Known
    BY <1>7 DEF CurrentInv, PostPlaceholder, Processing
  <2> QED BY <1>7, <2>1 DEF TypeOK, PostPlaceholder, Optional
<1>8. CASE Publish
  <2>1. Current \in Known
    BY <1>8 DEF CurrentInv, Publish, Processing
  <2> QED BY <1>8, <2>1 DEF TypeOK, Publish, Resume
<1>9. CASE Lose
  BY <1>9 DEF TypeOK, Lose, Resume
<1>10. ASSUME NEW u \in owed, SendReply(u) PROVE TypeOK'
  BY <1>10 DEF TypeOK, SendReply, Optional
<1>11. CASE SendText
  BY <1>11 DEF TypeOK, SendText, Optional
<1>12. CASE Stop
  BY <1>12 DEF TypeOK, Stop
<1>13. CASE Crash
  <2>1. batch' \in Seq(Known)
    BY <1>13 DEF Crash
  <2>2. placeholder' \in [Chats -> Optional(Known)] /\ sending' \in Optional(Known)
    BY <1>13 DEF Crash, Optional
  <2>3. running' \in BOOLEAN /\ username' \in BOOLEAN /\ typing' \subseteq Chats /\ owed' \subseteq Known
    BY <1>13 DEF Crash
  <2>4. UNCHANGED <<update, backlog, offset, thinking, published, answered, reached, starts>>
    BY <1>13 DEF Crash
  <2> QED BY <1>13, <2>1, <2>2, <2>3, <2>4 DEF TypeOK, Crash, Optional
<1>14. CASE UNCHANGED vars
  BY <1>14 DEF TypeOK, vars
<1> QED BY <1>1, <1>2, <1>3, <1>4, <1>5, <1>6, <1>7, <1>8, <1>9, <1>10, <1>11, <1>12, <1>13, <1>14 DEF Next

-----------------------------------------------------------------------------
(* The window, the answer and the offset. *)

IntakeInv == WindowInv /\ BatchInv /\ CurrentInv /\ OnceInv

(* What is below a number stays below it when an update arrives.           *)
LEMMA ArriveIntake ==
  ASSUME Inv, Arrive
  PROVE  IntakeInv'
<1>1. /\ Len(update') = Len(update) + 1 /\ Len(update) \in Nat
      /\ backlog' = backlog \cup {Len(update) + 1}
      /\ UNCHANGED <<pc, offset, batch, owed, published, answered, reached>>
      /\ reached \in 0 .. Len(update) + 1 /\ backlog \subseteq Known /\ batch \in Seq(Known)
  BY DEF Inv, TypeOK, Arrive
<1>2. Below(reached)' = Below(reached)
  BY <1>1 DEF Below, Known
<1>3. WindowInv'
  BY <1>1, <1>2 DEF Inv, WindowInv, Working
<1>4. ASSUME NEW i \in DOMAIN batch PROVE UpTo(batch[i])' = UpTo(batch[i])
  <2>1. batch[i] \in Known
    BY <1>1
  <2> QED BY <1>1, <2>1 DEF UpTo, Known
<1>5. BatchInv'
  BY <1>1, <1>4 DEF Inv, BatchInv, Working
<1>6. CurrentInv'
  BY <1>1 DEF Inv, CurrentInv, Current, Processing, Known
<1>7. OnceInv'
  BY <1>1 DEF Inv, OnceInv, Current, Processing
<1> QED BY <1>3, <1>5, <1>6, <1>7 DEF IntakeInv

(* A step that leaves the intake alone, or takes the task out of its work. *)
LEMMA IntakeQuiet ==
  ASSUME Inv, UNCHANGED <<backlog, published, reached>>, update' = update,
         owed' \cup answered' \subseteq owed \cup answered,
         \/ UNCHANGED <<pc, offset, batch>>
         \/ pc' \in {"down", "probe"}
  PROVE  IntakeInv'
<1>1. WindowInv'
  BY DEF Inv, WindowInv, Below, Working
<1>2. BatchInv'
  BY DEF Inv, BatchInv, UpTo, Working
<1>3. CurrentInv'
  BY DEF Inv, CurrentInv, Current, Processing, Known
<1>4. OnceInv'
  <2>1. (Processing' => Processing) /\ (Processing' => Current' = Current)
    BY DEF Processing, Current
  <2> QED BY <2>1 DEF Inv, OnceInv
<1> QED BY <1>1, <1>2, <1>3, <1>4 DEF IntakeInv

(* The probe: an update below the highest offset is one of the lowest the  *)
(* server keeps, so the answer holds it and the new offset is above it.    *)
LEMMA ProbeIntake ==
  ASSUME Inv, Probe
  PROVE  IntakeInv'
<1> DEFINE L == Lowest(backlog, Limit)
<1>1. /\ UNCHANGED <<update, backlog, batch, owed, published, answered>>
      /\ reached' = Larger(reached, offset') /\ pc' = "poll"
      /\ backlog \subseteq Known /\ Len(update) \in Nat /\ reached \in Nat
  BY DEF Probe, Inv, TypeOK
<1>2. \/ L = {} /\ offset' = 0
      \/ \E u \in L : (\A v \in L : v <= u) /\ offset' = u + 1
  BY ProbeOffset DEF Inv
<1>3. L \subseteq backlog
  BY DEF Lowest
<1>4. offset' \in Nat /\ reached' \in Nat /\ reached <= reached'
  <2>1. offset' \in Nat
    <3>1. offset' = 0 \/ \E u \in backlog : offset' = u + 1
      BY <1>2, <1>3
    <3> QED BY <1>1, <3>1 DEF Known
  <2> QED BY <1>1, <2>1 DEF Larger
<1>5. ASSUME NEW u \in backlog, u < reached PROVE u < offset'
  <2>1. {v \in backlog : v <= u} \subseteq Below(reached)
    <3>1. u \in Nat /\ backlog \subseteq Nat
      BY <1>1 DEF Known
    <3>2. \A v \in backlog : v <= u => v < reached
      BY <1>1, <1>5, <3>1
    <3> QED BY <3>2, Zenon DEF Below
  <2>2. Cardinality({v \in backlog : v <= u}) <= Limit
    <3>1. Below(reached) \in SUBSET Known
      BY <1>1 DEF Below
    <3>2. /\ Cardinality({v \in backlog : v <= u}) <= Cardinality(Below(reached))
          /\ Cardinality({v \in backlog : v <= u}) \in Nat /\ Cardinality(Below(reached)) \in Nat
      BY <2>1, <3>1, Counts DEF Inv
    <3> QED BY <3>2, TelegramAssumption DEF Inv, WindowInv
  <2>3. u \in L
    BY <2>2 DEF Lowest
  <2> HIDE DEF L
  <2> QED BY <1>1, <1>2, <1>3, <2>3 DEF Known
<1>6. Cardinality(Below(reached')) <= Limit
  <2>1. CASE reached' = reached
    BY <2>1 DEF Inv, WindowInv
  <2>2. CASE reached' # reached
    <3>1. reached' = offset'
      BY <1>1, <2>2 DEF Larger
    <3>2. PICK u \in L : offset' = u + 1
      BY <1>1, <1>2, <2>2, <3>1 DEF Larger
    <3>3. u \in Nat /\ backlog \subseteq Nat
      <4>1. backlog \subseteq Nat
        BY <1>1 DEF Known
      <4> QED BY <1>3, <3>2, <4>1
    <3>4. Below(reached') = {v \in backlog : v <= u}
      <4>1. \A v \in backlog : v < reached' <=> v <= u
        BY <3>1, <3>2, <3>3
      <4> QED BY <4>1 DEF Below
    <3>5. Cardinality({v \in backlog : v <= u}) <= Limit
      BY <3>2 DEF Lowest
    <3> QED BY <3>4, <3>5
  <2> QED BY <2>1, <2>2
<1>7. ASSUME NEW u \in backlog, u >= offset' PROVE u >= reached'
  <2>1. u \in Nat
    BY <1>1 DEF Known
  <2> QED BY <1>1, <1>4, <1>5, <1>7, <2>1 DEF Larger
<1>8. WindowInv'
  <2>1. Below(reached)' = Below(reached')
    BY <1>1 DEF Below
  <2> QED BY <1>1, <1>6, <1>7, <2>1 DEF WindowInv
<1>9. BatchInv' /\ CurrentInv'
  BY <1>1 DEF BatchInv, CurrentInv, Working, Processing
<1>10. OnceInv'
  <2>1. \A u \in Known : u < reached => u < reached'
    BY <1>1, <1>4 DEF Known
  <2>2. published \in Seq(Known) /\ owed \cup answered \subseteq Known
    BY DEF Inv, TypeOK
  <2> QED BY <1>1, <2>1, <2>2 DEF Inv, OnceInv, Processing
<1> QED BY <1>8, <1>9, <1>10 DEF IntakeInv

(* The answer to a request: what is below the offset is forgotten, and     *)
(* nothing above it has been reached.                                      *)
LEMMA PollIntake ==
  ASSUME Inv, Poll
  PROVE  IntakeInv'
<1>1. /\ pc = "poll" /\ backlog' = {u \in backlog : u >= offset}
      /\ batch' = InOrder(Lowest(backlog', Limit)) /\ Resume(batch')
      /\ UNCHANGED <<update, offset, owed, published, answered, reached>>
      /\ reached \in Nat /\ Len(update) \in Nat /\ backlog \subseteq Known
  BY DEF Poll, Inv, TypeOK
<1>2. /\ Ascending(batch')
      /\ \A i \in DOMAIN batch' :
           batch'[i] \in backlog' /\ Cardinality({v \in backlog' : v <= batch'[i]}) <= Limit
  <2>1. TypeOK' /\ backlog' \in SUBSET backlog
    BY <1>1, TypeStep DEF Next, Inv
  <2> QED BY <1>1, <2>1, AnswerHolds DEF Inv
<1>3. \A u \in backlog' : u >= reached /\ u \in Nat
  BY <1>1 DEF Inv, WindowInv, Known
<1>4. WindowInv'
  <2>1. Below(reached)' = {}
    BY <1>1, <1>3 DEF Below
  <2>2. Cardinality(Below(reached)') = 0
    BY <2>1, FS_EmptySet
  <2>3. 0 <= Limit
    BY TelegramAssumption
  <2> QED BY <1>1, <1>3, <2>2, <2>3 DEF WindowInv
<1>5. BatchInv'
  <2>1. \A i \in DOMAIN batch' : UpTo(batch[i])' = {v \in backlog' : v <= batch'[i]}
    BY DEF UpTo
  <2>2. pc' = "work" => batch' # <<>>
    BY <1>1 DEF Resume
  <2> QED BY <1>1, <1>2, <1>3, <2>1, <2>2 DEF BatchInv, Ascending
<1>6. CurrentInv' /\ OnceInv'
  BY <1>1 DEF Inv, CurrentInv, OnceInv, Processing, Resume
<1> QED BY <1>4, <1>5, <1>6 DEF IntakeInv

(* The next update of the answer: the offset and all there was move above  *)
(* it, and it is not further from the lowest than Limit.                   *)
LEMMA TakeIntake ==
  ASSUME Inv, Take
  PROVE  IntakeInv'
<1> DEFINE h == Head(batch)
<1>1. /\ h \in Known /\ h >= reached /\ offset' = h + 1 /\ reached' = h + 1
      /\ batch' = Tail(batch) /\ batch \in Seq(Known) /\ batch # <<>>
      /\ reached \in Nat /\ Len(update) \in Nat
  BY TakenUpdate
<1>2. /\ UNCHANGED <<update, backlog, published, owed, answered>>
      /\ pc' \in {"placeholder", "publish"} \/ Resume(Tail(batch))
      /\ pc = "work" /\ backlog \subseteq Known
  BY DEF Take, Resume, Inv, TypeOK
<1>3. /\ \A i \in DOMAIN batch' : i + 1 \in DOMAIN batch /\ batch'[i] = batch[i + 1] /\ i \in Nat \ {0}
      /\ 1 \in DOMAIN batch /\ batch[1] = h
  BY <1>1
<1>4. \A i \in DOMAIN batch' : batch'[i] > h /\ batch'[i] \in Known
  BY <1>1, <1>2, <1>3 DEF Inv, BatchInv, Working, Known
<1> HIDE DEF h
<1>5. h \in Nat /\ backlog \subseteq Nat
  BY <1>1, <1>2 DEF Known
<1>6. WindowInv'
  <2>1. \A v \in backlog : v < reached' <=> v <= h
    BY <1>1, <1>5
  <2>2. Below(reached)' = UpTo(h)
    BY <1>2, <2>1 DEF Below, UpTo
  <2>3. Cardinality(UpTo(h)) <= Limit
    BY <1>2, <1>3 DEF Inv, BatchInv, Working
  <2>4. \A u \in backlog' : u >= offset' => u >= reached'
    BY <1>1
  <2> QED BY <2>2, <2>3, <2>4 DEF WindowInv
<1>7. BatchInv'
  <2>1. ASSUME NEW i \in DOMAIN batch', NEW j \in DOMAIN batch', i < j PROVE batch'[i] < batch'[j]
    BY <1>2, <1>3, <2>1 DEF Inv, BatchInv, Working
  <2>2. ASSUME NEW i \in DOMAIN batch'
        PROVE  batch'[i] >= reached' /\ Cardinality(UpTo(batch[i])') <= Limit
    <3>1. UpTo(batch[i])' = UpTo(batch[i + 1])
      BY <1>2, <1>3 DEF UpTo
    <3>2. Cardinality(UpTo(batch[i + 1])) <= Limit
      BY <1>2, <1>3 DEF Inv, BatchInv, Working
    <3>3. batch'[i] >= h + 1
      BY <1>4, <1>5 DEF Known
    <3> QED BY <1>1, <3>1, <3>2, <3>3
  <2>3. pc' = "work" => batch' # <<>>
    BY <1>1, <1>2 DEF Resume
  <2> QED BY <2>1, <2>2, <2>3 DEF BatchInv
<1>8. CurrentInv'
  BY <1>1, <1>2, <1>5 DEF CurrentInv, Current, Known
<1>9. OnceInv'
  <2>1. /\ \A i \in DOMAIN published : published[i] < h /\ published[i] < h + 1
        /\ \A u \in owed \cup answered : u < h + 1
    <3>1. published \in Seq(Nat) /\ owed \cup answered \subseteq Nat
      BY <1>1 DEF Inv, TypeOK, Known
    <3> QED BY <1>1, <1>5, <3>1 DEF Inv, OnceInv
  <2>2. Current' = h
    BY <1>1, <1>5 DEF Current
  <2> QED BY <1>1, <1>2, <2>1, <2>2 DEF Inv, OnceInv
<1> QED BY <1>6, <1>7, <1>8, <1>9 DEF IntakeInv

(* The task goes on with the same update or the same answer.               *)
LEMMA WorkIntake ==
  ASSUME Inv, Processing, UNCHANGED <<update, backlog, offset, batch, reached, answered>>,
         \/ Processing' /\ UNCHANGED <<published, owed>>
         \/ /\ Resume(batch)
            /\ \/ UNCHANGED <<published, owed>>
               \/ published' = Append(published, Current) /\ owed' = owed \cup {Current}
  PROVE  IntakeInv'
<1>1. /\ pc' = "poll" => ~Processing'
      /\ Working /\ (pc' = "work" => batch # <<>>) /\ (pc' = "poll" \/ Working' \/ pc' = "down")
      /\ published \in Seq(Known) /\ Len(update) \in Nat /\ reached \in Nat
      /\ offset = reached /\ Current \in Known /\ Current < reached
  BY DEF Inv, TypeOK, Working, Processing, Resume, CurrentInv, Current, Known
<1>2. WindowInv'
  BY <1>1 DEF Inv, WindowInv, Below, Working
<1>3. BatchInv'
  BY <1>1 DEF Inv, BatchInv, UpTo, Working
<1>4. CurrentInv'
  BY <1>1 DEF Inv, CurrentInv, Current, Known
<1>5. OnceInv'
  <2>1. CASE UNCHANGED <<published, owed>>
    BY <1>1, <2>1 DEF Inv, OnceInv, Current
  <2>2. CASE ~Processing' /\ published' = Append(published, Current) /\ owed' = owed \cup {Current}
    <3>1. ASSUME NEW i \in DOMAIN published'
          PROVE  \/ i \in DOMAIN published /\ published'[i] = published[i] /\ published[i] < Current
                 \/ i = Len(published) + 1 /\ published'[i] = Current
      BY <1>1, <2>2 DEF Inv, OnceInv
    <3>2. \A i \in DOMAIN published' : published'[i] < reached
      BY <1>1, <3>1 DEF Inv, OnceInv
    <3>3. ASSUME NEW i \in DOMAIN published', NEW j \in DOMAIN published', i < j
          PROVE  published'[i] < published'[j]
      <4>1. j = Len(published) + 1 \/ j \in DOMAIN published
        BY <3>1
      <4>2. i \in DOMAIN published
        BY <1>1, <3>1, <3>3, <4>1
      <4> QED BY <1>1, <3>1, <3>3, <4>2 DEF Inv, OnceInv
    <3> QED BY <1>1, <2>2, <3>2, <3>3 DEF Inv, OnceInv
  <2> QED BY <2>1, <2>2 DEF Resume, Processing
<1> QED BY <1>2, <1>3, <1>4, <1>5 DEF IntakeInv

LEMMA IntakeStep ==
  ASSUME Inv, [Next]_vars
  PROVE  IntakeInv'
<1>1. CASE Start
  BY <1>1, IntakeQuiet DEF Start
<1>2. CASE LoopEnds
  BY <1>2, IntakeQuiet DEF LoopEnds
<1>3. CASE PostPlaceholder
  BY <1>3, WorkIntake DEF PostPlaceholder, Processing
<1>4. CASE Publish
  BY <1>4, WorkIntake DEF Publish, Processing
<1>5. CASE Lose
  BY <1>5, WorkIntake DEF Lose, Processing
<1>6. ASSUME NEW u \in owed, SendReply(u) PROVE IntakeInv'
  BY <1>6, IntakeQuiet DEF SendReply
<1>7. CASE SendText
  BY <1>7, IntakeQuiet DEF SendText
<1>8. CASE Stop
  BY <1>8, IntakeQuiet DEF Stop
<1>9. CASE Crash
  BY <1>9, IntakeQuiet DEF Crash
<1>10. CASE UNCHANGED vars
  BY <1>10, IntakeQuiet DEF vars
<1> QED
  BY <1>1, <1>2, <1>3, <1>4, <1>5, <1>6, <1>7, <1>8, <1>9, <1>10,
     ArriveIntake, ProbeIntake, PollIntake, TakeIntake DEF Next

-----------------------------------------------------------------------------
(* What the chats show. *)

ChatInv == EditsOnlyPlaceholders /\ TypingIsOwed

(* Who has a chat keeps it.                                                *)
LEMMA ChatKept ==
  ASSUME TypeOK, Arrive \/ update' = update
  PROVE  Known \subseteq Known' /\ \A u \in Known : Chat(u)' = Chat(u) /\ Chat(u) \in Chats
<1>1. ASSUME NEW u \in Known PROVE Chat(u) \in Chats
  <2>1. update[u] \in Content
    BY TelegramAssumption DEF TypeOK, Known
  <2> QED BY <2>1 DEF Chat, Content
<1>2. CASE Arrive
  <2>1. PICK c \in Contents : update' = Append(update, c)
    BY <1>2 DEF Arrive
  <2>2. update \in Seq(Contents)
    BY DEF TypeOK
  <2> QED BY <1>1, <2>1, <2>2 DEF Chat, Known
<1>3. CASE update' = update
  BY <1>1, <1>3 DEF Chat, Known
<1> QED BY <1>2, <1>3

(* Steps that add no chat to those with a typing loop, answer nothing and  *)
(* leave the "Thinking..." messages alone.                                 *)
LEMMA ChatQuiet ==
  ASSUME Inv, Arrive \/ update' = update,
         typing' \subseteq typing, reached' \in Nat, reached' >= reached,
         UNCHANGED <<placeholder, thinking, answered>>
  PROVE  ChatInv'
<1> USE DEF Inv
<1>1. Known \subseteq Known' /\ \A u \in Known : Chat(u)' = Chat(u) /\ Chat(u) \in Chats
  BY ChatKept
<1>2. \A c \in Chats : placeholder[c] \in Known \cup {None}
  BY DEF TypeOK, Optional
<1>3. ASSUME NEW c \in Chats, placeholder'[c] # None
      PROVE  placeholder'[c] \in thinking' /\ Chat(placeholder[c])' = c
  <2>1. placeholder[c] \in Known /\ placeholder[c] \in thinking /\ Chat(placeholder[c]) = c
    BY <1>2, <1>3 DEF EditsOnlyPlaceholders
  <2>2. Chat(placeholder[c])' = update'[placeholder[c]].chat
    BY DEF Chat
  <2> QED BY <1>1, <2>1, <2>2 DEF Chat
<1>4. EditsOnlyPlaceholders'
  BY <1>3 DEF EditsOnlyPlaceholders
<1>5. ASSUME NEW c \in typing'
      PROVE  \E u \in Known' \ answered' :
               /\ Chat(u)' = c /\ u < reached'
               /\ \A v \in answered' : Chat(v)' = c => v < u
  <2>1. PICK u \in Known \ answered :
          Chat(u) = c /\ u < reached /\ \A v \in answered : Chat(v) = c => v < u
    BY <1>5 DEF TypingIsOwed
  <2>2. u < reached' /\ answered \subseteq Known
    BY <2>1 DEF TypeOK, Known
  <2> QED BY <1>1, <2>1, <2>2
<1>6. TypingIsOwed'
  BY <1>5 DEF TypingIsOwed
<1> QED BY <1>4, <1>6 DEF ChatInv

(* The message that starts a typing loop is newer than all that was        *)
(* answered.                                                               *)
LEMMA TakeChat ==
  ASSUME Inv, Take
  PROVE  ChatInv'
<1> DEFINE h == Head(batch)
<1>1. h \in Known /\ h >= reached /\ reached' = h + 1 /\ reached \in Nat /\ Len(update) \in Nat
  BY TakenUpdate
<1>2. /\ UNCHANGED <<update, placeholder, thinking, answered>>
      /\ typing' \subseteq typing \cup {Chat(h)}
  BY DEF Take, Chat
<1> HIDE DEF h
<1>3. EditsOnlyPlaceholders'
  BY <1>2 DEF Inv, EditsOnlyPlaceholders, Chat
<1>4. answered \subseteq Known /\ \A v \in answered : v < reached
  BY DEF Inv, TypeOK, OnceInv
<1>5. \A u \in Known : Chat(u)' = Chat(u)
  BY <1>2 DEF Chat
<1>6. ASSUME NEW c \in typing'
      PROVE  \E u \in Known \ answered :
               /\ Chat(u) = c /\ u < reached'
               /\ \A v \in answered : Chat(v) = c => v < u
  <2>1. CASE c \in typing
    <3>1. PICK u \in Known \ answered :
            Chat(u) = c /\ u < reached /\ \A v \in answered : Chat(v) = c => v < u
      BY <2>1 DEF Inv, TypingIsOwed
    <3>2. u < reached'
      BY <1>1, <3>1 DEF Known
    <3> QED BY <3>1, <3>2
  <2>2. CASE c = Chat(h)
    <3>1. h < reached' /\ \A v \in answered : v < h
      BY <1>1, <1>4 DEF Known
    <3>2. h \notin answered
      BY <1>1, <3>1 DEF Known
    <3> QED BY <1>1, <2>2, <3>1, <3>2
  <2> QED BY <1>2, <2>1, <2>2
<1>7. TypingIsOwed'
  BY <1>2, <1>5, <1>6 DEF TypingIsOwed, Known, Chat
<1> QED BY <1>3, <1>7 DEF ChatInv

LEMMA PlaceholderChat ==
  ASSUME Inv, PostPlaceholder
  PROVE  ChatInv'
<1>1. UNCHANGED <<update, typing, answered, reached>> /\ Current \in Known
  BY DEF Inv, CurrentInv, PostPlaceholder, Processing
<1>2. TypingIsOwed'
  BY <1>1 DEF Inv, TypingIsOwed, Chat, Known
<1>3. ASSUME NEW c \in Chats, placeholder'[c] # None
      PROVE  placeholder'[c] \in thinking' /\ update[placeholder'[c]].chat = c
  <2>1. CASE UNCHANGED <<placeholder, thinking>>
    BY <1>3, <2>1 DEF Inv, EditsOnlyPlaceholders, Chat
  <2>2. CASE /\ placeholder' = [placeholder EXCEPT ![Chat(Current)] = Current]
             /\ thinking' = thinking \cup {Current}
    <3>1. CASE c = Chat(Current)
      BY <2>2, <3>1 DEF Inv, TypeOK, Chat
    <3>2. CASE c # Chat(Current)
      BY <1>3, <2>2, <3>2 DEF Inv, TypeOK, EditsOnlyPlaceholders, Chat
    <3> QED BY <3>1, <3>2
  <2> QED BY <2>1, <2>2 DEF PostPlaceholder
<1>4. EditsOnlyPlaceholders'
  BY <1>1, <1>3 DEF EditsOnlyPlaceholders, Chat
<1> QED BY <1>2, <1>4 DEF ChatInv

(* A reply ends the typing loop of its chat.                               *)
LEMMA ReplyChat ==
  ASSUME Inv, NEW x \in owed, SendReply(x)
  PROVE  ChatInv'
<1>1. UNCHANGED <<update, placeholder, thinking, reached>>
  BY DEF SendReply
<1>2. EditsOnlyPlaceholders'
  BY <1>1 DEF Inv, EditsOnlyPlaceholders, Chat
<1>3. \/ typing' = typing /\ answered' = answered
      \/ typing' = typing \ {Chat(x)} /\ answered' = answered \cup {x}
  BY DEF SendReply
<1>4. ASSUME NEW c \in typing'
      PROVE  \E u \in Known \ answered' :
               /\ Chat(u) = c /\ u < reached
               /\ \A v \in answered' : Chat(v) = c => v < u
  <2>1. PICK u \in Known \ answered :
          Chat(u) = c /\ u < reached /\ \A v \in answered : Chat(v) = c => v < u
    BY <1>3 DEF Inv, TypingIsOwed
  <2> QED BY <1>3, <2>1
<1>5. TypingIsOwed'
  BY <1>1, <1>4 DEF TypingIsOwed, Chat, Known
<1> QED BY <1>2, <1>5 DEF ChatInv

(* The message a reply replaces is remembered for its chat only.           *)
LEMMA TextChat ==
  ASSUME Inv, SendText
  PROVE  ChatInv'
<1>1. UNCHANGED <<update, typing, answered, reached>> /\ sending \in Known
  BY DEF Inv, TypeOK, SendText, Optional
<1>2. TypingIsOwed'
  BY <1>1 DEF Inv, TypingIsOwed, Chat, Known
<1> DEFINE d == Chat(sending)
<1>3. /\ thinking \ {placeholder[d]} \subseteq thinking'
      /\ placeholder' = [placeholder EXCEPT ![d] = None]
  BY DEF SendText
<1> HIDE DEF d
<1>4. ASSUME NEW c \in Chats, placeholder'[c] # None
      PROVE  placeholder'[c] \in thinking' /\ update[placeholder'[c]].chat = c
  <2>1. c # d /\ placeholder'[c] = placeholder[c]
    BY <1>3, <1>4 DEF Inv, TypeOK
  <2>2. placeholder[c] \in thinking /\ Chat(placeholder[c]) = c
    BY <1>4, <2>1 DEF Inv, EditsOnlyPlaceholders
  <2>3. placeholder[c] # placeholder[d]
    <3>1. d \in Chats
      BY <1>1, ChatKept DEF Inv, d
    <3>2. placeholder[d] # None => Chat(placeholder[d]) = d
      BY <3>1 DEF Inv, EditsOnlyPlaceholders
    <3> QED BY <1>4, <2>1, <2>2, <3>2
  <2> QED BY <1>3, <2>1, <2>2, <2>3 DEF Chat
<1>5. EditsOnlyPlaceholders'
  BY <1>1, <1>4 DEF EditsOnlyPlaceholders, Chat
<1> QED BY <1>2, <1>5 DEF ChatInv

LEMMA CrashChat ==
  ASSUME Inv, Crash
  PROVE  ChatInv'
BY DEF Inv, Crash, ChatInv, EditsOnlyPlaceholders, TypingIsOwed, Chat

LEMMA ChatStep ==
  ASSUME Inv, [Next]_vars
  PROVE  ChatInv'
<1>1. reached \in Nat /\ reached' \in Nat
  BY TypeStep DEF Inv, TypeOK
<1>2. CASE Arrive
  BY <1>1, <1>2, ChatQuiet DEF Arrive
<1>3. CASE Start
  BY <1>1, <1>3, ChatQuiet DEF Start
<1>4. CASE Probe
  BY <1>1, <1>4, ChatQuiet DEF Probe, Larger
<1>5. CASE Poll
  BY <1>1, <1>5, ChatQuiet DEF Poll
<1>6. CASE LoopEnds
  BY <1>1, <1>6, ChatQuiet DEF LoopEnds
<1>7. CASE Publish
  BY <1>1, <1>7, ChatQuiet DEF Publish
<1>8. CASE Lose
  BY <1>1, <1>8, ChatQuiet DEF Lose
<1>9. CASE Stop
  BY <1>1, <1>9, ChatQuiet DEF Stop
<1>10. CASE UNCHANGED vars
  BY <1>1, <1>10, ChatQuiet DEF vars
<1> QED
  BY <1>2, <1>3, <1>4, <1>5, <1>6, <1>7, <1>8, <1>9, <1>10,
     TakeChat, PlaceholderChat, ReplyChat, TextChat, CrashChat DEF Next

-----------------------------------------------------------------------------
LEMMA Inductive == Inv /\ [Next]_vars => Inv'
BY TypeStep, IntakeStep, ChatStep DEF Inv, IntakeInv, ChatInv

(* What users see of the bot is true: a remembered "Thinking..." message   *)
(* is one, and a chat in which the bot shows itself typing has a message   *)
(* it has not answered.                                                    *)
THEOREM BotShowsTheTruth == Spec => []ChatsAreTrue
<1>1. Inv => ChatsAreTrue
  BY DEF Inv, ChatsAreTrue
<1> QED BY InitHolds, Inductive, <1>1, PTL DEF Spec

-----------------------------------------------------------------------------
(* Telegram implements Intake. *)

Handed(u) == \E i \in DOMAIN published : published[i] = u

(* What was passed over, and what was not, of the updates that are known   *)
(* and were not handed over.                                               *)
Passed(u) == u < reached /\ ~(Processing /\ u = Current)

LEMMA Fates ==
  ASSUME NEW u
  PROVE  /\ u \notin Known /\ ~Handed(u) => Fate(u) = "unsent"
         /\ u \in Known /\ Handed(u) => Fate(u) = "handed over"
         /\ u \in Known /\ ~Handed(u) /\ Passed(u) => Fate(u) = "passed over"
         /\ u \in Known /\ ~Handed(u) /\ ~Passed(u) => Fate(u) = "waiting"
BY DEF Fate, Handed, Passed

LEMMA FatesNext ==
  ASSUME NEW u
  PROVE  /\ u \notin Known' /\ ~Handed(u)' => Fate(u)' = "unsent"
         /\ u \in Known' /\ Handed(u)' => Fate(u)' = "handed over"
         /\ u \in Known' /\ ~Handed(u)' /\ Passed(u)' => Fate(u)' = "passed over"
         /\ u \in Known' /\ ~Handed(u)' /\ ~Passed(u)' => Fate(u)' = "waiting"
BY DEF Fate, Handed, Passed

(* Nothing is handed over or sent: updates can only be passed over.        *)
fates == [u \in Ids |-> Fate(u)]

LEMMA PassesOver ==
  ASSUME Inv, UNCHANGED <<update, published>>,
         \A u \in Known : Passed(u) => Passed(u)'
  PROVE  [Mailbox!Next]_<<fates, published>>
<1> DEFINE S == {u \in Ids : Fate(u) = "waiting" /\ Fate(u)' = "passed over"}
<1>1. Known' = Known /\ \A u : (Handed(u)' <=> Handed(u)) /\ (Handed(u) => u \in Known)
  BY DEF Known, Handed, Inv, TypeOK
<1>2. ASSUME NEW u \in Ids PROVE Fate(u)' = Fate(u) \/ u \in S
  BY <1>1, Fates, FatesNext
<1>3. fates' = [u \in Ids |-> IF u \in S THEN "passed over" ELSE fates[u]]
  <2>1. ASSUME NEW u \in Ids PROVE Fate(u)' = IF u \in S THEN "passed over" ELSE Fate(u)
    BY <1>2
  <2> HIDE DEF S
  <2> QED BY <2>1 DEF fates
<1>4. S \in SUBSET Mailbox!Waiting
  BY DEF Mailbox!Waiting
<1>5. CASE S = {}
  BY <1>3, <1>5 DEF fates
<1>6. CASE S # {}
  <2>1. Mailbox!PassOver(S)
    BY <1>3, <1>4, <1>6 DEF Mailbox!PassOver, fates
  <2> QED BY <1>4, <2>1 DEF Mailbox!Next
<1> QED BY <1>5, <1>6

LEMMA ArriveSends ==
  ASSUME Inv, Arrive
  PROVE  Mailbox!Next
<1> PICK n \in Nat : n = Len(update) + 1
  BY DEF Inv, TypeOK
<1>1. /\ Len(update') = n /\ Len(update) \in Nat /\ n \in Ids /\ reached <= n
      /\ Known' = Known \cup {n} /\ n \notin Known
      /\ UNCHANGED <<published, pc, offset, reached>>
      /\ published \in Seq(Known) /\ reached \in Nat
  BY DEF Arrive, Inv, TypeOK, Ids, Known
<1>2. ASSUME NEW u PROVE (Handed(u)' <=> Handed(u)) /\ (Passed(u)' <=> Passed(u))
  BY <1>1 DEF Handed, Passed, Processing, Current
<1>3. \A u : Handed(u) => u \in Known
  BY <1>1 DEF Handed
<1>4. ~Passed(n)
  BY <1>1 DEF Passed
<1>5. Fate(n) = "unsent" /\ Fate(n)' = "waiting"
  <2>1. Fate(n) = "unsent"
    BY <1>1, <1>3, Fates
  <2>2. Fate(n)' = "waiting"
    BY <1>1, <1>2, <1>3, <1>4, FatesNext
  <2> QED BY <2>1, <2>2
<1>6. ASSUME NEW u \in Ids, u # n PROVE Fate(u)' = Fate(u)
  BY <1>1, <1>2, <1>3, <1>6, Fates, FatesNext
<1>7. ASSUME NEW u \in Ids, u < n PROVE Fate(u) # "unsent"
  <2>1. u \in Known
    BY <1>1, <1>7 DEF Known, Ids
  <2> QED BY <2>1, Fates
<1>8. fates' = [fates EXCEPT ![n] = "waiting"]
  BY <1>1, <1>5, <1>6 DEF fates
<1>9. Mailbox!Arrive(n)
  BY <1>1, <1>5, <1>7, <1>8 DEF Mailbox!Arrive, fates
<1> QED BY <1>1, <1>9 DEF Mailbox!Next

LEMMA PublishHandsOver ==
  ASSUME Inv, Publish
  PROVE  Mailbox!Next
<1> PICK h \in Known : h = Current
  BY DEF Publish, Inv, CurrentInv, Processing
<1>1. /\ published' = Append(published, h) /\ published \in Seq(Known)
      /\ UNCHANGED <<update, offset, reached>> /\ Known' = Known
      /\ h \in Known /\ h \in Ids /\ reached = h + 1 /\ Processing /\ ~Processing'
      /\ Known \subseteq Ids /\ Known \subseteq Nat
  BY DEF Publish, Inv, TypeOK, CurrentInv, Processing, Current, Known, Ids, Resume
<1>2. ~Handed(h) /\ ~Passed(h)
  BY <1>1 DEF Inv, OnceInv, Handed, Passed
<1>3. \A u : (Handed(u)' <=> Handed(u) \/ u = h) /\ (Handed(u) => u \in Known)
  BY <1>1 DEF Handed
<1>4. ASSUME NEW u \in Known, u # h PROVE (Passed(u)' <=> Passed(u)) /\ (~Passed(u) => h <= u)
  BY <1>1, <1>4 DEF Passed
<1>5. Fate(h) = "waiting" /\ Fate(h)' = "handed over"
  BY <1>1, <1>2, <1>3, Fates, FatesNext
<1>6. ASSUME NEW u \in Ids, u # h PROVE Fate(u)' = Fate(u) /\ (Fate(u) = "waiting" => h <= u)
  BY <1>1, <1>3, <1>4, <1>6, Fates, FatesNext
<1>7. fates' = [fates EXCEPT ![h] = "handed over"]
  BY <1>1, <1>5, <1>6 DEF fates
<1>8. Mailbox!HandOver(h)
  <2>1. \A u \in Ids : Fate(u) = "waiting" => h <= u
    BY <1>1, <1>6 DEF Ids
  <2> QED BY <1>1, <1>5, <1>7, <2>1 DEF Mailbox!HandOver, Mailbox!Waiting, fates
<1> QED BY <1>1, <1>8 DEF Mailbox!Next

(* What was passed over stays so: the offset there was never falls, and    *)
(* the task takes nothing below it.                                        *)
LEMMA PassedStays ==
  ASSUME Inv, [Next]_vars, ~Arrive, ~Publish,
         NEW u \in Known, Passed(u)
  PROVE  Passed(u)'
<1>1. reached \in Nat /\ Len(update) \in Nat /\ u \in Nat /\ reached' \in Nat /\ offset' \in Nat
  <2>1. TypeOK'
    BY TypeStep
  <2> QED BY <2>1 DEF Inv, TypeOK, Known
<1>2. CASE Take
  <2>1. Head(batch) >= reached /\ offset' = Head(batch) + 1 /\ reached' = Head(batch) + 1 /\ Head(batch) \in Nat
    BY <1>2, TakenUpdate DEF Known
  <2>2. u < Head(batch)
    BY <1>1, <2>1 DEF Passed
  <2>3. Current' = Head(batch)
    BY <2>1 DEF Current
  <2> QED BY <1>1, <2>1, <2>2, <2>3 DEF Passed
<1>3. CASE ~Take
  <2>1. reached' >= reached
    <3>1. CASE Probe
      BY <1>1, <3>1 DEF Probe, Larger
    <3>2. CASE Start \/ Poll \/ LoopEnds \/ PostPlaceholder \/ Lose
      <4>1. reached' = reached
        BY <3>2 DEF Start, Poll, LoopEnds, PostPlaceholder, Lose
      <4> QED BY <1>1, <4>1
    <3>3. CASE (\E v \in owed : SendReply(v)) \/ SendText \/ Stop \/ Crash \/ UNCHANGED vars
      BY <1>1, <3>3 DEF SendReply, SendText, Stop, Crash, vars
    <3> QED BY <1>3, <3>1, <3>2, <3>3 DEF Next
  <2>2. Processing' => Processing /\ Current' = Current
    <3>1. CASE Start \/ Probe \/ LoopEnds \/ Crash \/ Lose \/ Poll
      BY <3>1 DEF Start, Probe, LoopEnds, Crash, Lose, Poll, Resume, Processing
    <3>2. CASE PostPlaceholder
      BY <3>2 DEF PostPlaceholder, Processing, Current
    <3>3. CASE SendText \/ Stop \/ (\E v \in owed : SendReply(v)) \/ UNCHANGED vars
      BY <3>3 DEF SendText, Stop, SendReply, vars, Processing, Current
    <3> QED BY <1>3, <3>1, <3>2, <3>3 DEF Next
  <2> QED BY <1>1, <2>1, <2>2 DEF Passed
<1> QED BY <1>2, <1>3

LEMMA MailboxInit == Init => Mailbox!Init
BY DEF Init, Mailbox!Init, Fate, Known

LEMMA MailboxStep ==
  ASSUME Inv, [Next]_vars
  PROVE  [Mailbox!Next]_<<fates, published>>
<1>1. CASE Arrive
  BY <1>1, ArriveSends
<1>2. CASE Publish
  BY <1>2, PublishHandsOver
<1>3. CASE ~Arrive /\ ~Publish
  <2>1. UNCHANGED <<update, published>>
    BY <1>3 DEF Next, vars, Start, Probe, Poll, LoopEnds, Take, PostPlaceholder, Lose, SendReply,
                SendText, Stop, Crash
  <2> QED BY <1>3, <2>1, PassedStays, PassesOver
<1> QED BY <1>1, <1>2, <1>3

(* An update reaches the bus at most once and in the order of arrival, and *)
(* none that was passed over does, across stops, crashes and starts.       *)
THEOREM UpdatesAreTakenOnce == Spec => ImplementsIntake
<1>1. Inv /\ [Next]_vars => [Mailbox!Next]_<<[u \in Ids |-> Fate(u)], published>>
  BY MailboxStep DEF fates
<1> QED BY InitHolds, Inductive, MailboxInit, <1>1, PTL DEF Spec, ImplementsIntake, Mailbox!Spec

-----------------------------------------------------------------------------
(* The access token of Feishu.  An open request is no older than Timeout,  *)
(* and a post is begun with a token that lives longer than that.           *)
FeishuInv ==
  /\ FeishuTypeOK /\ TokenIsAlive /\ cached \in [expires : Nat, ends : Nat]
  /\ sendStep # "idle" => clock <= sentAt + Timeout
  /\ sendStep = "issued" => sentAt + Life <= token /\ token <= clock + Life
  /\ sendStep = "posting" => sentAt + Timeout < token

LEMMA FeishuStep ==
  ASSUME FeishuInv, FeishuNext
  PROVE  FeishuInv'
<1>1. /\ Life \in Nat /\ Slack \in Nat /\ Timeout \in Nat /\ MaxClock \in Nat
      /\ 2 * Timeout <= Slack /\ 2 * Timeout < Life
  BY FeishuAssumption
<1>2. /\ clock \in Nat /\ sentAt \in Nat /\ token \in Nat /\ cached \in [expires : Nat, ends : Nat]
      /\ clock <= MaxClock /\ sentAt <= clock /\ token <= MaxClock + Life
  BY <1>1 DEF FeishuInv, FeishuTypeOK
<1> USE DEF FeishuInv, FeishuTypeOK, TokenIsAlive
<1>3. CASE Second
  BY <1>1, <1>2, <1>3 DEF Second
<1>4. CASE BeginSend
  <2>1. CASE Fresh
    <3>1. cached.ends + Timeout >= cached.expires /\ cached.expires > clock + Slack
      BY <2>1, <1>1, <1>2 DEF Fresh
    <3>2. cached.ends > clock + Timeout /\ cached.ends <= MaxClock + Life
      BY <3>1, <1>1, <1>2
    <3>3. /\ sentAt' = clock /\ sendStep' = "posting" /\ token' = cached.ends
          /\ UNCHANGED <<clock, cached, refused>>
      BY <2>1, <1>4 DEF BeginSend
    <3> QED BY <3>2, <3>3, <1>1, <1>2
  <2>2. CASE ~Fresh
    BY <2>2, <1>1, <1>2, <1>4 DEF BeginSend
  <2> QED BY <2>1, <2>2
<1>5. CASE Issue
  BY <1>1, <1>2, <1>5 DEF Issue
<1>6. CASE Refreshed
  <2>1. /\ cached' = [expires |-> clock + Life, ends |-> token] /\ sendStep' = "posting" /\ sentAt' = clock
        /\ UNCHANGED <<clock, token, refused>> /\ sendStep = "issued"
    BY <1>6 DEF Refreshed
  <2>2. sentAt + Life <= token /\ token <= clock + Life /\ clock <= sentAt + Timeout
    BY <2>1
  <2>3. clock + Timeout < token /\ clock + Life <= token + Timeout /\ clock + Life <= MaxClock + Life
    BY <2>2, <1>1, <1>2
  <2> QED BY <2>1, <2>2, <2>3, <1>1, <1>2
<1>7. CASE Posted
  BY <1>1, <1>2, <1>7 DEF Posted
<1>8. CASE SendFails
  BY <1>1, <1>2, <1>8 DEF SendFails
<1> QED BY <1>3, <1>4, <1>5, <1>6, <1>7, <1>8 DEF FeishuNext

(* No message is posted with a dead token, however slow the answer with    *)
(* the token and the post are, while the slack is twice a request's time   *)
(* (feishu.rs, get_access_token and send).                                 *)
THEOREM TokensLiveLongEnough == FeishuSpec => []TokensAreAlive
<1>1. FeishuInit => FeishuInv
  <2> SUFFICES ASSUME FeishuInit PROVE FeishuInv
    OBVIOUS
  <2>1. /\ clock = 0 /\ sentAt = 0 /\ token = 0 /\ sendStep = "idle" /\ refused = FALSE
        /\ cached = [expires |-> 0, ends |-> 0] /\ cached.expires = 0 /\ cached.ends = 0
    BY DEF FeishuInit
  <2>2. cached \in [expires : Nat, ends : Nat]
    BY <2>1
  <2>3. 0 \in 0..MaxClock /\ 0 \in 0 .. MaxClock + Life /\ 0 \in 0..0 /\ 0 <= 0 + Timeout
    BY FeishuAssumption
  <2> QED BY <2>1, <2>2, <2>3 DEF FeishuInv, FeishuTypeOK, TokenIsAlive
<1>2. FeishuInv /\ [FeishuNext]_feishuVars => FeishuInv'
  <2>1. FeishuInv /\ UNCHANGED feishuVars => FeishuInv'
    BY DEF feishuVars, FeishuInv, FeishuTypeOK, TokenIsAlive
  <2> QED BY <2>1, FeishuStep
<1>3. FeishuInv => TokensAreAlive
  BY DEF FeishuInv, TokensAreAlive
<1> QED BY <1>1, <1>2, <1>3, PTL DEF FeishuSpec

-----------------------------------------------------------------------------
(* The Discord channel. *)

OnTheWay(m) == m = handling \/ \E i \in DOMAIN incoming : incoming[i] = m

(* What comes in is in order, after the message being handled, which is    *)
(* after all that the bus was told.                                        *)
DiscordOrder ==
  /\ handling # 0 <=> loop = "handle"
  /\ \A i, j \in DOMAIN incoming : i < j => incoming[i] < incoming[j]
  /\ \A i \in DOMAIN incoming : handling < incoming[i] /\ \A t \in Told : t < incoming[i]
  /\ handling # 0 => \A t \in Told : t < handling

DiscordInv == DiscordTypeOK /\ DiscordOrder /\ DiscordTypingIsOwed

LEMMA DiscordInitHolds == DiscordInit => DiscordInv
<1> SUFFICES ASSUME DiscordInit PROVE DiscordInv
  OBVIOUS
<1> USE DiscordAssumption
<1>1. DiscordTypeOK
  <2>1. written \in Seq(Writes) /\ Len(written) = 0 /\ incoming \in Seq(Seen) /\ told \in Seq(Seen)
    BY DEF DiscordInit
  <2>2. handling \in {0} \cup Seen /\ delay \in 1..MaxDelay /\ session \in 0..MaxSessions
    BY DEF DiscordInit
  <2>3. enabled \in BOOLEAN
    BY DEF DiscordInit
  <2> QED BY <2>1, <2>2, <2>3 DEF DiscordInit, DiscordTypeOK
<1>2. DiscordOrder /\ DiscordTypingIsOwed
  BY DEF DiscordInit, DiscordOrder, DiscordTypingIsOwed, Told
<1> QED BY <1>1, <1>2 DEF DiscordInv

(* The queue after its first message was taken.                            *)
LEMMA DiscordQueue ==
  ASSUME DiscordInv, incoming # <<>>
  PROVE  /\ Head(incoming) \in Seen /\ Tail(incoming) \in Seq(Seen)
         /\ Head(incoming) = incoming[1] /\ 1 \in DOMAIN incoming
         /\ \A i \in DOMAIN Tail(incoming) :
              i + 1 \in DOMAIN incoming /\ Tail(incoming)[i] = incoming[i + 1] /\ i \in Nat \ {0}
BY DEF DiscordInv, DiscordTypeOK

LEMMA DiscordTypeStep ==
  ASSUME DiscordInv, [DiscordNext]_discordVars
  PROVE  DiscordTypeOK'
<1> USE DiscordAssumption DEF DiscordInv, Seen, Sessions
<1>1. CASE UserWrites
  <2>1. PICK w \in Writes : written' = Append(written, w)
    BY <1>1 DEF UserWrites
  <2>2. /\ Len(written') = Len(written) + 1 /\ Len(written) \in Nat /\ written' \in Seq(Writes)
        /\ Len(written') <= MaxWritten
    BY <1>1, <2>1 DEF UserWrites, DiscordTypeOK
  <2>3. Seen \subseteq Seen' /\ Len(written') \in Seen'
    BY <2>2
  <2>4. incoming \in Seq(Seen') /\ told \in Seq(Seen')
    <3> HIDE DEF Seen
    <3>1. \A s \in Seq(Seen) : s \in Seq(Seen')
      BY <2>3
    <3> QED BY <3>1 DEF DiscordTypeOK
  <2>5. incoming' \in Seq(Seen')
    <3>1. incoming' = incoming \/ incoming' = Append(incoming, Len(written'))
      BY <1>1 DEF UserWrites
    <3> HIDE DEF Seen
    <3> QED BY <2>3, <2>4, <3>1
  <2>6. Told' = Told
    BY <1>1 DEF UserWrites, Told
  <2> QED BY <1>1, <2>2, <2>3, <2>4, <2>5, <2>6 DEF UserWrites, DiscordTypeOK
<1>2. CASE Break
  BY <1>2 DEF Break, DiscordTypeOK, Told
<1>3. CASE Open
  BY <1>3 DEF Open, DiscordTypeOK, Told
<1>4. ASSUME NEW ok \in BOOLEAN, Again(ok)
      PROVE  delay' \in 1..MaxDelay /\ loop' \in {"wait", "down"}
  BY <1>4 DEF Again, DiscordTypeOK
<1>5. CASE Connect
  <2>1. incoming' \in Seq(Seen) /\ session' \in 1..MaxSessions
    BY <1>5 DEF Connect, DiscordTypeOK
  <2>2. delay' \in 1..MaxDelay /\ loop' \in {"top", "wait", "down"}
    BY <1>4, <1>5 DEF Connect, DiscordTypeOK
  <2>3. alive' \subseteq Sessions /\ writing' \subseteq Sessions
    BY <1>5, <2>1 DEF Connect, DiscordTypeOK
  <2> QED BY <1>5, <2>1, <2>2, <2>3 DEF Connect, DiscordTypeOK, Told
<1>6. CASE Wake
  BY <1>6 DEF Wake, DiscordTypeOK, Told
<1>7. CASE Quit
  BY <1>7 DEF Quit, DiscordTypeOK, Told
<1>8. CASE Top
  BY <1>8 DEF Top, Leave, DiscordTypeOK, Told
<1>9. CASE Hello
  BY <1>9 DEF Hello, DiscordTypeOK, Told
<1>10. CASE Message
  <2>1. handling' \in Seen /\ incoming' \in Seq(Seen)
    BY <1>10, DiscordQueue DEF Message
  <2>2. written[handling'] \in Writes
    BY <2>1 DEF DiscordTypeOK
  <2> QED BY <1>10, <2>1, <2>2 DEF Message, DiscordTypeOK, Told
<1>11. CASE Handle
  <2>1. handling \in Seen /\ told \in Seq(Seen)
    BY <1>11 DEF Handle, DiscordOrder, DiscordTypeOK
  <2>2. told' = told \/ told' = Append(told, handling)
    BY <1>11 DEF Handle
  <2>3. told' \in Seq(Seen) /\ Told \subseteq Told'
    <3> HIDE DEF Seen
    <3> QED BY <2>1, <2>2 DEF Told
  <2> QED BY <1>11, <2>3 DEF Handle, DiscordTypeOK
<1>12. CASE Reconnect
  BY <1>12 DEF Reconnect, Leave, DiscordTypeOK, Told
<1>13. CASE Drop
  BY <1>4, <1>13 DEF Drop, DiscordTypeOK, Told
<1>14. CASE Closed
  BY <1>4, <1>14 DEF Closed, DiscordTypeOK, Told
<1>15. ASSUME NEW s \in Sessions, WriterEnds(s) \/ BeatFails(s) PROVE DiscordTypeOK'
  BY <1>15 DEF WriterEnds, BeatFails, DiscordTypeOK, Told
<1>16. ASSUME NEW m \in Told, Reply(m) PROVE DiscordTypeOK'
  BY <1>16 DEF Reply, DiscordTypeOK, Told
<1>17. CASE UNCHANGED discordVars
  BY <1>17 DEF discordVars, DiscordTypeOK, Told
<1> QED
  BY <1>1, <1>2, <1>3, <1>5, <1>6, <1>7, <1>8, <1>9, <1>10, <1>11, <1>12, <1>13, <1>14, <1>15,
     <1>16, <1>17 DEF DiscordNext

(* A step that adds nothing to the queue, keeps the order.                 *)
LEMMA DiscordQuiet ==
  ASSUME DiscordInv, UNCHANGED <<written, told, handling, replied>>,
         incoming' = incoming \/ incoming' = <<>>, typists' \subseteq typists,
         loop = "handle" <=> loop' = "handle"
  PROVE  DiscordOrder' /\ DiscordTypingIsOwed'
<1>1. DiscordOrder'
  BY DEF DiscordInv, DiscordOrder, Told
<1>2. DiscordTypingIsOwed'
  BY DEF DiscordInv, DiscordTypingIsOwed, Seen
<1> QED BY <1>1, <1>2

LEMMA DiscordOrderStep ==
  ASSUME DiscordInv, [DiscordNext]_discordVars
  PROVE  DiscordOrder' /\ DiscordTypingIsOwed'
<1>1. CASE UserWrites
  <2> PICK n \in Nat : n = Len(written)
    BY DEF DiscordInv, DiscordTypeOK
  <2>1. PICK w \in Writes : written' = Append(written, w)
    BY <1>1 DEF UserWrites
  <2>2. /\ Len(written') = n + 1 /\ \A m \in Seen : m \in 1..n /\ written'[m] = written[m]
        /\ UNCHANGED <<told, handling, replied, loop, typists>>
    BY <1>1, <2>1 DEF UserWrites, DiscordInv, DiscordTypeOK, Seen
  <2>3. incoming' = incoming \/ incoming' = Append(incoming, n + 1)
    BY <1>1, <2>2 DEF UserWrites
  <2>4. incoming \in Seq(1..n) /\ handling \in 0..n /\ Told \subseteq 1..n /\ Told' = Told
    BY <2>2 DEF DiscordInv, DiscordTypeOK, Seen, Told
  <2>5. ASSUME NEW i \in DOMAIN incoming'
        PROVE  \/ i \in DOMAIN incoming /\ incoming'[i] = incoming[i] /\ incoming[i] \in 1..n
               \/ i = Len(incoming) + 1 /\ incoming'[i] = n + 1
    BY <2>3, <2>4
  <2>6. ASSUME NEW i \in DOMAIN incoming', NEW j \in DOMAIN incoming', i < j
        PROVE  incoming'[i] < incoming'[j]
    <3>1. i \in DOMAIN incoming
      <4>1. Len(incoming) \in Nat /\ DOMAIN incoming = 1..Len(incoming)
        BY <2>4
      <4>2. i \in 1 .. Len(incoming) + 1 /\ j \in 1 .. Len(incoming) + 1
        BY <2>5, <4>1
      <4> QED BY <2>6, <4>1, <4>2
    <3>2. i # Len(incoming) + 1
      BY <2>4, <3>1
    <3>3. incoming'[i] = incoming[i] /\ incoming[i] \in 1..n
      BY <2>5, <3>2
    <3> QED BY <2>5, <2>6, <3>1, <3>3 DEF DiscordInv, DiscordOrder
  <2>7. ASSUME NEW i \in DOMAIN incoming'
        PROVE  handling < incoming'[i] /\ \A t \in Told : t < incoming'[i]
    <3>1. CASE i \in DOMAIN incoming /\ incoming'[i] = incoming[i]
      BY <3>1 DEF DiscordInv, DiscordOrder
    <3>2. CASE incoming'[i] = n + 1
      BY <2>4, <3>2
    <3> QED BY <2>5, <3>1, <3>2
  <2>8. DiscordOrder'
    BY <2>2, <2>4, <2>6, <2>7 DEF DiscordInv, DiscordOrder
  <2>9. ASSUME NEW c \in typists
        PROVE  \E m \in Seen' \ replied :
                 written'[m].chat = c /\ \A k \in replied : written'[k].chat = c => k < m
    <3>1. PICK m \in Seen \ replied :
            written[m].chat = c /\ \A k \in replied : written[k].chat = c => k < m
      BY DEF DiscordInv, DiscordTypingIsOwed
    <3>2. replied \subseteq Seen /\ Seen \subseteq Seen'
      <4>1. replied \subseteq Told /\ Seen = 1..n /\ Seen' = 1..n + 1
        BY <2>2 DEF DiscordInv, DiscordTypeOK, Seen
      <4> QED BY <2>4, <4>1
    <3> QED BY <2>2, <3>1, <3>2
  <2>10. DiscordTypingIsOwed'
    BY <2>2, <2>9 DEF DiscordTypingIsOwed
  <2> QED BY <2>8, <2>10
<1>2. CASE Break
  BY <1>2, DiscordQuiet DEF Break
<1>3. CASE Open
  BY <1>3, DiscordQuiet DEF Open
<1>4. CASE Connect
  BY <1>4, DiscordQuiet DEF Connect, Again
<1>5. CASE Wake
  BY <1>5, DiscordQuiet DEF Wake
<1>6. CASE Quit
  BY <1>6, DiscordQuiet DEF Quit
<1>7. CASE Top
  BY <1>7, DiscordQuiet DEF Top, Leave
<1>8. CASE Hello
  BY <1>8, DiscordQuiet DEF Hello
<1>9. CASE Message
  <2> PICK h \in Seen : h = Head(incoming)
    BY <1>9, DiscordQueue DEF Message
  <2>1. /\ h = incoming[1] /\ 1 \in DOMAIN incoming /\ h \in Nat \ {0}
        /\ UNCHANGED <<written, told, replied>> /\ Told' = Told
        /\ handling' = h /\ incoming' = Tail(incoming) /\ loop' = "handle"
        /\ typists' = typists \cup {written[h].chat}
    BY <1>9, DiscordQueue DEF Message, Told, Seen
  <2>2. ASSUME NEW i \in DOMAIN incoming'
        PROVE  i + 1 \in DOMAIN incoming /\ incoming'[i] = incoming[i + 1] /\ i \in Nat \ {0}
    BY <1>9, <2>1, DiscordQueue DEF Message
  <2>3. ASSUME NEW i \in DOMAIN incoming', NEW j \in DOMAIN incoming', i < j
        PROVE  incoming'[i] < incoming'[j]
    <3>1. i + 1 < j + 1
      BY <2>2, <2>3
    <3> QED BY <2>2, <3>1 DEF DiscordInv, DiscordOrder
  <2>4. ASSUME NEW i \in DOMAIN incoming'
        PROVE  h < incoming'[i] /\ \A t \in Told : t < incoming'[i]
    <3>1. 1 < i + 1
      BY <2>2
    <3> QED BY <2>1, <2>2, <3>1 DEF DiscordInv, DiscordOrder
  <2>5. \A t \in Told : t < h
    BY <2>1 DEF DiscordInv, DiscordOrder
  <2>6. DiscordOrder'
    BY <2>1, <2>3, <2>4, <2>5 DEF DiscordOrder
  <2>7. DiscordTypingIsOwed'
    <3>1. replied \subseteq Told /\ \A k \in replied : k < h
      BY <2>5 DEF DiscordInv, DiscordTypeOK
    <3>2. h \notin replied
      BY <2>1, <3>1
    <3>3. ASSUME NEW c \in typists'
          PROVE  \E m \in Seen \ replied :
                   written[m].chat = c /\ \A k \in replied : written[k].chat = c => k < m
      BY <2>1, <3>1, <3>2 DEF DiscordInv, DiscordTypingIsOwed
    <3> QED BY <2>1, <3>3 DEF DiscordTypingIsOwed, Seen
  <2> QED BY <2>6, <2>7
<1>10. CASE Handle
  <2>1. /\ handling # 0 /\ handling' = 0 /\ loop' = "top" /\ UNCHANGED <<incoming, written, replied, typists>>
        /\ incoming \in Seq(Seen) /\ told \in Seq(Seen) /\ handling \in Seen
    BY <1>10 DEF Handle, DiscordInv, DiscordOrder, DiscordTypeOK
  <2>2. told' = told \/ told' = Append(told, handling)
    BY <1>10 DEF Handle
  <2>3. Told' \subseteq Told \cup {handling}
    <3> HIDE DEF Seen
    <3> QED BY <2>1, <2>2 DEF Told
  <2>4. \A i \in DOMAIN incoming : 0 < incoming[i]
    BY <2>1 DEF Seen
  <2>5. DiscordOrder'
    BY <2>1, <2>3, <2>4 DEF DiscordInv, DiscordOrder
  <2>6. DiscordTypingIsOwed'
    BY <2>1 DEF DiscordInv, DiscordTypingIsOwed, Seen
  <2> QED BY <2>5, <2>6
<1>11. CASE Reconnect
  BY <1>11, DiscordQuiet DEF Reconnect, Leave
<1>12. CASE Drop
  BY <1>12, DiscordQuiet DEF Drop, Again
<1>13. CASE Closed
  BY <1>13, DiscordQuiet DEF Closed, Again
<1>14. ASSUME NEW s \in Sessions, WriterEnds(s) \/ BeatFails(s)
       PROVE  DiscordOrder' /\ DiscordTypingIsOwed'
  BY <1>14, DiscordQuiet DEF WriterEnds, BeatFails
<1>15. ASSUME NEW x \in Told, Reply(x) PROVE DiscordOrder' /\ DiscordTypingIsOwed'
  <2>1. /\ UNCHANGED <<incoming, handling, loop, told, written>>
        /\ replied' = replied \cup {x} /\ typists' = typists \ {written[x].chat}
    BY <1>15 DEF Reply
  <2>2. DiscordOrder'
    BY <2>1 DEF DiscordInv, DiscordOrder, Told
  <2>3. ASSUME NEW c \in typists'
        PROVE  \E m \in Seen \ replied' :
                 written[m].chat = c /\ \A k \in replied' : written[k].chat = c => k < m
    <3>1. c \in typists /\ c # written[x].chat
      BY <2>1
    <3>2. PICK m \in Seen \ replied :
            written[m].chat = c /\ \A k \in replied : written[k].chat = c => k < m
      BY <3>1 DEF DiscordInv, DiscordTypingIsOwed
    <3> QED BY <2>1, <3>1, <3>2
  <2>4. DiscordTypingIsOwed'
    BY <2>1, <2>3 DEF DiscordTypingIsOwed, Seen
  <2> QED BY <2>2, <2>4
<1>16. CASE UNCHANGED discordVars
  BY <1>16, DiscordQuiet DEF discordVars
<1> QED
  BY <1>1, <1>2, <1>3, <1>4, <1>5, <1>6, <1>7, <1>8, <1>9, <1>10, <1>11, <1>12, <1>13, <1>14, <1>15,
     <1>16 DEF DiscordNext

LEMMA DiscordInductive == DiscordInv /\ [DiscordNext]_discordVars => DiscordInv'
BY DiscordTypeStep, DiscordOrderStep DEF DiscordInv

(* The bot shows itself typing in a Discord chat only while a message of   *)
(* that chat is unanswered and newer than all that was answered there      *)
(* (discord.rs, handle_message_create, send and stop).                     *)
THEOREM DiscordTypesForAReason == DiscordSpec => [](DiscordTypeOK /\ DiscordTypingIsOwed)
<1>1. DiscordInv => DiscordTypeOK /\ DiscordTypingIsOwed
  BY DEF DiscordInv
<1> QED BY DiscordInitHolds, DiscordInductive, <1>1, PTL DEF DiscordSpec

-----------------------------------------------------------------------------
(* Discord implements Intake. *)

Numbers == 1..MaxWritten

LEMMA DiscordFates ==
  ASSUME NEW m
  PROVE  /\ m \notin Seen => DiscordFate(m) = "unsent"
         /\ m \in Seen /\ m \in Told => DiscordFate(m) = "handed over"
         /\ m \in Seen /\ m \notin Told /\ OnTheWay(m) => DiscordFate(m) = "waiting"
         /\ m \in Seen /\ m \notin Told /\ ~OnTheWay(m) => DiscordFate(m) = "passed over"
BY DEF DiscordFate, OnTheWay

LEMMA DiscordFatesNext ==
  ASSUME NEW m
  PROVE  /\ m \notin Seen' => DiscordFate(m)' = "unsent"
         /\ m \in Seen' /\ m \in Told' => DiscordFate(m)' = "handed over"
         /\ m \in Seen' /\ m \notin Told' /\ OnTheWay(m)' => DiscordFate(m)' = "waiting"
         /\ m \in Seen' /\ m \notin Told' /\ ~OnTheWay(m)' => DiscordFate(m)' = "passed over"
BY DEF DiscordFate, OnTheWay

inboxFates == [m \in Numbers |-> DiscordFate(m)]

(* A step that brings nothing onto its way only passes messages over.      *)
LEMMA DiscordPassesOver ==
  ASSUME DiscordInv, UNCHANGED <<written, told>>,
         \A m \in Seen : OnTheWay(m)' => OnTheWay(m)
  PROVE  [Inbox!Next]_<<inboxFates, told>>
<1> DEFINE S == {m \in Numbers : DiscordFate(m) = "waiting" /\ DiscordFate(m)' = "passed over"}
<1>1. Seen' = Seen /\ Told' = Told
  BY DEF Seen, Told
<1>2. ASSUME NEW m \in Numbers PROVE DiscordFate(m)' = DiscordFate(m) \/ m \in S
  BY <1>1, DiscordFates, DiscordFatesNext
<1>3. inboxFates' = [m \in Numbers |-> IF m \in S THEN "passed over" ELSE inboxFates[m]]
  <2>1. ASSUME NEW m \in Numbers
        PROVE  DiscordFate(m)' = IF m \in S THEN "passed over" ELSE DiscordFate(m)
    BY <1>2
  <2> HIDE DEF S
  <2> QED BY <2>1 DEF inboxFates
<1>4. S \in SUBSET Inbox!Waiting
  BY DEF Inbox!Waiting, Numbers
<1>5. CASE S = {}
  BY <1>3, <1>5 DEF inboxFates
<1>6. CASE S # {}
  <2>1. Inbox!PassOver(S)
    BY <1>3, <1>4, <1>6 DEF Inbox!PassOver, inboxFates, Numbers
  <2> QED BY <1>4, <2>1 DEF Inbox!Next
<1> QED BY <1>5, <1>6

LEMMA DiscordArrives ==
  ASSUME DiscordInv, UserWrites
  PROVE  Inbox!Next
<1> PICK n \in Nat : n = Len(written) + 1
  BY DEF DiscordInv, DiscordTypeOK
<1>1. /\ n \in Numbers /\ Seen = 1..n - 1 /\ Seen' = 1..n /\ Told' = Told
      /\ UNCHANGED <<told, handling>> /\ Told \subseteq Seen
      /\ incoming \in Seq(Seen) /\ incoming' \in {incoming, Append(incoming, n)}
      /\ handling \in {0} \cup Seen
  <2>1. PICK w \in Writes : written' = Append(written, w)
    BY DEF UserWrites
  <2>2. Len(written') = n /\ written \in Seq(Writes) /\ Len(written) < MaxWritten /\ Len(written) \in Nat
    BY <2>1 DEF UserWrites, DiscordInv, DiscordTypeOK
  <2>3. incoming' \in {incoming, Append(incoming, n)}
    BY <2>2 DEF UserWrites
  <2> QED BY <2>2, <2>3, DiscordAssumption DEF UserWrites, DiscordInv, DiscordTypeOK, Seen, Told, Numbers
<1>2. ASSUME NEW m \in Seen PROVE OnTheWay(m)' <=> OnTheWay(m)
  <2>1. m # n
    BY <1>1
  <2>2. CASE incoming' = incoming
    BY <1>1, <2>2 DEF OnTheWay
  <2>3. CASE incoming' = Append(incoming, n)
    <3>1. /\ Len(incoming) \in Nat /\ DOMAIN incoming = 1..Len(incoming)
          /\ DOMAIN incoming' = 1 .. Len(incoming) + 1
          /\ incoming'[Len(incoming) + 1] = n
          /\ \A i \in DOMAIN incoming : incoming'[i] = incoming[i]
      BY <1>1, <2>3
    <3>2. (\E i \in DOMAIN incoming' : incoming'[i] = m) <=> \E i \in DOMAIN incoming : incoming[i] = m
      BY <2>1, <3>1
    <3> QED BY <1>1, <3>2 DEF OnTheWay
  <2> QED BY <1>1, <2>2, <2>3
<1>3. n \notin Told /\ n \notin Seen /\ n \in Seen'
  BY <1>1
<1>4. DiscordFate(n) = "unsent" /\ DiscordFate(n)' \in {"waiting", "passed over"}
  BY <1>1, <1>3, DiscordFates, DiscordFatesNext
<1>5. ASSUME NEW m \in Numbers, m # n PROVE DiscordFate(m)' = DiscordFate(m)
  <2>1. m \in Seen <=> m \in Seen'
    BY <1>1, <1>5 DEF Numbers
  <2> QED BY <1>1, <1>2, <2>1, DiscordFates, DiscordFatesNext
<1>6. ASSUME NEW m \in Numbers, m < n PROVE DiscordFate(m) # "unsent"
  <2>1. m \in Seen
    BY <1>1, <1>6 DEF Numbers
  <2> QED BY <2>1, DiscordFates
<1> PICK f \in {"waiting", "passed over"} : f = DiscordFate(n)'
  BY <1>4
<1>7. inboxFates' = [inboxFates EXCEPT ![n] = f]
  BY <1>1, <1>5 DEF inboxFates
<1>8. Inbox!Arrive(n)
  BY <1>1, <1>4, <1>6, <1>7 DEF Inbox!Arrive, inboxFates, Numbers
<1> QED BY <1>1, <1>8 DEF Inbox!Next, Numbers

(* The message being handled is the first of those that wait.              *)
LEMMA DiscordHandsOver ==
  ASSUME DiscordInv, Handle, told' = Append(told, handling)
  PROVE  Inbox!Next
<1> PICK h \in Seen : h = handling
  BY DEF Handle, DiscordInv, DiscordOrder, DiscordTypeOK
<1>1. /\ told' = Append(told, h) /\ told \in Seq(Seen) /\ UNCHANGED <<written, incoming>>
      /\ Seen' = Seen /\ handling' = 0 /\ h # 0 /\ h \in Numbers
      /\ Seen \subseteq Numbers /\ Seen \subseteq Nat /\ 0 \notin Seen
  BY DiscordAssumption DEF Handle, DiscordInv, DiscordOrder, DiscordTypeOK, Seen, Numbers
<1>2. Told' = Told \cup {h}
  <2> HIDE DEF Seen
  <2>1. /\ Len(told) \in Nat /\ DOMAIN told = 1..Len(told) /\ DOMAIN told' = 1 .. Len(told) + 1
        /\ told'[Len(told) + 1] = h /\ \A i \in DOMAIN told : told'[i] = told[i]
    BY <1>1
  <2> QED BY <2>1 DEF Told
<1>3. h \notin Told /\ OnTheWay(h)
  BY <1>1 DEF DiscordInv, DiscordOrder, OnTheWay
<1>4. ASSUME NEW m \in Seen, m # h
      PROVE  (OnTheWay(m)' <=> OnTheWay(m)) /\ (OnTheWay(m) => h <= m)
  BY <1>1, <1>4 DEF OnTheWay, DiscordInv, DiscordOrder
<1>5. DiscordFate(h) = "waiting" /\ DiscordFate(h)' = "handed over"
  BY <1>1, <1>2, <1>3, DiscordFates, DiscordFatesNext
<1>6. ASSUME NEW m \in Numbers, m # h
      PROVE  DiscordFate(m)' = DiscordFate(m) /\ (DiscordFate(m) = "waiting" => h <= m)
  BY <1>1, <1>2, <1>4, <1>6, DiscordFates, DiscordFatesNext
<1>7. inboxFates' = [inboxFates EXCEPT ![h] = "handed over"]
  BY <1>1, <1>5, <1>6 DEF inboxFates
<1>8. Inbox!HandOver(h)
  <2>1. \A m \in Numbers : DiscordFate(m) = "waiting" => h <= m
    BY <1>1, <1>6
  <2> QED BY <1>1, <1>5, <1>7, <2>1 DEF Inbox!HandOver, Inbox!Waiting, inboxFates, Numbers
<1> QED BY <1>1, <1>8 DEF Inbox!Next, Numbers

LEMMA DiscordInboxStep ==
  ASSUME DiscordInv, [DiscordNext]_discordVars
  PROVE  [Inbox!Next]_<<inboxFates, told>>
<1>1. CASE UserWrites
  BY <1>1, DiscordArrives
<1>2. CASE Handle
  <2>1. CASE told' = Append(told, handling)
    BY <1>2, <2>1, DiscordHandsOver
  <2>2. CASE told' = told
    <3>1. \A m \in Seen : OnTheWay(m)' => OnTheWay(m)
      BY <1>2 DEF Handle, OnTheWay, Seen
    <3> QED BY <1>2, <2>2, <3>1, DiscordPassesOver DEF Handle
  <2> QED BY <1>2, <2>1, <2>2 DEF Handle
<1>3. CASE Message
  <2>1. \A m \in Seen : OnTheWay(m)' => OnTheWay(m)
    BY <1>3, DiscordQueue DEF Message, OnTheWay
  <2> QED BY <1>3, <2>1, DiscordPassesOver DEF Message
<1>4. CASE /\ UNCHANGED <<written, told, handling>>
           /\ incoming' = incoming \/ incoming' = <<>>
  <2>1. \A m \in Seen : OnTheWay(m)' => OnTheWay(m)
    BY <1>4 DEF OnTheWay
  <2> QED BY <1>4, <2>1, DiscordPassesOver
<1>5. CASE Break
  BY <1>4, <1>5 DEF Break
<1>6. CASE Open
  BY <1>4, <1>6 DEF Open
<1>7. CASE Connect
  BY <1>4, <1>7 DEF Connect
<1>8. CASE Wake
  BY <1>4, <1>8 DEF Wake
<1>9. CASE Quit
  BY <1>4, <1>9 DEF Quit
<1>10. CASE Top
  BY <1>4, <1>10 DEF Top
<1>11. CASE Hello
  BY <1>4, <1>11 DEF Hello
<1>12. CASE Reconnect
  BY <1>4, <1>12 DEF Reconnect
<1>13. CASE Drop
  BY <1>4, <1>13 DEF Drop
<1>14. CASE Closed
  BY <1>4, <1>14 DEF Closed
<1>15. ASSUME NEW s \in Sessions, WriterEnds(s) \/ BeatFails(s)
       PROVE  [Inbox!Next]_<<inboxFates, told>>
  BY <1>4, <1>15 DEF WriterEnds, BeatFails
<1>16. ASSUME NEW m \in Told, Reply(m) PROVE [Inbox!Next]_<<inboxFates, told>>
  BY <1>4, <1>16 DEF Reply
<1>17. CASE UNCHANGED discordVars
  BY <1>4, <1>17 DEF discordVars
<1> QED
  BY <1>1, <1>2, <1>3, <1>5, <1>6, <1>7, <1>8, <1>9, <1>10, <1>11, <1>12, <1>13, <1>14, <1>15,
     <1>16, <1>17 DEF DiscordNext

LEMMA DiscordInboxInit == DiscordInit => Inbox!Init
<1> SUFFICES ASSUME DiscordInit PROVE Inbox!Init
  OBVIOUS
<1>1. Seen = {} /\ told = <<>>
  BY DEF DiscordInit, Seen
<1>2. \A m \in 1..MaxWritten : DiscordFate(m) = "unsent"
  BY <1>1, DiscordFates
<1> QED BY <1>1, <1>2 DEF Inbox!Init

LEMMA DiscordTakesOnce == DiscordSpec => DiscordImplementsIntake
<1>1. DiscordInv /\ [DiscordNext]_discordVars
        => [Inbox!Next]_<<[m \in 1..MaxWritten |-> DiscordFate(m)], told>>
  BY DiscordInboxStep DEF inboxFates, Numbers
<1> QED
  BY DiscordInitHolds, DiscordInductive, DiscordInboxInit, <1>1, PTL
     DEF DiscordSpec, DiscordImplementsIntake, Inbox!Spec

-----------------------------------------------------------------------------
(* The mail channel. *)

EmailTypeOK ==
  /\ mails \in Seq(Letters) /\ Len(mails) <= MaxMails
  /\ polling \in {"down", "wait", "fetch", "work"} /\ stopping \in BOOLEAN
  /\ seenMails \subseteq Mails /\ found \subseteq Mails
  /\ letters \in Seq(Mails) /\ taken \in Seq(Mails)

(* What was taken is seen and not found again; what is fetched is in order *)
(* and before everything that is still unseen, since the search found all  *)
(* that there was.                                                         *)
EmailOrder ==
  /\ found # {} => polling = "fetch"
  /\ letters # <<>> => polling = "work"
  /\ Taken \subseteq seenMails /\ Taken \cap found = {}
  /\ \A i, j \in DOMAIN letters : i < j => letters[i] < letters[j]
  /\ \A i \in DOMAIN letters : letters[i] \in seenMails \ Taken
  /\ \A m \in Mails \ seenMails :
       /\ \A i \in DOMAIN letters : letters[i] < m
       /\ m \in found \/ \A n \in found : n < m

EmailInv == EmailTypeOK /\ EmailOrder

LEMMA EmailInitHolds == EmailInit => EmailInv
<1> SUFFICES ASSUME EmailInit PROVE EmailInv
  OBVIOUS
<1>1. mails \in Seq(Letters) /\ Len(mails) <= MaxMails /\ letters \in Seq(Mails) /\ taken \in Seq(Mails)
  BY EmailAssumption DEF EmailInit
<1>2. EmailTypeOK
  BY <1>1 DEF EmailInit, EmailTypeOK
<1>3. EmailOrder
  BY DEF EmailInit, EmailOrder, Taken, Mails
<1> QED BY <1>2, <1>3 DEF EmailInv

(* The answer to a fetch.                                                  *)
LEMMA FetchedMails ==
  ASSUME EmailInv, NEW S \in SUBSET found
  PROVE  LET s == ByNumber(S)
         IN /\ s \in Seq(Mails) /\ \A i \in DOMAIN s : s[i] \in S
            /\ \A i, j \in DOMAIN s : i < j => s[i] < s[j]
<1> DEFINE E == [1..Cardinality(S) -> S]
           s == ByNumber(S)
<1>1. Len(mails) \in Nat /\ S \in SUBSET (0..Len(mails)) /\ S \subseteq Mails
  BY DEF EmailInv, EmailTypeOK, Mails
<1>2. Cardinality(S) \in Nat
  BY <1>1, BoundedIsFinite
<1>3. \E e \in E : Ascending(e)
  BY <1>1, Enumeration
<1>4. s \in E /\ Ascending(s)
  BY <1>3, Zenon DEF ByNumber, Ascending
<1>5. s \in Seq(Mails)
  <2>1. s \in [1..Cardinality(S) -> Mails]
    BY <1>1, <1>4
  <2> QED BY <1>2, <2>1
<1>6. \A i \in DOMAIN s : s[i] \in S
  BY <1>4
<1> QED BY <1>4, <1>5, <1>6 DEF Ascending

(* What is left of the letters after the first.                            *)
LEMMA LettersLeft ==
  ASSUME EmailInv, letters # <<>>
  PROVE  /\ Head(letters) \in Mails /\ Tail(letters) \in Seq(Mails)
         /\ Head(letters) = letters[1] /\ 1 \in DOMAIN letters
         /\ \A i \in DOMAIN Tail(letters) :
              i + 1 \in DOMAIN letters /\ Tail(letters)[i] = letters[i + 1] /\ i \in Nat \ {0}
<1> HIDE DEF Mails
<1> QED BY DEF EmailInv, EmailTypeOK

LEMMA EmailStep ==
  ASSUME EmailInv, [EmailNext]_emailVars
  PROVE  EmailInv'
<1>1. CASE MailArrives
  <2> PICK n \in Nat : n = Len(mails)
    BY DEF EmailInv, EmailTypeOK
  <2>1. PICK l \in Letters : mails' = Append(mails, l)
    BY <1>1 DEF MailArrives
  <2>2. /\ mails' \in Seq(Letters) /\ Mails = 1..n /\ Mails' = 1..n + 1 /\ n + 1 <= MaxMails
        /\ Len(mails') = n + 1
        /\ UNCHANGED <<seenMails, polling, found, letters, stopping, taken>> /\ Taken' = Taken
    BY <1>1, <2>1, EmailAssumption DEF MailArrives, EmailInv, EmailTypeOK, Mails, Taken
  <2>3. Mails \subseteq Mails' /\ \A m \in Mails : m < n + 1
    BY <2>2
  <2> HIDE DEF Mails
  <2>4. \A s \in Seq(Mails) : s \in Seq(Mails')
    BY <2>3
  <2>5. EmailTypeOK'
    BY <2>2, <2>3, <2>4 DEF EmailInv, EmailTypeOK
  <2>6. ASSUME NEW m \in Mails' \ seenMails
        PROVE  /\ \A i \in DOMAIN letters : letters[i] < m
               /\ m \in found \/ \A k \in found : k < m
    <3>1. CASE m \in Mails
      BY <2>6, <3>1 DEF EmailInv, EmailOrder
    <3>2. CASE m = n + 1
      <4>1. \A i \in DOMAIN letters : letters[i] \in Mails
        BY DEF EmailInv, EmailTypeOK
      <4>2. \A k \in found : k \in Mails
        BY DEF EmailInv, EmailTypeOK
      <4> QED BY <2>3, <3>2, <4>1, <4>2
    <3> QED BY <2>2, <3>1, <3>2
  <2>7. EmailOrder'
    BY <2>2, <2>6 DEF EmailInv, EmailOrder
  <2> QED BY <2>5, <2>7 DEF EmailInv
<1>2. CASE OwnerReads
  <2>1. PICK x \in Mails \ seenMails : seenMails' = seenMails \cup {x}
    BY <1>2 DEF OwnerReads
  <2>2. UNCHANGED <<mails, polling, found, letters, stopping, taken>> /\ Mails' = Mails /\ Taken' = Taken
    BY <1>2 DEF OwnerReads, Mails, Taken
  <2>3. EmailTypeOK'
    BY <2>1, <2>2 DEF EmailInv, EmailTypeOK
  <2>4. EmailOrder'
    BY <2>1, <2>2 DEF EmailInv, EmailOrder
  <2> QED BY <2>3, <2>4 DEF EmailInv
<1>3. CASE /\ UNCHANGED <<mails, seenMails, found, letters, taken>> /\ stopping' \in BOOLEAN
           /\ polling' \in {"down", "wait", "fetch", "work"}
           /\ found # {} => polling' = "fetch"
           /\ letters # <<>> => polling' = "work"
  <2>1. Mails' = Mails /\ Taken' = Taken
    BY <1>3 DEF Mails, Taken
  <2>2. EmailTypeOK' /\ EmailOrder'
    BY <1>3, <2>1 DEF EmailInv, EmailTypeOK, EmailOrder
  <2> QED BY <2>2 DEF EmailInv
<1>4. CASE EmailStart
  BY <1>3, <1>4 DEF EmailStart, EmailInv, EmailOrder
<1>5. CASE Search
  <2>1. /\ UNCHANGED <<mails, seenMails, letters, stopping, taken>> /\ Mails' = Mails /\ Taken' = Taken
        /\ found' = Mails \ seenMails /\ letters = <<>>
        /\ polling' = IF found' = {} THEN "wait" ELSE "fetch"
    BY <1>5 DEF Search, EmailInv, EmailOrder, Mails, Taken
  <2>2. EmailTypeOK'
    BY <2>1 DEF EmailInv, EmailTypeOK
  <2>3. EmailOrder'
    BY <2>1 DEF EmailInv, EmailOrder
  <2> QED BY <2>2, <2>3 DEF EmailInv
<1>6. CASE Fetch
  <2>1. /\ UNCHANGED <<mails, stopping, taken>> /\ Mails' = Mails /\ Taken' = Taken
        /\ seenMails' = seenMails \cup found /\ found' = {} /\ polling' = "work"
        /\ letters' = ByNumber({m \in found : mails[m].parses})
    BY <1>6 DEF Fetch, Mails, Taken
  <2>2. /\ letters' \in Seq(Mails) /\ \A i \in DOMAIN letters' : letters'[i] \in found
        /\ \A i, j \in DOMAIN letters' : i < j => letters'[i] < letters'[j]
    <3> DEFINE S == {m \in found : mails[m].parses}
    <3>1. S \in SUBSET found /\ letters' = ByNumber(S)
      BY <2>1
    <3> HIDE DEF S
    <3>2. /\ ByNumber(S) \in Seq(Mails) /\ \A i \in DOMAIN ByNumber(S) : ByNumber(S)[i] \in S
          /\ \A i, j \in DOMAIN ByNumber(S) : i < j => ByNumber(S)[i] < ByNumber(S)[j]
      BY <3>1, FetchedMails
    <3> QED BY <3>1, <3>2
  <2>3. EmailTypeOK'
    BY <2>1, <2>2 DEF EmailInv, EmailTypeOK
  <2>4. EmailOrder'
    BY <2>1, <2>2 DEF EmailInv, EmailOrder
  <2> QED BY <2>3, <2>4 DEF EmailInv
<1>7. CASE FetchFails
  <2>1. PICK S \in SUBSET found : seenMails' = seenMails \cup S
    BY <1>7 DEF FetchFails
  <2>2. /\ UNCHANGED <<mails, letters, stopping, taken>> /\ Mails' = Mails /\ Taken' = Taken
        /\ found' = {} /\ polling' = "wait" /\ letters = <<>>
    BY <1>7 DEF FetchFails, EmailInv, EmailOrder, Mails, Taken
  <2>3. EmailTypeOK'
    BY <2>1, <2>2 DEF EmailInv, EmailTypeOK
  <2>4. EmailOrder'
    BY <2>1, <2>2 DEF EmailInv, EmailOrder
  <2> QED BY <2>3, <2>4 DEF EmailInv
<1>8. CASE TakeLetter
  <2> PICK h \in Mails : h = Head(letters)
    BY <1>8, LettersLeft DEF TakeLetter
  <2>1. /\ h = letters[1] /\ 1 \in DOMAIN letters /\ letters' = Tail(letters) /\ letters' \in Seq(Mails)
        /\ UNCHANGED <<mails, seenMails, polling, found, stopping>> /\ Mails' = Mails
        /\ taken' = taken \/ taken' = Append(taken, h)
        /\ polling = "work" /\ taken \in Seq(Mails)
    BY <1>8, LettersLeft DEF TakeLetter, EmailInv, EmailTypeOK, Mails
  <2>2. ASSUME NEW i \in DOMAIN letters'
        PROVE  i + 1 \in DOMAIN letters /\ letters'[i] = letters[i + 1] /\ i \in Nat \ {0}
    BY <1>8, <2>1, LettersLeft DEF TakeLetter
  <2>3. taken' \in Seq(Mails) /\ Taken \subseteq Taken' /\ Taken' \subseteq Taken \cup {h}
    <3> HIDE DEF Mails
    <3>1. CASE taken' = taken
      BY <2>1, <3>1 DEF Taken
    <3>2. CASE taken' = Append(taken, h)
      <4>1. /\ Len(taken) \in Nat /\ DOMAIN taken = 1..Len(taken) /\ DOMAIN taken' = 1 .. Len(taken) + 1
            /\ taken'[Len(taken) + 1] = h /\ \A i \in DOMAIN taken : taken'[i] = taken[i]
            /\ taken' \in Seq(Mails)
        BY <2>1, <3>2
      <4> QED BY <4>1 DEF Taken
    <3> QED BY <2>1, <3>1, <3>2
  <2>4. EmailTypeOK'
    BY <2>1, <2>3 DEF EmailInv, EmailTypeOK
  <2>5. ASSUME NEW i \in DOMAIN letters', NEW j \in DOMAIN letters', i < j
        PROVE  letters'[i] < letters'[j]
    <3>1. i + 1 < j + 1
      BY <2>2, <2>5
    <3> QED BY <2>2, <3>1 DEF EmailInv, EmailOrder
  <2>6. ASSUME NEW i \in DOMAIN letters' PROVE letters'[i] \in seenMails \ Taken'
    <3>1. 1 < i + 1 /\ letters[1] < letters[i + 1]
      BY <2>1, <2>2 DEF EmailInv, EmailOrder
    <3>2. letters'[i] # h
      BY <2>1, <2>2, <3>1 DEF EmailInv, EmailTypeOK, Mails
    <3> QED BY <2>2, <2>3, <3>2 DEF EmailInv, EmailOrder
  <2>7. h \in seenMails /\ found = {}
    BY <2>1 DEF EmailInv, EmailOrder
  <2>8. ASSUME NEW m \in Mails \ seenMails, NEW i \in DOMAIN letters' PROVE letters'[i] < m
    BY <2>2 DEF EmailInv, EmailOrder
  <2>9. EmailOrder'
    BY <2>1, <2>3, <2>5, <2>6, <2>7, <2>8 DEF EmailInv, EmailOrder
  <2> QED BY <2>4, <2>9 DEF EmailInv
<1>9. CASE LettersDone
  BY <1>3, <1>9 DEF LettersDone, EmailInv, EmailTypeOK, EmailOrder
<1>10. CASE EmailStop
  BY <1>3, <1>10 DEF EmailStop, EmailInv, EmailTypeOK, EmailOrder
<1>11. CASE EmailStops
  BY <1>3, <1>11 DEF EmailStops, EmailInv, EmailTypeOK, EmailOrder
<1>12. CASE EmailCrash
  <2>1. /\ UNCHANGED <<mails, seenMails, stopping, taken>> /\ Mails' = Mails /\ Taken' = Taken
        /\ found' = {} /\ letters' = <<>> /\ polling' = "down"
    BY <1>12 DEF EmailCrash, Mails, Taken
  <2>2. letters' \in Seq(Mails)
    BY <2>1
  <2>3. EmailTypeOK'
    BY <2>1, <2>2 DEF EmailInv, EmailTypeOK
  <2>4. EmailOrder'
    BY <2>1 DEF EmailInv, EmailOrder
  <2> QED BY <2>3, <2>4 DEF EmailInv
<1>13. CASE UNCHANGED emailVars
  BY <1>3, <1>13 DEF emailVars, EmailInv, EmailTypeOK, EmailOrder
<1> QED
  BY <1>1, <1>2, <1>4, <1>5, <1>6, <1>7, <1>8, <1>9, <1>10, <1>11, <1>12, <1>13 DEF EmailNext

LEMMA EmailInductive == EmailInv /\ [EmailNext]_emailVars => EmailInv'
BY EmailStep

-----------------------------------------------------------------------------
(* The mail channel implements Intake. *)

MailNumbers == 1..MaxMails

MailWaits(m) == m \notin seenMails \/ m \in found \/ \E i \in DOMAIN letters : letters[i] = m

LEMMA MailFates ==
  ASSUME NEW m
  PROVE  /\ m \notin Mails => MailFate(m) = "unsent"
         /\ m \in Mails /\ m \in Taken => MailFate(m) = "handed over"
         /\ m \in Mails /\ m \notin Taken /\ MailWaits(m) => MailFate(m) = "waiting"
         /\ m \in Mails /\ m \notin Taken /\ ~MailWaits(m) => MailFate(m) = "passed over"
BY DEF MailFate, MailWaits

LEMMA MailFatesNext ==
  ASSUME NEW m
  PROVE  /\ m \notin Mails' => MailFate(m)' = "unsent"
         /\ m \in Mails' /\ m \in Taken' => MailFate(m)' = "handed over"
         /\ m \in Mails' /\ m \notin Taken' /\ MailWaits(m)' => MailFate(m)' = "waiting"
         /\ m \in Mails' /\ m \notin Taken' /\ ~MailWaits(m)' => MailFate(m)' = "passed over"
BY DEF MailFate, MailWaits

postboxFates == [m \in MailNumbers |-> MailFate(m)]

(* A step that makes no mail wait only passes mails over.                  *)
LEMMA EmailPassesOver ==
  ASSUME EmailInv, UNCHANGED <<mails, taken>>,
         \A m \in Mails : MailWaits(m)' => MailWaits(m)
  PROVE  [Postbox!Next]_<<postboxFates, taken>>
<1> DEFINE S == {m \in MailNumbers : MailFate(m) = "waiting" /\ MailFate(m)' = "passed over"}
<1>1. Mails' = Mails /\ Taken' = Taken
  BY DEF Mails, Taken
<1>2. ASSUME NEW m \in MailNumbers PROVE MailFate(m)' = MailFate(m) \/ m \in S
  BY <1>1, MailFates, MailFatesNext
<1>3. postboxFates' = [m \in MailNumbers |-> IF m \in S THEN "passed over" ELSE postboxFates[m]]
  <2>1. ASSUME NEW m \in MailNumbers
        PROVE  MailFate(m)' = IF m \in S THEN "passed over" ELSE MailFate(m)
    BY <1>2
  <2> HIDE DEF S
  <2> QED BY <2>1 DEF postboxFates
<1>4. S \in SUBSET Postbox!Waiting
  BY DEF Postbox!Waiting, MailNumbers
<1>5. CASE S = {}
  BY <1>3, <1>5 DEF postboxFates
<1>6. CASE S # {}
  <2>1. Postbox!PassOver(S)
    BY <1>3, <1>4, <1>6 DEF Postbox!PassOver, postboxFates, MailNumbers
  <2> QED BY <1>4, <2>1 DEF Postbox!Next
<1> QED BY <1>5, <1>6

LEMMA MailArrivesUnseen ==
  ASSUME EmailInv, MailArrives
  PROVE  Postbox!Next
<1> PICK n \in Nat : n = Len(mails) + 1
  BY DEF EmailInv, EmailTypeOK
<1>1. /\ n \in MailNumbers /\ Mails = 1..n - 1 /\ Mails' = 1..n /\ Taken' = Taken
      /\ UNCHANGED <<taken, seenMails, found, letters>>
      /\ Taken \subseteq Mails /\ seenMails \subseteq Mails
  <2>1. PICK l \in Letters : mails' = Append(mails, l)
    BY DEF MailArrives
  <2>2. Len(mails') = n /\ Len(mails) < MaxMails /\ Len(mails) \in Nat
    BY <2>1 DEF MailArrives, EmailInv, EmailTypeOK
  <2> QED BY <2>2, EmailAssumption DEF MailArrives, EmailInv, EmailTypeOK, Mails, Taken, MailNumbers
<1>2. \A m : MailWaits(m)' <=> MailWaits(m)
  BY <1>1 DEF MailWaits
<1>3. n \notin Taken /\ n \notin Mails /\ n \in Mails' /\ n \notin seenMails
  BY <1>1
<1>4. MailFate(n) = "unsent" /\ MailFate(n)' = "waiting"
  <2>1. MailWaits(n)'
    BY <1>2, <1>3 DEF MailWaits
  <2> QED BY <1>1, <1>3, <2>1, MailFates, MailFatesNext
<1>5. ASSUME NEW m \in MailNumbers, m # n PROVE MailFate(m)' = MailFate(m)
  <2>1. m \in Mails <=> m \in Mails'
    BY <1>1, <1>5 DEF MailNumbers
  <2> QED BY <1>1, <1>2, <2>1, MailFates, MailFatesNext
<1>6. ASSUME NEW m \in MailNumbers, m < n PROVE MailFate(m) # "unsent"
  <2>1. m \in Mails
    BY <1>1, <1>6 DEF MailNumbers
  <2> QED BY <2>1, MailFates
<1>7. postboxFates' = [postboxFates EXCEPT ![n] = "waiting"]
  BY <1>1, <1>4, <1>5 DEF postboxFates
<1>8. Postbox!Arrive(n)
  BY <1>1, <1>4, <1>6, <1>7 DEF Postbox!Arrive, postboxFates, MailNumbers
<1> QED BY <1>1, <1>8 DEF Postbox!Next, MailNumbers

(* The letter worked on is the first of the mails that wait: those fetched *)
(* with it are in order, and those unseen came later.                      *)
LEMMA LetterHandedOver ==
  ASSUME EmailInv, TakeLetter, taken' = Append(taken, Head(letters))
  PROVE  Postbox!Next
<1> PICK h \in Mails : h = Head(letters)
  BY LettersLeft DEF TakeLetter
<1>1. /\ taken' = Append(taken, h) /\ taken \in Seq(Mails) /\ UNCHANGED <<mails, seenMails, found>>
      /\ Mails' = Mails /\ letters' = Tail(letters) /\ found = {}
      /\ h = letters[1] /\ 1 \in DOMAIN letters /\ letters # <<>>
      /\ Mails \subseteq MailNumbers /\ Mails \subseteq Nat
  BY LettersLeft, EmailAssumption
     DEF TakeLetter, EmailInv, EmailTypeOK, EmailOrder, Mails, MailNumbers
<1>2. Taken' = Taken \cup {h}
  <2> HIDE DEF Mails
  <2>1. /\ Len(taken) \in Nat /\ DOMAIN taken = 1..Len(taken) /\ DOMAIN taken' = 1 .. Len(taken) + 1
        /\ taken'[Len(taken) + 1] = h /\ \A i \in DOMAIN taken : taken'[i] = taken[i]
    BY <1>1
  <2> QED BY <2>1 DEF Taken
<1>3. h \in seenMails /\ h \notin Taken /\ MailWaits(h)
  BY <1>1 DEF EmailInv, EmailOrder, MailWaits
<1>4. ASSUME NEW i \in DOMAIN letters, i # 1
      PROVE  /\ i - 1 \in DOMAIN letters' /\ letters'[i - 1] = letters[i] /\ h < letters[i]
  <2>1. /\ Len(letters) \in Nat /\ DOMAIN letters = 1..Len(letters)
        /\ Len(letters') = Len(letters) - 1 /\ DOMAIN letters' = 1 .. Len(letters) - 1
        /\ \A k \in DOMAIN letters' : letters'[k] = letters[k + 1]
    <3> HIDE DEF Mails
    <3>1. letters \in Seq(Mails)
      BY DEF EmailInv, EmailTypeOK
    <3> QED BY <1>1, <3>1
  <2>2. i - 1 \in DOMAIN letters' /\ 1 < i
    BY <1>4, <2>1
  <2>3. letters[1] < letters[i]
    BY <1>1, <2>2 DEF EmailInv, EmailOrder
  <2>4. letters'[i - 1] = letters[i - 1 + 1] /\ i - 1 + 1 = i
    BY <2>1, <2>2
  <2> QED BY <1>1, <2>2, <2>3, <2>4
<1>5. ASSUME NEW m \in Mails, m # h
      PROVE  (MailWaits(m)' <=> MailWaits(m)) /\ (MailWaits(m) => h <= m)
  <2>1. (\E i \in DOMAIN letters' : letters'[i] = m) => \E i \in DOMAIN letters : letters[i] = m
    BY <1>1, LettersLeft
  <2>2. (\E i \in DOMAIN letters : letters[i] = m)
          => /\ \E i \in DOMAIN letters' : letters'[i] = m
             /\ h <= m
    <3> SUFFICES ASSUME NEW i \in DOMAIN letters, letters[i] = m
                 PROVE  (\E k \in DOMAIN letters' : letters'[k] = m) /\ h <= m
      OBVIOUS
    <3>1. i # 1
      BY <1>1, <1>5
    <3>2. h < m
      BY <1>4, <3>1
    <3> QED BY <1>1, <1>4, <3>1, <3>2
  <2>3. m \notin seenMails => h < m
    BY <1>1 DEF EmailInv, EmailOrder
  <2>4. m \notin seenMails => h <= m
    BY <1>1, <2>3
  <2> QED BY <1>1, <2>1, <2>2, <2>4 DEF MailWaits
<1>6. MailFate(h) = "waiting" /\ MailFate(h)' = "handed over"
  BY <1>1, <1>2, <1>3, MailFates, MailFatesNext
<1>7. ASSUME NEW m \in MailNumbers, m # h
      PROVE  MailFate(m)' = MailFate(m) /\ (MailFate(m) = "waiting" => h <= m)
  BY <1>1, <1>2, <1>5, <1>7, MailFates, MailFatesNext
<1>8. postboxFates' = [postboxFates EXCEPT ![h] = "handed over"]
  BY <1>1, <1>6, <1>7 DEF postboxFates
<1>9. Postbox!HandOver(h)
  <2>1. \A m \in MailNumbers : MailFate(m) = "waiting" => h <= m
    BY <1>1, <1>7
  <2>2. h \in MailNumbers
    BY <1>1
  <2> QED BY <1>1, <1>6, <1>8, <2>1, <2>2 DEF Postbox!HandOver, Postbox!Waiting, postboxFates, MailNumbers
<1> QED BY <1>1, <1>9 DEF Postbox!Next, MailNumbers

LEMMA PostboxStep ==
  ASSUME EmailInv, [EmailNext]_emailVars
  PROVE  [Postbox!Next]_<<postboxFates, taken>>
<1>1. CASE MailArrives
  BY <1>1, MailArrivesUnseen
<1>2. CASE TakeLetter
  <2>1. CASE taken' = Append(taken, Head(letters))
    BY <1>2, <2>1, LetterHandedOver
  <2>2. CASE taken' = taken
    <3>1. \A m \in Mails : MailWaits(m)' => MailWaits(m)
      BY <1>2, LettersLeft DEF TakeLetter, MailWaits
    <3> QED BY <1>2, <2>2, <3>1, EmailPassesOver DEF TakeLetter
  <2> QED BY <1>2, <2>1, <2>2 DEF TakeLetter
<1>3. CASE ~MailArrives /\ ~TakeLetter
  <2>1. UNCHANGED <<mails, taken>>
    BY <1>3 DEF EmailNext, emailVars, OwnerReads, EmailStart, Search, Fetch, FetchFails, LettersDone,
                EmailStop, EmailStops, EmailCrash
  <2>2. \A m \in Mails : MailWaits(m)' => MailWaits(m)
    <3>1. CASE OwnerReads
      BY <3>1 DEF OwnerReads, MailWaits
    <3>2. CASE Search
      BY <3>2 DEF Search, MailWaits
    <3>3. CASE Fetch
      <4> DEFINE S == {m \in found : mails[m].parses}
      <4>1. S \in SUBSET found /\ letters' = ByNumber(S) /\ seenMails \subseteq seenMails' /\ found' = {}
        BY <3>3 DEF Fetch
      <4> HIDE DEF S
      <4>2. \A i \in DOMAIN letters' : letters'[i] \in found
        BY <4>1, FetchedMails
      <4> QED BY <4>1, <4>2 DEF MailWaits
    <3>4. CASE FetchFails
      BY <3>4 DEF FetchFails, MailWaits
    <3>5. CASE EmailCrash
      BY <3>5 DEF EmailCrash, MailWaits
    <3>6. CASE UNCHANGED <<seenMails, found, letters>>
      BY <3>6 DEF MailWaits
    <3> QED
      BY <1>3, <3>1, <3>2, <3>3, <3>4, <3>5, <3>6
         DEF EmailNext, emailVars, EmailStart, LettersDone, EmailStop, EmailStops
  <2> QED BY <2>1, <2>2, EmailPassesOver
<1> QED BY <1>1, <1>2, <1>3

LEMMA PostboxInit == EmailInit => Postbox!Init
<1> SUFFICES ASSUME EmailInit PROVE Postbox!Init
  OBVIOUS
<1>1. Mails = {} /\ taken = <<>>
  BY DEF EmailInit, Mails
<1>2. \A m \in 1..MaxMails : MailFate(m) = "unsent"
  BY <1>1, MailFates
<1> QED BY <1>1, <1>2 DEF Postbox!Init

LEMMA EmailTakesOnce == EmailSpec => EmailImplementsIntake
<1>1. EmailInv /\ [EmailNext]_emailVars
        => [Postbox!Next]_<<[m \in 1..MaxMails |-> MailFate(m)], taken>>
  BY PostboxStep DEF postboxFates, MailNumbers
<1> QED
  BY EmailInitHolds, EmailInductive, PostboxInit, <1>1, PTL
     DEF EmailSpec, EmailImplementsIntake, Postbox!Spec

(* What is fetched from the gateway and from the mailbox reaches the bus   *)
(* at most once and in the order it was sent in, and none that was passed  *)
(* over does, through broken connections, failed polls, crashes and starts *)
(* (discord.rs, run_gateway_session; email.rs, poll_inbox_blocking).       *)
THEOREM MessagesAreTakenOnce == PollersSpec => PollersImplementIntake
BY DiscordTakesOnce, EmailTakesOnce, PTL DEF PollersSpec, PollersImplementIntake

-----------------------------------------------------------------------------
(* How a text is cut (Outgoing).  Split is a recursive function; that it   *)
(* exists, and what it returns, is shown with a position at which either   *)
(* fails and after which neither does.                                     *)

Characters == {"letter", "space", "newline"}
Intervals == Nat \X Nat

LEMMA PartSizeIs == PartSize \in Nat \ {0}
BY OutgoingAssumption, Zenon

LEMMA LastOfIs ==
  ASSUME NEW text, NEW what, NEW a \in Nat \ {0}, NEW b \in Nat
  PROVE  \/ LastOf(text, what, a, b) = 0 /\ \A i \in a..b : text[i] # what
         \/ LastOf(text, what, a, b) \in a..b /\ text[LastOf(text, what, a, b)] = what
<1> DEFINE at == {i \in a..b : text[i] = what}
<1>1. CASE at = {}
  BY <1>1 DEF LastOf
<1>2. CASE at # {}
  <2>1. at \in SUBSET Nat /\ \A i \in at : i <= b
    OBVIOUS
  <2>2. \E i \in at : \A j \in at : j <= i
    <3> HIDE DEF at
    <3> QED BY <1>2, <2>1, GreatestNumber
  <2>3. LastOf(text, what, a, b) = CHOOSE i \in at : \A j \in at : j <= i
    BY <1>2 DEF LastOf
  <2>4. LastOf(text, what, a, b) \in at
    <3> HIDE DEF at
    <3> QED BY <2>2, <2>3
  <2> QED BY <2>4
<1> QED BY <1>1, <1>2

(* A part is not empty and no longer than it may be, and it is cut after a *)
(* blank unless it has no space.                                           *)
LEMMA CutHolds ==
  ASSUME NEW text \in Seq(Characters), NEW a \in 1..Len(text), PartSize <= Len(text) - a
  PROVE  /\ CutAt(text, a) \in a .. a + PartSize - 1 /\ CutAt(text, a) < Len(text)
         /\ \/ Blank(text[CutAt(text, a)])
            \/ \A j \in a..CutAt(text, a) : text[j] # "space"
<1> DEFINE full == a + PartSize - 1
           newline == LastOf(text, "newline", a, full)
           space == LastOf(text, "space", a, full)
           half == PartSize \div 2
           c == CutAt(text, a)
<1>1. /\ Len(text) \in Nat /\ PartSize \in Nat \ {0} /\ a \in Nat \ {0} /\ full \in Nat /\ full < Len(text)
      /\ a <= full
  BY PartSizeIs
<1>2. \/ newline = 0
      \/ newline \in a..full /\ text[newline] = "newline"
  BY <1>1, LastOfIs
<1>3. \/ space = 0 /\ \A i \in a..full : text[i] # "space"
      \/ space \in a..full /\ text[space] = "space"
  BY <1>1, LastOfIs
<1>4. CASE newline > 0 /\ newline - a >= half
  <2>1. c = newline
    BY <1>4 DEF CutAt
  <2> HIDE DEF newline, space, full, half, c
  <2> QED BY <1>1, <1>2, <1>4, <2>1 DEF Blank, full, c
<1>5. CASE space > 0 /\ ~(newline > 0 /\ newline - a >= half)
  <2>1. c = space
    BY <1>5 DEF CutAt
  <2> HIDE DEF newline, space, full, half, c
  <2> QED BY <1>1, <1>3, <1>5, <2>1 DEF Blank, full, c
<1>6. CASE ~(newline > 0 /\ newline - a >= half) /\ ~(space > 0)
  <2>1. c = full
    BY <1>6 DEF CutAt
  <2> HIDE DEF newline, space, half, c
  <2>2. space = 0
    BY <1>1, <1>3, <1>6
  <2> QED BY <1>1, <1>3, <2>1, <2>2 DEF c
<1> QED BY <1>4, <1>5, <1>6

(* The next part begins at the first character after the cut that is not a *)
(* blank.                                                                  *)
LEMMA ResumesHolds ==
  ASSUME NEW text \in Seq(Characters), NEW c \in 1..Len(text)
  PROVE  /\ Resumes(text, c) \in c + 1 .. Len(text) + 1
         /\ \A j \in c + 1 .. Resumes(text, c) - 1 : Blank(text[j])
<1> DEFINE at == {i \in (c + 1)..Len(text) : ~Blank(text[i])}
           r == Resumes(text, c)
<1>1. Len(text) \in Nat /\ at \in SUBSET Nat
  OBVIOUS
<1>2. CASE at = {}
  <2>1. r = Len(text) + 1
    BY <1>2 DEF Resumes
  <2> QED BY <1>1, <1>2, <2>1
<1>3. CASE at # {}
  <2>1. \E i \in at : \A j \in at : i <= j
    <3> HIDE DEF at
    <3> QED BY <1>1, <1>3, LeastNumber
  <2>2. r = CHOOSE i \in at : \A j \in at : i <= j
    BY <1>3 DEF Resumes
  <2>3. r \in at /\ \A j \in at : r <= j
    <3> HIDE DEF at, r
    <3> QED BY <2>1, <2>2
  <2> HIDE DEF r
  <2>4. ASSUME NEW j \in c + 1 .. r - 1 PROVE Blank(text[j])
    <3>1. j \notin at /\ j \in (c + 1)..Len(text)
      BY <2>3
    <3> QED BY <3>1
  <2> QED BY <2>3, <2>4 DEF r
<1> QED BY <1>2, <1>3

SplitStep(text, f, i) ==
  CASE i > Len(text) -> <<>>
    [] i <= Len(text) /\ Len(text) - i < PartSize -> <<<<i, Len(text)>>>>
    [] OTHER -> <<<<i, CutAt(text, i)>>>> \o f[Resumes(text, CutAt(text, i))]

(* The rest that is still to be cut is shorter.                            *)
LEMMA SplitStepIs ==
  ASSUME NEW text \in Seq(Characters), NEW i \in 1 .. Len(text) + 1, NEW f
  PROVE  /\ i = Len(text) + 1 => SplitStep(text, f, i) = <<>>
         /\ i <= Len(text) /\ Len(text) - i < PartSize => SplitStep(text, f, i) = <<<<i, Len(text)>>>>
         /\ i <= Len(text) /\ PartSize <= Len(text) - i =>
              /\ SplitStep(text, f, i) = <<<<i, CutAt(text, i)>>>> \o f[Resumes(text, CutAt(text, i))]
              /\ Resumes(text, CutAt(text, i)) \in i + 1 .. Len(text) + 1
<1>1. Len(text) \in Nat /\ PartSize \in Nat \ {0}
  BY PartSizeIs
<1>2. CASE i = Len(text) + 1
  BY <1>1, <1>2 DEF SplitStep
<1>3. CASE i <= Len(text) /\ Len(text) - i < PartSize
  BY <1>1, <1>3 DEF SplitStep
<1>4. CASE i <= Len(text) /\ PartSize <= Len(text) - i
  <2>1. SplitStep(text, f, i) = <<<<i, CutAt(text, i)>>>> \o f[Resumes(text, CutAt(text, i))]
    BY <1>1, <1>4 DEF SplitStep
  <2>2. CutAt(text, i) \in i .. i + PartSize - 1 /\ CutAt(text, i) < Len(text)
    BY <1>4, CutHolds
  <2>3. CutAt(text, i) \in 1..Len(text)
    BY <1>1, <2>2
  <2>4. Resumes(text, CutAt(text, i)) \in CutAt(text, i) + 1 .. Len(text) + 1
    BY <2>3, ResumesHolds
  <2>5. Resumes(text, CutAt(text, i)) \in i + 1 .. Len(text) + 1
    BY <1>1, <2>2, <2>4
  <2> QED BY <1>1, <1>4, <2>1, <2>5
<1> QED BY <1>1, <1>2, <1>3, <1>4

LEMMA SplitStepTypes ==
  ASSUME NEW text \in Seq(Characters), NEW i \in 1 .. Len(text) + 1, NEW f,
         \A j \in i + 1 .. Len(text) + 1 : f[j] \in Seq(Intervals)
  PROVE  SplitStep(text, f, i) \in Seq(Intervals)
<1>1. Len(text) \in Nat /\ PartSize \in Nat \ {0}
  BY PartSizeIs
<1>2. CASE i = Len(text) + 1
  <2>1. SplitStep(text, f, i) = <<>>
    BY <1>2, SplitStepIs
  <2>2. <<>> \in Seq(Intervals)
    OBVIOUS
  <2> QED BY <2>1, <2>2
<1>3. CASE i <= Len(text) /\ Len(text) - i < PartSize
  <2>1. SplitStep(text, f, i) = <<<<i, Len(text)>>>>
    BY <1>3, SplitStepIs
  <2>2. <<i, Len(text)>> \in Intervals
    BY <1>1 DEF Intervals
  <2>3. \A x \in Intervals : <<x>> \in Seq(Intervals)
    <3> HIDE DEF Intervals
    <3> QED OBVIOUS
  <2> QED BY <2>1, <2>2, <2>3
<1>4. CASE i <= Len(text) /\ PartSize <= Len(text) - i
  <2> PICK c : c = CutAt(text, i)
    OBVIOUS
  <2> PICK r : r = f[Resumes(text, c)]
    OBVIOUS
  <2>1. SplitStep(text, f, i) = <<<<i, c>>>> \o r /\ Resumes(text, c) \in i + 1 .. Len(text) + 1
    BY <1>4, SplitStepIs
  <2>2. r \in Seq(Intervals)
    BY <2>1
  <2>3. i \in 1..Len(text) /\ c \in i .. i + PartSize - 1
    BY <1>1, <1>4, CutHolds
  <2>4. <<i, c>> \in Intervals
    BY <1>1, <2>3 DEF Intervals
  <2>5. \A x \in Intervals, s \in Seq(Intervals) : <<x>> \o s \in Seq(Intervals)
    <3> HIDE DEF Intervals
    <3> QED OBVIOUS
  <2> QED BY <2>1, <2>2, <2>4, <2>5
<1> QED BY <1>1, <1>2, <1>3, <1>4

LEMMA SplitFromIs ==
  ASSUME NEW text \in Seq(Characters)
  PROVE  \A i \in 1 .. Len(text) + 1 : SplitFrom(text)[i] = SplitStep(text, SplitFrom(text), i)
<1> PICK n \in Nat : n = Len(text) + 1
  OBVIOUS
<1> DEFINE Fits(a, f) == /\ f \in [a..n -> Seq(Intervals)]
                         /\ \A i \in a..n : f[i] = SplitStep(text, f, i)
           D == {a \in 1 .. n + 1 : \E f : Fits(a, f)}
<1>1. D \in SUBSET Nat /\ D # {}
  <2> DEFINE f == [i \in n + 1 .. n |-> <<>>]
  <2>1. Fits(n + 1, f)
    OBVIOUS
  <2>2. n + 1 \in D
    BY <2>1
  <2> QED BY <2>2
<1>2. PICK a \in D : \A b \in D : a <= b
  <2> HIDE DEF D
  <2> QED BY <1>1, LeastNumber
<1>3. PICK f : Fits(a, f)
  BY <1>2
<1>4. a = 1
  <2> SUFFICES ASSUME a # 1 PROVE FALSE
    OBVIOUS
  <2> PICK b \in Nat : b = a - 1
    BY <1>2
  <2>1. b \in 1..n /\ b \notin D
    BY <1>2
  <2> DEFINE g == [i \in b..n |-> IF i = b THEN SplitStep(text, f, b) ELSE f[i]]
  <2>2. b \in 1 .. Len(text) + 1
    BY <2>1
  <2>3. SplitStep(text, f, b) \in Seq(Intervals)
    <3>1. \A j \in b + 1 .. Len(text) + 1 : f[j] \in Seq(Intervals)
      <4>1. \A j \in b + 1 .. Len(text) + 1 : j \in a..n
        BY <1>2
      <4> QED BY <1>3, <4>1
    <3> HIDE DEF Fits, D
    <3> QED BY <2>2, <3>1, SplitStepTypes
  <2>4. g \in [b..n -> Seq(Intervals)]
    BY <1>3, <2>1, <2>3
  <2>5. ASSUME NEW i \in b..n PROVE SplitStep(text, g, i) = SplitStep(text, f, i)
    <3>1. i \in 1 .. Len(text) + 1 /\ Len(text) \in Nat
      BY <2>1
    <3>2. CASE i = Len(text) + 1
      BY <3>1, <3>2, SplitStepIs
    <3>3. CASE i <= Len(text) /\ Len(text) - i < PartSize
      BY <3>1, <3>3, SplitStepIs
    <3>4. CASE i <= Len(text) /\ PartSize <= Len(text) - i
      <4> PICK r : r = Resumes(text, CutAt(text, i))
        OBVIOUS
      <4>1. r \in i + 1 .. Len(text) + 1
        BY <3>1, <3>4, SplitStepIs
      <4>2. g[r] = f[r]
        BY <2>1, <4>1
      <4> HIDE DEF g
      <4> QED BY <3>1, <3>4, <4>2, SplitStepIs
    <3> QED BY <3>1, <3>2, <3>3, <3>4, PartSizeIs
  <2>6. ASSUME NEW i \in b..n PROVE g[i] = SplitStep(text, g, i)
    <3>1. g[i] = SplitStep(text, f, i)
      BY <1>3, <2>1
    <3> QED BY <2>5, <3>1
  <2>7. Fits(b, g)
    <3> HIDE DEF g
    <3> QED BY <2>4, <2>6
  <2>8. b \in D
    <3>1. \E h : Fits(b, h)
      BY <2>7
    <3> HIDE DEF Fits
    <3> QED BY <2>1, <3>1
  <2> QED BY <2>1, <2>8
<1>5. f \in [1..n -> Seq(Intervals)] /\ f = [i \in 1..n |-> SplitStep(text, f, i)]
  BY <1>3, <1>4
<1>6. f = [i \in 1 .. Len(text) + 1 |->
             CASE i > Len(text) -> <<>>
               [] i <= Len(text) /\ Len(text) - i < PartSize -> <<<<i, Len(text)>>>>
               [] OTHER -> <<<<i, CutAt(text, i)>>>> \o f[Resumes(text, CutAt(text, i))]]
  BY <1>5, Zenon DEF SplitStep
<1>7. SplitFrom(text) = [i \in 1 .. Len(text) + 1 |->
             CASE i > Len(text) -> <<>>
               [] i <= Len(text) /\ Len(text) - i < PartSize -> <<<<i, Len(text)>>>>
               [] OTHER -> <<<<i, CutAt(text, i)>>>>
                             \o SplitFrom(text)[Resumes(text, CutAt(text, i))]]
  BY <1>6, Zenon DEF SplitFrom
<1>8. SplitFrom(text) = [i \in 1..n |-> SplitStep(text, SplitFrom(text), i)]
  BY <1>7, Zenon DEF SplitStep
<1> QED BY <1>8

(* The part k of the pieces q is as SplitKeepsTheText has it.              *)
After(text, q, k) == IF k = Len(q) THEN Len(text) + 1 ELSE q[k + 1][1]

PartHolds(text, q, k) ==
  /\ q[k][1] \in 1..Len(text) /\ q[k][2] \in q[k][1]..Len(text) /\ q[k][2] - q[k][1] < PartSize
  /\ q[k][2] < After(text, q, k) /\ After(text, q, k) \in 1 .. Len(text) + 1
  /\ \A j \in q[k][2] + 1 .. After(text, q, k) - 1 : Blank(text[j])
  /\ q[k][2] < Len(text) /\ ~Blank(text[q[k][2]]) /\ ~Blank(text[q[k][2] + 1]) =>
       \A j \in q[k][1]..q[k][2] : text[j] # "space"

(* Pieces that are all of the text from a position on.                     *)
Covers(text, q, i) ==
  /\ q \in Seq(Intervals)
  /\ i = Len(text) + 1 => q = <<>>
  /\ i <= Len(text) => q # <<>> /\ q[1][1] = i
  /\ \A k \in DOMAIN q : PartHolds(text, q, k)

LEMMA LastPart ==
  ASSUME NEW text \in Seq(Characters), NEW i \in 1..Len(text), Len(text) - i < PartSize
  PROVE  Covers(text, <<<<i, Len(text)>>>>, i)
<1> PICK n \in Nat : n = Len(text)
  OBVIOUS
<1>q. PICK q : q = <<<<i, n>>>>
  OBVIOUS
<1>1. Len(q) = 1 /\ DOMAIN q = {1} /\ q[1] = <<i, n>> /\ q[1][1] = i /\ q[1][2] = n /\ q # <<>>
  BY <1>q
<1>2. q \in Seq(Intervals)
  <2>1. <<i, n>> \in Intervals
    BY DEF Intervals
  <2> HIDE DEF Intervals
  <2> QED BY <1>q, <2>1
<1>3. After(text, q, 1) = n + 1
  BY <1>1 DEF After
<1>4. PartHolds(text, q, 1)
  <2>1. /\ i \in 1..n /\ n \in i..n /\ n - i < PartSize /\ n < n + 1 /\ n + 1 \in 1 .. n + 1
        /\ ~(n < n) /\ \A j \in n + 1 .. n + 1 - 1 : FALSE
    OBVIOUS
  <2> QED BY <1>1, <1>3, <2>1 DEF PartHolds
<1> QED BY <1>q, <1>1, <1>2, <1>4 DEF Covers

LEMMA FirstPart ==
  ASSUME NEW text \in Seq(Characters), NEW i \in 1..Len(text), PartSize <= Len(text) - i,
         NEW c, c = CutAt(text, i), NEW r, Covers(text, r, Resumes(text, c))
  PROVE  Covers(text, <<<<i, c>>>> \o r, i)
<1> PICK n \in Nat : n = Len(text)
  OBVIOUS
<1>s. PICK s : s = Resumes(text, c)
  OBVIOUS
<1>q. PICK q : q = <<<<i, c>>>> \o r
  OBVIOUS
<1>1. PartSize \in Nat \ {0} /\ i \in 1..n
  BY PartSizeIs
<1>2. /\ c \in i .. i + PartSize - 1 /\ c < n
      /\ Blank(text[c]) \/ \A j \in i..c : text[j] # "space"
  BY CutHolds
<1>3. s \in c + 1 .. n + 1 /\ \A j \in c + 1 .. s - 1 : Blank(text[j])
  <2>1. c \in 1..n
    BY <1>1, <1>2
  <2> QED BY <1>s, <2>1, ResumesHolds
<1>4. r \in Seq(Intervals) /\ <<i, c>> \in Intervals
  BY <1>1, <1>2 DEF Covers, Intervals
<1>5. /\ q \in Seq(Intervals) /\ Len(r) \in Nat /\ Len(q) = Len(r) + 1 /\ q[1] = <<i, c>> /\ q # <<>>
      /\ \A k \in 1..Len(q) : k # 1 => q[k] = r[k - 1]
  <2>1. \A x \in Intervals, t \in Seq(Intervals) :
          LET u == <<x>> \o t
          IN /\ u \in Seq(Intervals) /\ Len(t) \in Nat /\ Len(u) = Len(t) + 1 /\ u[1] = x /\ u # <<>>
             /\ \A k \in 1..Len(u) : k # 1 => u[k] = t[k - 1]
    <3> HIDE DEF Intervals
    <3> QED OBVIOUS
  <2> QED BY <1>q, <1>4, <2>1
<1>6. q[1][1] = i /\ q[1][2] = c
  BY <1>5
<1>7. After(text, q, 1) = s
  <2>1. CASE r = <<>>
    <3>1. Len(r) = 0
      BY <2>1
    <3>2. s = n + 1
      BY <1>s, <1>3, <2>1 DEF Covers
    <3> QED BY <1>5, <3>1, <3>2 DEF After
  <2>2. CASE r # <<>>
    <3>1. Len(r) # 0
      BY <1>4, <2>2
    <3>2. q[2] = r[1]
      BY <1>5, <3>1
    <3>3. s # n + 1
      BY <1>s, <2>2 DEF Covers
    <3>5. s <= n
      <4>1. c \in Nat
        BY <1>1, <1>2
      <4>2. s \in c + 1 .. n + 1
        BY <1>3
      <4> QED BY <3>3, <4>1, <4>2
    <3>4. r[1][1] = s
      BY <1>s, <1>3, <1>1, <1>2, <3>5 DEF Covers
    <3> QED BY <1>5, <3>1, <3>2, <3>4 DEF After
  <2> QED BY <2>1, <2>2
<1>8. PartHolds(text, q, 1)
  <2>1. c - i < PartSize /\ i \in 1..n /\ c \in i..n
    BY <1>1, <1>2
  <2> QED BY <1>2, <1>3, <1>6, <1>7, <2>1 DEF PartHolds
<1>9. ASSUME NEW k \in 1..Len(q), k # 1 PROVE PartHolds(text, q, k)
  <2>1. q[k] = r[k - 1] /\ k - 1 \in 1..Len(r)
    BY <1>5, <1>9
  <2>2. k - 1 \in DOMAIN r
    BY <1>4, <2>1
  <2>3. After(text, q, k) = After(text, r, k - 1)
    <3>1. CASE k = Len(q)
      BY <1>5, <3>1 DEF After
    <3>2. CASE k # Len(q)
      <4>1. k + 1 \in 1..Len(q) /\ k + 1 # 1 /\ k + 1 - 1 = k /\ k - 1 + 1 = k /\ k - 1 # Len(r)
        BY <1>5, <1>9, <3>2
      <4>2. q[k + 1] = r[k]
        BY <1>5, <4>1
      <4> QED BY <3>2, <4>1, <4>2 DEF After
    <3> QED BY <3>1, <3>2
  <2>4. PartHolds(text, r, k - 1)
    BY <2>2 DEF Covers
  <2> QED BY <2>1, <2>3, <2>4 DEF PartHolds
<1>10. \A k \in DOMAIN q : PartHolds(text, q, k)
  <2>1. DOMAIN q = 1..Len(q)
    BY <1>5
  <2> QED BY <1>8, <1>9, <2>1
<1>11. i # Len(text) + 1
  BY <1>1
<1> QED BY <1>q, <1>5, <1>6, <1>10, <1>11 DEF Covers

(* From every position, the parts cover what is left.                      *)
LEMMA SplitCovers ==
  ASSUME NEW text \in Seq(Characters)
  PROVE  \A i \in 1 .. Len(text) + 1 : Covers(text, SplitFrom(text)[i], i)
<1> PICK n \in Nat : n = Len(text)
  OBVIOUS
<1> PICK f : f = SplitFrom(text)
  OBVIOUS
<1> DEFINE bad == {i \in 1 .. n + 1 : ~Covers(text, f[i], i)}
<1>1. SUFFICES ASSUME bad # {} PROVE FALSE
  OBVIOUS
<1>2. PICK i \in bad : \A j \in bad : j <= i
  <2>1. bad \in SUBSET Nat /\ n + 1 \in Nat /\ \A j \in bad : j <= n + 1
    OBVIOUS
  <2> HIDE DEF bad
  <2> QED BY <1>1, <2>1, GreatestNumber
<1>3. i \in 1 .. Len(text) + 1 /\ f[i] = SplitStep(text, f, i)
  BY SplitFromIs
<1>4. \A j \in i + 1 .. n + 1 : Covers(text, f[j], j)
  <2>1. \A j \in i + 1 .. n + 1 : j \in 1 .. n + 1 /\ j \notin bad
    <3>1. \A j \in i + 1 .. n + 1 : j \in 1 .. n + 1 /\ ~(j <= i)
      BY <1>3
    <3> HIDE DEF bad
    <3> QED BY <1>2, <3>1
  <2> QED BY <2>1
<1>5. ~Covers(text, f[i], i)
  OBVIOUS
<1> HIDE DEF bad
<1>6. CASE i = n + 1
  <2>1. f[i] = <<>>
    BY <1>3, <1>6, SplitStepIs
  <2>2. <<>> \in Seq(Intervals) /\ DOMAIN <<>> = {}
    OBVIOUS
  <2> QED BY <1>5, <1>6, <2>1, <2>2 DEF Covers
<1>7. CASE i <= n /\ n - i < PartSize
  <2>1. f[i] = <<<<i, Len(text)>>>>
    BY <1>3, <1>7, SplitStepIs
  <2> QED BY <1>3, <1>5, <1>7, <2>1, LastPart
<1>8. CASE i <= n /\ PartSize <= n - i
  <2>1. /\ f[i] = <<<<i, CutAt(text, i)>>>> \o f[Resumes(text, CutAt(text, i))]
        /\ Resumes(text, CutAt(text, i)) \in i + 1 .. Len(text) + 1
    BY <1>3, <1>8, SplitStepIs
  <2>2. Covers(text, f[Resumes(text, CutAt(text, i))], Resumes(text, CutAt(text, i)))
    BY <1>4, <2>1
  <2> QED BY <1>3, <1>5, <1>8, <2>1, <2>2, FirstPart
<1> QED BY <1>3, <1>6, <1>7, <1>8, PartSizeIs

LEMMA SplitWhole ==
  ASSUME NEW text \in Seq(Characters), text # <<>>
  PROVE  Covers(text, Split(text), 1)
<1> PICK n \in Nat : n = Len(text) /\ n # 0
  OBVIOUS
<1>1. CASE n <= PartSize
  <2>1. Split(text) = <<<<1, Len(text)>>>>
    BY <1>1 DEF Split
  <2>2. n - 1 < PartSize
    BY <1>1, PartSizeIs
  <2> QED BY <2>1, <2>2, LastPart
<1>2. CASE ~(n <= PartSize)
  <2>1. Split(text) = SplitFrom(text)[1]
    BY <1>2 DEF Split
  <2> QED BY <2>1, SplitCovers
<1> QED BY <1>1, <1>2

-----------------------------------------------------------------------------
(* What send makes of a message. *)

(* SplitKeepsTheText, of a message and its pieces.                         *)
Kept(m, piece) ==
  m.text # <<>> =>
    /\ piece[1][1] = 1
    /\ \A i \in DOMAIN piece :
         LET begin == piece[i][1]  end == piece[i][2]
             resumed == IF i = Len(piece) THEN Len(m.text) + 1 ELSE piece[i + 1][1]
         IN /\ begin <= end
            /\ m.channel \in {"telegram", "discord"} => end - begin < PartSize
            /\ end < resumed
            /\ \A j \in (end + 1)..(resumed - 1) : Blank(m.text[j])
            /\ end < Len(m.text) /\ ~Blank(m.text[end]) /\ ~Blank(m.text[end + 1]) =>
                 \A j \in begin..end : m.text[j] # "space"

LEMMA SplitKeeps ==
  ASSUME NEW m, m.text \in Seq(Characters)
  PROVE  /\ Split(m.text) \in Seq(Intervals) /\ Split(m.text) # <<>>
         /\ Kept(m, Split(m.text))
<1> PICK text \in Seq(Characters) : text = m.text
  OBVIOUS
<1>1. CASE text = <<>>
  <2>1. Split(m.text) = <<<<1, 0>>>>
    <3>1. Len(text) = 0 /\ 0 <= PartSize
      BY <1>1, PartSizeIs
    <3> QED BY <3>1 DEF Split
  <2>2. <<1, 0>> \in Intervals
    BY DEF Intervals
  <2>3. \A x \in Intervals : <<x>> \in Seq(Intervals) /\ <<x>> # <<>>
    <3> HIDE DEF Intervals
    <3> QED OBVIOUS
  <2>4. Kept(m, Split(m.text))
    BY <1>1 DEF Kept
  <2> QED BY <2>1, <2>2, <2>3, <2>4
<1>2. CASE text # <<>>
  <2>q. PICK q : q = Split(text)
    OBVIOUS
  <2>1. Covers(text, q, 1)
    BY <1>2, <2>q, SplitWhole
  <2>2. 1 <= Len(text)
    BY <1>2
  <2>3. q \in Seq(Intervals) /\ q # <<>> /\ q[1][1] = 1
    BY <2>1, <2>2 DEF Covers
  <2>4. ASSUME NEW i \in DOMAIN q
        PROVE  LET begin == q[i][1]  end == q[i][2]
                   resumed == IF i = Len(q) THEN Len(text) + 1 ELSE q[i + 1][1]
               IN /\ begin <= end
                  /\ end - begin < PartSize
                  /\ end < resumed
                  /\ \A j \in (end + 1)..(resumed - 1) : Blank(text[j])
                  /\ end < Len(text) /\ ~Blank(text[end]) /\ ~Blank(text[end + 1]) =>
                       \A j \in begin..end : text[j] # "space"
    <3>1. PartHolds(text, q, i)
      BY <2>1 DEF Covers
    <3>2. q[i][1] <= q[i][2]
      BY <3>1 DEF PartHolds
    <3> QED BY <3>1, <3>2, Zenon DEF PartHolds, After
  <2>5. Kept(m, q)
    BY <2>3, <2>4, Zenon DEF Kept
  <2> QED BY <2>q, <2>3, <2>5
<1> QED BY <1>1, <1>2

LEMMA InOneKeeps ==
  ASSUME NEW m, m.text \in Seq(Characters), m.channel \notin {"telegram", "discord"}
  PROVE  InOne(m) \in Seq(Intervals) /\ InOne(m) # <<>> /\ Kept(m, InOne(m))
<1> PICK n \in Nat : n = Len(m.text)
  OBVIOUS
<1>q. PICK q : q = InOne(m)
  OBVIOUS
<1>1. q = <<<<1, n>>>> /\ Len(q) = 1 /\ DOMAIN q = {1} /\ q[1][1] = 1 /\ q[1][2] = n /\ q # <<>>
  BY <1>q DEF InOne
<1>2. <<1, n>> \in Intervals
  BY DEF Intervals
<1>3. \A x \in Intervals : <<x>> \in Seq(Intervals)
  <2> HIDE DEF Intervals
  <2> QED OBVIOUS
<1>4. Kept(m, q)
  <2> SUFFICES ASSUME m.text # <<>> PROVE Kept(m, q)
    BY DEF Kept
  <2>1. 1 <= n /\ n < n + 1 /\ ~(n < n) /\ \A j \in (n + 1)..(n + 1 - 1) : FALSE
    OBVIOUS
  <2> HIDE DEF Intervals
  <2> QED BY <1>1, <2>1 DEF Kept
<1> QED BY <1>q, <1>1, <1>2, <1>3, <1>4

PiecesOf(m) == IF m.channel \in {"telegram", "discord"} THEN Split(m.text) ELSE InOne(m)

(* RepliesGoBack, of a message and the address it is posted to.            *)
GoesBack(m, place, thread) ==
  m.origin # Nowhere =>
    /\ place = <<m.origin.place>>
    /\ m.channel = "slack" => thread \in {m.origin.thread, m.origin.number} \ {""}

LEMMA OutboundIs ==
  ASSUME NEW m \in Outbound
  PROVE  /\ m.channel \in SendingChannels /\ m.text \in Seq(Characters)
         /\ m.origin # Nowhere =>
              /\ m.session = SessionOf(m.origin) /\ m.channel = m.origin.channel
              /\ m.channel = "slack" => m.origin.place # "" /\ m.origin.number # ""
<1>1. CASE \E o \in Origins, t \in Texts :
             m = [channel |-> o.channel, session |-> SessionOf(o), text |-> t, origin |-> o]
  <2>1. PICK o \in Origins, t \in Texts :
          m = [channel |-> o.channel, session |-> SessionOf(o), text |-> t, origin |-> o]
    BY <1>1
  <2>2. m.channel = o.channel /\ m.session = SessionOf(o) /\ m.text = t /\ m.origin = o
    BY <2>1
  <2>3. o.channel \in SendingChannels /\ (o.channel = "slack" => o.place # "" /\ o.number # "")
    BY OutgoingAssumption, Zenon
  <2>4. t \in Seq(Characters)
    BY OutgoingAssumption, Zenon DEF Characters
  <2> QED BY <2>2, <2>3, <2>4, Zenon
<1>2. CASE \E s \in NamedSessions, t \in Texts :
             m = [channel |-> s.channel, session |-> s.session, text |-> t, origin |-> Nowhere]
  <2>1. PICK s \in NamedSessions, t \in Texts :
          m = [channel |-> s.channel, session |-> s.session, text |-> t, origin |-> Nowhere]
    BY <1>2
  <2>2. m.channel = s.channel /\ m.text = t /\ m.origin = Nowhere
    BY <2>1
  <2>3. s.channel \in SendingChannels
    BY OutgoingAssumption, Zenon
  <2>4. t \in Seq(Characters)
    BY OutgoingAssumption, Zenon DEF Characters
  <2> QED BY <2>2, <2>3, <2>4, Zenon
<1>3. \/ \E o \in Origins, t \in Texts :
             m = [channel |-> o.channel, session |-> SessionOf(o), text |-> t, origin |-> o]
      \/ \E s \in NamedSessions, t \in Texts :
             m = [channel |-> s.channel, session |-> s.session, text |-> t, origin |-> Nowhere]
  BY SMT DEF Outbound
<1> QED BY <1>1, <1>2, <1>3, Zenon

(* A message is refused, skipped, or posted whole to where it belongs.     *)
LEMMA SendOfIs ==
  ASSUME NEW m \in Outbound
  PROVE  \/ SendOf(m) = SendRefused
         \/ SendOf(m) = Skipped
         \/ \E place, thread : SendOf(m) = Posts(place, thread, PiecesOf(m)) /\ GoesBack(m, place, thread)
<1>1. m.channel \in SendingChannels
  BY OutboundIs
<1>2. m.channel # "slack" => GoesBack(m, m.session, "")
  BY OutboundIs DEF GoesBack, SessionOf
<1>3. CASE m.channel = "telegram"
  <2>1. SendOf(m) = TelegramSend(m)
    BY <1>3 DEF SendOf
  <2> QED BY <1>2, <1>3, <2>1 DEF TelegramSend, PiecesOf
<1>4. CASE m.channel = "discord"
  <2>1. SendOf(m) = DiscordSend(m)
    BY <1>4 DEF SendOf
  <2> QED BY <1>2, <1>4, <2>1 DEF DiscordSend, PiecesOf
<1>5. CASE m.channel = "slack"
  <2> DEFINE to == ParseSlackSessionId(m.session)
  <2>1. SendOf(m) = SlackSend(m)
    BY <1>5 DEF SendOf
  <2>2. SendOf(m) = Posts(to.place, to.thread, PiecesOf(m))
    BY <1>5, <2>1 DEF SlackSend, PiecesOf
  <2>3. GoesBack(m, to.place, to.thread)
    <3> SUFFICES ASSUME m.origin # Nowhere PROVE GoesBack(m, to.place, to.thread)
      BY DEF GoesBack
    <3> PICK o, tag : o = m.origin /\ tag = IF o.thread = "" THEN o.number ELSE o.thread
      OBVIOUS
    <3>1. m.session = <<o.place, tag>> /\ o.place # "" /\ o.number # ""
      BY <1>5, OutboundIs DEF SessionOf, SlackSession
    <3>2. tag # "" /\ tag \in {o.thread, o.number}
      BY <3>1
    <3> PICK s : s = m.session
      OBVIOUS
    <3>3. Len(s) = 2 /\ s[1] = o.place /\ s[2] = tag
      <4> PICK p : p = o.place
        OBVIOUS
      <4>1. s = <<p, tag>>
        BY <3>1
      <4>2. Len(s) = 2 /\ s[1] = p /\ s[2] = tag
        BY ONLY <4>1
      <4> QED BY <4>2
    <3>4. to.place = <<o.place>> /\ to.thread = tag
      <4>1. s[1] # "" /\ s[2] # ""
        BY <3>1, <3>2, <3>3
      <4>2. to = [place |-> <<s[1]>>, thread |-> s[2]]
        BY <3>3, <4>1, Zenon DEF ParseSlackSessionId
      <4>3. [place |-> <<s[1]>>, thread |-> s[2]].place = <<s[1]>>
            /\ [place |-> <<s[1]>>, thread |-> s[2]].thread = s[2]
        OBVIOUS
      <4> HIDE DEF to
      <4> QED BY <3>3, <4>2, <4>3, Zenon
    <3> QED BY <3>2, <3>4 DEF GoesBack
  <2> HIDE DEF to
  <2> QED BY <2>2, <2>3
<1>6. CASE m.channel = "dingtalk"
  <2>1. SendOf(m) = DingtalkSend(m)
    BY <1>6 DEF SendOf
  <2> QED BY <1>2, <1>6, <2>1 DEF DingtalkSend, PiecesOf
<1>7. CASE m.channel = "wechat_work"
  <2>1. SendOf(m) = WecomSend(m)
    BY <1>7 DEF SendOf
  <2> QED BY <1>2, <1>7, <2>1 DEF WecomSend, PiecesOf
<1>8. CASE m.channel = "feishu"
  <2>1. SendOf(m) = FeishuSend(m)
    BY <1>8 DEF SendOf
  <2> QED BY <1>2, <1>8, <2>1 DEF FeishuSend, PiecesOf
<1>9. CASE m.channel = "whatsapp"
  <2>1. SendOf(m) = WhatsappSend(m)
    BY <1>9 DEF SendOf
  <2> QED BY <1>2, <1>9, <2>1 DEF WhatsappSend, PiecesOf
<1>10. CASE m.channel = "matrix"
  <2>1. SendOf(m) = MatrixSend(m)
    BY <1>10 DEF SendOf
  <2> QED BY <1>2, <1>10, <2>1 DEF MatrixSend, PiecesOf
<1>11. CASE m.channel = "webhook"
  <2>1. SendOf(m) = WebhookSend(m)
    BY <1>11 DEF SendOf
  <2> QED BY <1>2, <1>11, <2>1 DEF WebhookSend, PiecesOf
<1>12. CASE m.channel = "email"
  <2>1. SendOf(m) = EmailSend(m)
    BY <1>12 DEF SendOf
  <2> QED BY <1>2, <1>12, <2>1 DEF EmailSend, PiecesOf
<1> QED
  BY <1>1, <1>3, <1>4, <1>5, <1>6, <1>7, <1>8, <1>9, <1>10, <1>11, <1>12 DEF SendingChannels

-----------------------------------------------------------------------------
(* Sending.  What is in hand is whole and addressed (InHandInv); what was  *)
(* shown is behind the part that is to be sent, strictly so except on      *)
(* Telegram (PlaceInv); and as long as every failure ends the message, it  *)
(* is a prefix of the parts (WholeInv).                                    *)

InHandInv ==
  /\ parts.pieces \in Seq(Intervals)
  /\ IF returned = "none"
     THEN /\ message = NoMessage /\ parts = NoParts
          /\ next = 1 /\ tries = 0 /\ partsSeen = <<>> /\ slowed = FALSE
     ELSE parts.pieces # <<>> =>
            Kept(message, parts.pieces) /\ GoesBack(message, parts.to.place, parts.to.thread)

PlaceInv ==
  /\ next \in Nat \ {0} /\ tries \in {0, 1}
  /\ returned \in {"none", "open", "ok", "error"}
  /\ partsSeen \in Seq(Nat)
  /\ Posting => next <= Len(parts.pieces)
  /\ \A i \in DOMAIN partsSeen :
       /\ partsSeen[i] <= next
       /\ Posting /\ message.channel # "telegram" => partsSeen[i] < next
  /\ ShownInOrder

WholeInv ==
  message.channel # "telegram" /\ ~slowed =>
    /\ Posting => tries = 0 /\ PartsShown = 1 .. next - 1
    /\ \E k \in Nat : PartsShown = 1 .. k
    /\ returned = "ok" => PartsShown = 1 .. Len(parts.pieces)

OutgoingInv == InHandInv /\ PlaceInv /\ WholeInv

LEMMA PiecesAre ==
  ASSUME NEW m \in Outbound
  PROVE  PiecesOf(m) \in Seq(Intervals) /\ PiecesOf(m) # <<>> /\ Kept(m, PiecesOf(m))
<1>1. m.text \in Seq(Characters)
  BY OutboundIs
<1>2. CASE m.channel \in {"telegram", "discord"}
  BY <1>1, <1>2, SplitKeeps DEF PiecesOf
<1>3. CASE m.channel \notin {"telegram", "discord"}
  BY <1>1, <1>3, InOneKeeps DEF PiecesOf
<1> QED BY <1>2, <1>3

LEMMA OutgoingInitHolds == OutgoingInit => OutgoingInv
<1> SUFFICES ASSUME OutgoingInit PROVE OutgoingInv
  OBVIOUS
<1>1. parts.pieces = <<>> /\ <<>> \in Seq(Intervals) /\ partsSeen = <<>> /\ <<>> \in Seq(Nat)
  BY DEF OutgoingInit, NoParts
<1>2. PartsShown = {} /\ 1 .. 0 = {} /\ 0 \in Nat
  BY <1>1 DEF PartsShown
<1>3. InHandInv
  BY <1>1 DEF InHandInv, OutgoingInit
<1>4. PlaceInv
  BY <1>1 DEF PlaceInv, OutgoingInit, Posting, ShownInOrder
<1>5. WholeInv
  BY <1>2 DEF WholeInv, OutgoingInit, Posting
<1> QED BY <1>3, <1>4, <1>5 DEF OutgoingInv

LEMMA SendStep ==
  ASSUME OutgoingInv, NEW m \in Outbound, Send(m)
  PROVE  OutgoingInv'
<1> PICK how : how = SendOf(m)
  OBVIOUS
<1>1. /\ message' = m /\ parts' = [to |-> how.to, pieces |-> how.pieces] /\ returned' = how.outcome
      /\ next' = 1 /\ tries' = 0 /\ partsSeen' = <<>> /\ slowed' = FALSE
  BY DEF Send, OutgoingInv, InHandInv
<1>2. parts'.pieces = how.pieces /\ parts'.to = how.to
  BY <1>1
<1>3. \/ how.outcome \in {"ok", "error"} /\ how.pieces = <<>>
      \/ /\ how.outcome = "open" /\ how.pieces = PiecesOf(m)
         /\ GoesBack(m, how.to.place, how.to.thread)
  <2>1. CASE how = SendRefused
    BY <2>1 DEF SendRefused
  <2>2. CASE how = Skipped
    BY <2>2 DEF Skipped
  <2>3. CASE \E place, thread : how = Posts(place, thread, PiecesOf(m)) /\ GoesBack(m, place, thread)
    <3> PICK place, thread : how = Posts(place, thread, PiecesOf(m)) /\ GoesBack(m, place, thread)
      BY <2>3
    <3>1. how.outcome = "open" /\ how.pieces = PiecesOf(m) /\ how.to.place = place /\ how.to.thread = thread
      BY DEF Posts
    <3> QED BY <3>1
  <2> QED BY <2>1, <2>2, <2>3, SendOfIs
<1>4. how.pieces \in Seq(Intervals) /\ (how.outcome = "open" => Len(how.pieces) >= 1)
  <2>1. CASE how.outcome \in {"ok", "error"} /\ how.pieces = <<>>
    BY <2>1
  <2>2. CASE how.outcome = "open" /\ how.pieces = PiecesOf(m)
    <3> PICK q : q = PiecesOf(m)
      OBVIOUS
    <3>1. q \in Seq(Intervals) /\ q # <<>>
      BY PiecesAre
    <3> HIDE DEF Intervals
    <3>2. Len(q) >= 1
      BY <3>1
    <3> QED BY <2>2, <3>1, <3>2
  <2> QED BY <1>3, <2>1, <2>2
<1>5. how.pieces # <<>> => Kept(m, how.pieces) /\ GoesBack(m, how.to.place, how.to.thread)
  BY <1>3, PiecesAre
<1>6. InHandInv'
  <2>1. returned' # "none"
    BY <1>1, <1>3
  <2>2. Kept(m, how.pieces) /\ GoesBack(m, how.to.place, how.to.thread)
        => Kept(message', parts'.pieces) /\ GoesBack(message', parts'.to.place, parts'.to.thread)
    BY <1>1, <1>2
  <2>3. /\ parts'.pieces \in Seq(Intervals)
        /\ parts'.pieces # <<>> =>
             Kept(message', parts'.pieces) /\ GoesBack(message', parts'.to.place, parts'.to.thread)
    BY <1>2, <1>4, <1>5, <2>2, Zenon
  <2> QED BY <2>1, <2>3 DEF InHandInv, Kept, GoesBack
<1>7. DOMAIN partsSeen' = {} /\ partsSeen' \in Seq(Nat)
  BY <1>1
<1>8. PlaceInv'
  BY <1>1, <1>2, <1>3, <1>4, <1>7 DEF PlaceInv, Posting, ShownInOrder
<1>9. WholeInv'
  <2>1. PartsShown' = {} /\ 1 .. 0 = {} /\ 0 \in Nat
    BY <1>7 DEF PartsShown
  <2>2. how.outcome = "ok" => 1 .. Len(how.pieces) = {}
    BY <1>3
  <2> QED BY <1>1, <1>2, <2>1, <2>2 DEF WholeInv, Posting
<1> QED BY <1>6, <1>8, <1>9 DEF OutgoingInv

(* Nothing, or the part that is being sent, is shown.                      *)
LEMMA ShownNext ==
  ASSUME PlaceInv, Posting, message' = message,
         \/ partsSeen' = partsSeen
         \/ partsSeen' = Append(partsSeen, next)
  PROVE  /\ partsSeen' \in Seq(Nat)
         /\ \A i \in DOMAIN partsSeen' : partsSeen'[i] <= next
         /\ ShownInOrder'
         /\ PartsShown' = IF partsSeen' = partsSeen THEN PartsShown ELSE PartsShown \cup {next}
<1>1. /\ partsSeen \in Seq(Nat) /\ next \in Nat
      /\ \A i \in DOMAIN partsSeen : partsSeen[i] \in Nat /\ partsSeen[i] <= next
      /\ \A i \in DOMAIN partsSeen : message.channel # "telegram" => partsSeen[i] < next
      /\ \A i, j \in DOMAIN partsSeen : i < j =>
           IF message.channel = "telegram" THEN partsSeen[i] <= partsSeen[j] ELSE partsSeen[i] < partsSeen[j]
  BY DEF PlaceInv, ShownInOrder
<1>2. CASE partsSeen' = partsSeen
  BY <1>1, <1>2 DEF ShownInOrder, PartsShown
<1>3. CASE partsSeen' = Append(partsSeen, next)
  <2> PICK n \in Nat : n = Len(partsSeen)
    BY <1>1
  <2>1. /\ partsSeen' \in Seq(Nat) /\ DOMAIN partsSeen' = 1 .. n + 1 /\ DOMAIN partsSeen = 1 .. n
        /\ \A i \in 1 .. n : partsSeen'[i] = partsSeen[i]
        /\ partsSeen'[n + 1] = next /\ Len(partsSeen') = n + 1
    BY <1>1, <1>3
  <2>2. \A i \in 1 .. n + 1 : i \in 1 .. n \/ i = n + 1
    OBVIOUS
  <2>3. \A i \in DOMAIN partsSeen' : partsSeen'[i] <= next
    <3>1. \A i \in 1 .. n : partsSeen'[i] <= next
      BY <1>1, <2>1
    <3>2. next <= next
      BY <1>1
    <3> QED BY <2>1, <2>2, <3>1, <3>2
  <2>4. ShownInOrder'
    <3> SUFFICES ASSUME NEW i \in 1 .. n + 1, NEW j \in 1 .. n + 1, i < j
                 PROVE  IF message.channel = "telegram" THEN partsSeen'[i] <= partsSeen'[j]
                                                        ELSE partsSeen'[i] < partsSeen'[j]
      BY <2>1 DEF ShownInOrder
    <3>1. i \in 1 .. n
      OBVIOUS
    <3> QED BY <1>1, <2>1, <2>2, <3>1
  <2>5. PartsShown' = PartsShown \cup {next}
    <3>1. ASSUME NEW x PROVE x \in PartsShown' <=> x \in PartsShown \cup {next}
      BY <2>1, <2>2 DEF PartsShown
    <3> QED BY <3>1
  <2>6. partsSeen' # partsSeen
    BY <2>1
  <2> QED BY <2>1, <2>3, <2>4, <2>5, <2>6
<1> QED BY <1>2, <1>3

LEMMA InHandStays ==
  ASSUME InHandInv, returned # "none", returned' # "none", UNCHANGED <<message, parts>>
  PROVE  InHandInv'
<1>1. parts.pieces \in Seq(Intervals)
      /\ (parts.pieces # <<>> => Kept(message, parts.pieces) /\ GoesBack(message, parts.to.place, parts.to.thread))
  BY DEF InHandInv
<1> QED BY <1>1 DEF InHandInv, Kept, GoesBack

LEMMA PartArrivesStep ==
  ASSUME OutgoingInv, PartArrives
  PROVE  OutgoingInv'
<1>1. /\ Posting /\ UNCHANGED <<message, parts, slowed>>
      /\ partsSeen' = Append(partsSeen, next)
      /\ next' = next + 1 /\ tries' = 0
      /\ returned' = IF next = Len(parts.pieces) THEN "ok" ELSE "open"
  BY DEF PartArrives, NextPart
<1>2. InHandInv /\ PlaceInv /\ WholeInv
  BY DEF OutgoingInv
<1>3. InHandInv'
  <2>1. returned # "none" /\ returned' # "none"
    BY <1>1 DEF Posting
  <2> QED BY <1>1, <1>2, <2>1, InHandStays
<1> PICK n \in Nat : n = Len(parts.pieces)
  BY <1>2 DEF InHandInv
<1>4. next \in Nat \ {0} /\ next <= n
  BY <1>1, <1>2 DEF PlaceInv
<1>5. /\ partsSeen' \in Seq(Nat)
      /\ \A i \in DOMAIN partsSeen' : partsSeen'[i] \in Nat /\ partsSeen'[i] <= next
      /\ ShownInOrder'
  BY <1>1, <1>2, ShownNext
<1>6. PlaceInv'
  <2>1. \A i \in DOMAIN partsSeen' : partsSeen'[i] <= next' /\ partsSeen'[i] < next'
    BY <1>1, <1>4, <1>5
  <2>2. Posting' => next' <= Len(parts.pieces)'
    BY <1>1, <1>4 DEF Posting
  <2> QED BY <1>1, <1>4, <1>5, <2>1, <2>2 DEF PlaceInv
<1>7. WholeInv'
  <2> SUFFICES ASSUME message.channel # "telegram", ~slowed
               PROVE  WholeInv'
    BY <1>1 DEF WholeInv
  <2>1. PartsShown = 1 .. next - 1
    BY <1>1, <1>2 DEF WholeInv
  <2>2. PartsShown' = PartsShown \cup {next}
    <3>1. PartsShown' = IF partsSeen' = partsSeen THEN PartsShown ELSE PartsShown \cup {next}
      BY <1>1, <1>2, ShownNext
    <3>2. partsSeen' # partsSeen
      BY <1>1, <1>2 DEF PlaceInv
    <3> QED BY <3>1, <3>2
  <2>3. PartsShown' = 1 .. next /\ next \in Nat
    BY <1>4, <2>1, <2>2
  <2>4. next' - 1 = next
    BY <1>1, <1>4
  <2> QED BY <1>1, <2>3, <2>4 DEF WholeInv, Posting
<1> QED BY <1>3, <1>6, <1>7 DEF OutgoingInv

LEMMA PartFailsStep ==
  ASSUME OutgoingInv, PartFails
  PROVE  OutgoingInv'
<1>1. /\ Posting /\ UNCHANGED <<message, parts, slowed>>
      /\ partsSeen' = partsSeen \/ partsSeen' = Append(partsSeen, next)
      /\ AfterFailure
  BY DEF PartFails
<1>2. InHandInv /\ PlaceInv /\ WholeInv
  BY DEF OutgoingInv
<1> PICK n \in Nat : n = Len(parts.pieces)
  BY <1>2 DEF InHandInv
<1>3. next \in Nat \ {0} /\ next <= n /\ tries \in {0, 1} /\ returned = "open"
  BY <1>1, <1>2 DEF PlaceInv, Posting
<1>4. \/ /\ message.channel = "telegram" /\ tries' = 1 /\ next' = next /\ returned' = "open"
      \/ /\ message.channel = "telegram" \/ tries = 1
         /\ next' = next + 1 /\ tries' = 0 /\ returned' = IF next = n THEN "ok" ELSE "open"
      \/ message.channel # "telegram" /\ returned' = "error" /\ next' = next /\ tries' = tries
  BY <1>1, <1>3 DEF AfterFailure, TryAgain, NextPart, GiveUp
<1>5. InHandInv'
  <2>1. returned # "none" /\ returned' # "none"
    BY <1>3, <1>4
  <2> QED BY <1>1, <1>2, <2>1, InHandStays
<1>6. /\ partsSeen' \in Seq(Nat)
      /\ \A i \in DOMAIN partsSeen' : partsSeen'[i] \in Nat /\ partsSeen'[i] <= next
      /\ ShownInOrder'
  BY <1>1, <1>2, ShownNext
<1>7. PlaceInv'
  <2>1. /\ next' \in Nat \ {0} /\ tries' \in {0, 1}
        /\ returned' \in {"open", "ok", "error"}
        /\ returned' = "open" => next' <= n
    BY <1>3, <1>4
  <2>2. /\ \A i \in DOMAIN partsSeen' : partsSeen'[i] <= next'
        /\ returned' = "open" /\ message.channel # "telegram" =>
             \A i \in DOMAIN partsSeen' : partsSeen'[i] < next'
    BY <1>3, <1>4, <1>6
  <2> QED BY <1>1, <1>6, <2>1, <2>2 DEF PlaceInv, Posting
<1>8. WholeInv'
  <2> SUFFICES ASSUME message.channel # "telegram", ~slowed
               PROVE  WholeInv'
    BY <1>1 DEF WholeInv
  <2>1. PartsShown = 1 .. next - 1 /\ tries = 0
    BY <1>1, <1>2 DEF WholeInv
  <2>2. returned' = "error"
    BY <1>4, <2>1
  <2>3. PartsShown' = PartsShown \/ PartsShown' = PartsShown \cup {next}
    BY <1>1, <1>2, ShownNext
  <2>4. \E k \in Nat : PartsShown' = 1 .. k
    <3>1. next \in Nat /\ next - 1 \in Nat /\ (1 .. next - 1) \cup {next} = 1 .. next
      BY <1>3
    <3> QED BY <2>1, <2>3, <3>1
  <2> QED BY <2>2, <2>4 DEF WholeInv, Posting
<1> QED BY <1>5, <1>7, <1>8 DEF OutgoingInv

LEMMA RateLimitedStep ==
  ASSUME OutgoingInv, RateLimited
  PROVE  OutgoingInv'
<1>1. /\ Posting /\ UNCHANGED <<message, parts, partsSeen>>
      /\ message.channel = "discord" /\ slowed' = TRUE
  BY DEF RateLimited
<1>2. InHandInv /\ PlaceInv
  BY DEF OutgoingInv
<1> PICK n \in Nat : n = Len(parts.pieces)
  BY <1>2 DEF InHandInv
<1>3. next \in Nat \ {0} /\ next <= n /\ returned = "open"
  BY <1>1, <1>2 DEF PlaceInv, Posting
<1>4. \/ tries' = 1 /\ next' = next /\ returned' = "open"
      \/ next' = next + 1 /\ tries' = 0 /\ returned' = IF next = n THEN "ok" ELSE "open"
  BY <1>3 DEF RateLimited, TryAgain, NextPart
<1>5. InHandInv'
  <2>1. returned # "none" /\ returned' # "none"
    BY <1>3, <1>4
  <2> QED BY <1>1, <1>2, <2>1, InHandStays
<1>6. /\ partsSeen \in Seq(Nat)
      /\ \A i \in DOMAIN partsSeen : partsSeen[i] \in Nat /\ partsSeen[i] < next
      /\ ShownInOrder'
  BY <1>1, <1>2 DEF PlaceInv, ShownInOrder
<1>7. PlaceInv'
  <2>1. /\ next' \in Nat \ {0} /\ tries' \in {0, 1}
        /\ returned' \in {"open", "ok"}
        /\ returned' = "open" => next' <= n
    BY <1>3, <1>4
  <2>2. \A i \in DOMAIN partsSeen : partsSeen[i] <= next' /\ partsSeen[i] < next'
    BY <1>3, <1>4, <1>6
  <2> QED BY <1>1, <1>6, <2>1, <2>2 DEF PlaceInv, Posting
<1>8. WholeInv'
  BY <1>1 DEF WholeInv
<1> QED BY <1>5, <1>7, <1>8 DEF OutgoingInv

LEMMA OutgoingInductive == OutgoingInv /\ [OutgoingNext]_outgoingVars => OutgoingInv'
<1> SUFFICES ASSUME OutgoingInv, [OutgoingNext]_outgoingVars PROVE OutgoingInv'
  OBVIOUS
<1>1. ASSUME NEW m \in Outbound, Send(m) PROVE OutgoingInv'
  BY <1>1, SendStep
<1>2. CASE PartArrives
  BY <1>2, PartArrivesStep
<1>3. CASE PartFails
  BY <1>3, PartFailsStep
<1>4. CASE RateLimited
  BY <1>4, RateLimitedStep
<1>5. CASE TakeNext
  <2>1. OutgoingInit'
    BY <1>5 DEF TakeNext, OutgoingInit
  <2>2. (OutgoingInit => OutgoingInv)'
    BY OutgoingInitHolds, PTL
  <2> QED BY <2>1, <2>2
<1>6. CASE UNCHANGED outgoingVars
  BY <1>6 DEF outgoingVars, OutgoingInv, InHandInv, Kept, GoesBack, PlaceInv, WholeInv, Posting, ShownInOrder,
              PartsShown
<1> QED BY <1>1, <1>2, <1>3, <1>4, <1>5, <1>6 DEF OutgoingNext

LEMMA OutgoingInvGives == OutgoingInv => RepliesArrive
<1> SUFFICES ASSUME OutgoingInv PROVE RepliesArrive
  OBVIOUS
<1>1. SplitKeepsTheText
  <2> SUFFICES ASSUME returned # "none", parts.pieces # <<>>, message.text # <<>>
               PROVE  SplitKeepsTheText
    BY DEF SplitKeepsTheText
  <2>1. Kept(message, parts.pieces)
    BY DEF OutgoingInv, InHandInv
  <2> QED BY <2>1, Zenon DEF Kept, SplitKeepsTheText
<1>2. ShownInOrder
  BY DEF OutgoingInv, PlaceInv
<1>3. SentIsShown
  <2> SUFFICES ASSUME message.channel # "telegram", ~slowed
               PROVE  SentIsShown
    BY DEF SentIsShown
  <2>1. PICK k \in Nat : PartsShown = 1 .. k
    BY DEF OutgoingInv, WholeInv
  <2>2. returned = "ok" => PartsShown = 1 .. Len(parts.pieces)
    BY DEF OutgoingInv, WholeInv
  <2>3. DOMAIN parts.pieces = 1 .. Len(parts.pieces)
    <3>1. parts.pieces \in Seq(Intervals)
      BY DEF OutgoingInv, InHandInv
    <3> HIDE DEF Intervals
    <3> QED BY <3>1
  <2> QED BY <2>1, <2>2, <2>3 DEF SentIsShown
<1>4. RepliesGoBack
  <2> SUFFICES ASSUME message.origin # Nowhere, parts.pieces # <<>>
               PROVE  RepliesGoBack
    BY DEF RepliesGoBack
  <2>1. returned # "none"
    BY DEF OutgoingInv, InHandInv, NoParts
  <2>2. GoesBack(message, parts.to.place, parts.to.thread)
    BY <2>1 DEF OutgoingInv, InHandInv
  <2> QED BY <2>2 DEF GoesBack, RepliesGoBack
<1> QED BY <1>1, <1>2, <1>3, <1>4 DEF RepliesArrive

(* Whatever its length and wherever its blanks are, a text that is split   *)
(* loses nothing but blanks between two parts, no part is too long and no  *)
(* word is cut that could be kept; its parts are shown in order, once      *)
(* except on Telegram, and all of them if send found no error; and they go *)
(* to the place and the thread of the question (telegram.rs, discord.rs,   *)
(* slack.rs, send of the other channels).                                  *)
THEOREM RepliesComeWhole == OutgoingSpec => []RepliesArrive
<1>1. OutgoingInit => OutgoingInv
  BY OutgoingInitHolds
<1>2. OutgoingInv /\ [OutgoingNext]_outgoingVars => OutgoingInv'
  BY OutgoingInductive
<1>3. OutgoingInv => RepliesArrive
  BY OutgoingInvGives
<1> QED BY <1>1, <1>2, <1>3, PTL DEF OutgoingSpec

HIDE TelegramAssumption
-----------------------------------------------------------------------------
(* Matrix.                                                                 *)
Of(list) == {list[i] : i \in DOMAIN list}
SameRoom(said, d, e) == said[d].room = said[e].room

(* A list names no event twice, and those of a room in their order.        *)
EventsInOrder(said, list) ==
  \A i, j \in DOMAIN list : i < j => list[i] # list[j] /\ (SameRoom(said, list[i], list[j]) => list[i] < list[j])

Flooded(said, e, t) == Cardinality({f \in (e + 1)..t : SameRoom(said, f, e)}) >= Window

(* What has been worked through comes before what is left of the answer.   *)
AnswerInv ==
  /\ EventsInOrder(timeline, worked) /\ EventsInOrder(timeline, left)
  /\ \A d \in Of(worked), e \in Of(left) : d # e /\ (SameRoom(timeline, d, e) => d < e)

(* The token is behind what is left and not behind what has been done.     *)
TokenInv ==
  /\ syncing = "work" => /\ since <= upto
                         /\ \A e \in Of(left) : since < e /\ e <= upto
                         /\ \A e \in Of(worked) : e <= upto
                         /\ \A e \in 1..upto : e \in Of(worked) \/ e \in Of(left) \/ Flooded(timeline, e, upto)
  /\ syncing # "work" => left = <<>>
  /\ syncing \notin {"work", "down"} => \A e \in Of(worked) : e <= since
  /\ syncing # "down" => \A e \in 1..since : e \in Of(worked) \/ Flooded(timeline, e, since)

HeardInv ==
  /\ syncing # "down" => run # 0
  /\ \A i \in DOMAIN heard : heard[i][1] <= run /\ (heard[i][1] = run => heard[i][2] \in Of(worked))

MatrixInv == MatrixTypeOK /\ AnswerInv /\ TokenInv /\ HeardInv /\ MatrixOncePerRun /\ MatrixNoEcho

RoomEvents == RoomUsers \cup [room : Rooms, from : {Bot}]

LEMMA MatrixInitHolds == MatrixInit => MatrixInv
<1> SUFFICES ASSUME MatrixInit PROVE MatrixInv
  OBVIOUS
<1>1. DOMAIN << >> = {}
  OBVIOUS
<1>2. MatrixTypeOK
  <2>1. \A S : << >> \in Seq(S)
    OBVIOUS
  <2>2. Len(<< >>) = 0
    OBVIOUS
  <2>3. timeline = << >> /\ left = << >> /\ worked = << >> /\ heard = << >> /\ 0 \in 0..MaxRuns
    BY MatrixAssumption DEF MatrixInit
  <2>4. since \in 0..Len(timeline) /\ upto \in 0..Len(timeline)
    BY <2>2, <2>3 DEF MatrixInit
  <2> QED BY <2>1, <2>3, <2>4 DEF MatrixInit, MatrixTypeOK
<1>3. Of(worked) = {} /\ Of(left) = {} /\ DOMAIN heard = {} /\ EventsInOrder(timeline, worked) /\ EventsInOrder(timeline, left)
  BY <1>1 DEF MatrixInit, Of, EventsInOrder
<1>4. AnswerInv
  BY <1>3 DEF AnswerInv
<1>5. TokenInv
  BY <1>3 DEF TokenInv, MatrixInit
<1>6. HeardInv /\ MatrixOncePerRun /\ MatrixNoEcho
  BY <1>3 DEF MatrixInit, HeardInv, MatrixOncePerRun, MatrixNoEcho
<1> QED BY <1>2, <1>4, <1>5, <1>6 DEF MatrixInv

LEMMA MatrixTypes ==
  ASSUME MatrixInv
  PROVE  /\ timeline \in Seq(RoomEvents) /\ Len(timeline) \in Nat
         /\ Events = 1..Len(timeline) /\ \A e \in Events : timeline[e] \in RoomEvents
         /\ left \in Seq(Events) /\ worked \in Seq(Events)
         /\ Of(worked) \subseteq Events /\ Of(left) \subseteq Events
         /\ heard \in Seq((1..MaxRuns) \X Events)
         /\ \A i \in DOMAIN heard : heard[i] \in (1..MaxRuns) \X Events
         /\ \A i \in DOMAIN heard : heard[i][1] \in 1..MaxRuns /\ heard[i][2] \in Events
         /\ since \in 0..Len(timeline) /\ upto \in 0..Len(timeline) /\ unanswered \subseteq Events
<1>1. MatrixTypeOK
  BY DEF MatrixInv
<1>2. timeline \in Seq(RoomEvents) /\ Len(timeline) \in Nat /\ Events = 1..Len(timeline) /\ \A e \in Events : timeline[e] \in RoomEvents
  BY <1>1 DEF MatrixTypeOK, RoomEvents, Events
<1>3. left \in Seq(Events) /\ worked \in Seq(Events) /\ heard \in Seq((1..MaxRuns) \X Events)
  BY <1>1 DEF MatrixTypeOK
<1>4. Of(worked) \subseteq Events /\ Of(left) \subseteq Events
  BY <1>3 DEF Of
<1>5. \A i \in DOMAIN heard : heard[i] \in (1..MaxRuns) \X Events
  BY <1>3
<1>6. \A i \in DOMAIN heard : heard[i][1] \in 1..MaxRuns /\ heard[i][2] \in Events
  BY <1>5
<1>7. since \in 0..Len(timeline) /\ upto \in 0..Len(timeline) /\ unanswered \subseteq Events
  BY <1>1 DEF MatrixTypeOK
<1> QED BY <1>2, <1>3, <1>4, <1>5, <1>6, <1>7

(* A new event changes nothing that was said of the old ones.              *)
LEMMA TimelineGrows ==
  ASSUME MatrixInv, NEW e \in RoomEvents, Say(e),
         UNCHANGED <<since, upto, left, syncing, stopAsked, run, worked, heard>>,
         unanswered' \in SUBSET unanswered
  PROVE  MatrixInv'
<1>1. /\ timeline' \in Seq(RoomEvents) /\ Len(timeline') = Len(timeline) + 1
      /\ \A d \in Events : timeline'[d] = timeline[d]
  BY MatrixTypes DEF Say, Events
<1>2. Events \subseteq Events' /\ Len(timeline) \in Nat /\ Len(timeline') \in Nat
  BY <1>1, MatrixTypes DEF Events
<1>3. Of(worked)' = Of(worked) /\ Of(left)' = Of(left) /\ Of(worked) \subseteq Events /\ Of(left) \subseteq Events
  BY MatrixTypes DEF Of
<1>4. \A d, f \in Events : SameRoom(timeline', d, f) <=> SameRoom(timeline, d, f)
  BY <1>1 DEF SameRoom
<1>5. \A d \in Events, t \in 0..Len(timeline) : Flooded(timeline', d, t) <=> Flooded(timeline, d, t)
  <2> SUFFICES ASSUME NEW d \in Events, NEW t \in 0..Len(timeline)
               PROVE  Flooded(timeline', d, t) <=> Flooded(timeline, d, t)
    OBVIOUS
  <2>1. \A f \in (d + 1)..t : f \in Events
    BY <1>2 DEF Events
  <2>2. {f \in (d + 1)..t : SameRoom(timeline', f, d)} = {f \in (d + 1)..t : SameRoom(timeline, f, d)}
    BY <1>4, <2>1
  <2> QED BY <2>2 DEF Flooded
<1>6. MatrixTypeOK'
  <2>1. \A S : Seq(Events) \subseteq Seq(Events')
    BY <1>2
  <2>2. left' \in Seq(Events') /\ worked' \in Seq(Events')
    BY <2>1, MatrixTypes
  <2>3. heard' \in Seq((1..MaxRuns) \X Events')
    <3>1. heard \in Seq((1..MaxRuns) \X Events) /\ (1..MaxRuns) \X Events \subseteq (1..MaxRuns) \X Events'
      BY <1>2, MatrixTypes
    <3> QED BY <3>1
  <2>4. since' \in 0..Len(timeline') /\ upto' \in 0..Len(timeline')
    BY <1>1, <1>2, MatrixTypes
  <2>5. unanswered' \subseteq Events'
    BY <1>2, MatrixTypes
  <2>6. MatrixTypeOK
    BY DEF MatrixInv
  <2> QED BY <1>1, <2>2, <2>3, <2>4, <2>5, <2>6 DEF MatrixTypeOK, RoomEvents
<1>7. AnswerInv'
  <2>1. AnswerInv
    BY DEF MatrixInv
  <2>2. \A list \in Seq(Events) : EventsInOrder(timeline, list) => EventsInOrder(timeline', list)
    <3> SUFFICES ASSUME NEW list \in Seq(Events), EventsInOrder(timeline, list) PROVE EventsInOrder(timeline', list)
      OBVIOUS
    <3>1. \A i \in DOMAIN list : list[i] \in Events
      OBVIOUS
    <3> QED BY <1>4, <3>1 DEF EventsInOrder
  <2>3. \A d \in Of(worked), f \in Of(left) : d # f /\ (SameRoom(timeline', d, f) => d < f)
    BY <1>3, <1>4, <2>1 DEF AnswerInv
  <2> QED BY <1>3, <2>1, <2>2, <2>3, MatrixTypes DEF AnswerInv
<1>8. TokenInv'
  <2>1. TokenInv
    BY DEF MatrixInv
  <2>2. 1..since \subseteq Events /\ 1..upto \subseteq Events
    BY MatrixTypes DEF Events
  <2> QED BY <1>3, <1>5, <2>1, <2>2, MatrixTypes DEF TokenInv
<1>9. HeardInv' /\ MatrixOncePerRun' /\ MatrixNoEcho'
  <2>1. HeardInv'
    BY <1>3 DEF MatrixInv, HeardInv
  <2>2. MatrixOncePerRun'
    <3>1. \A i, j \in DOMAIN heard : i < j /\ heard[i][1] = heard[j][1] =>
            /\ heard[i][2] # heard[j][2]
            /\ SameRoom(timeline, heard[i][2], heard[j][2]) => heard[i][2] < heard[j][2]
      BY DEF MatrixInv, MatrixOncePerRun, SameRoom
    <3>2. \A i, j \in DOMAIN heard :
            SameRoom(timeline', heard[i][2], heard[j][2]) <=> SameRoom(timeline, heard[i][2], heard[j][2])
      BY <1>4, MatrixTypes
    <3> QED BY <3>1, <3>2 DEF MatrixOncePerRun, SameRoom
  <2>3. MatrixNoEcho'
    BY <1>1, MatrixTypes DEF MatrixInv, MatrixNoEcho
  <2> QED BY <2>1, <2>2, <2>3
<1> QED BY <1>6, <1>7, <1>8, <1>9 DEF MatrixInv


LEMMA ListMoves ==
  ASSUME NEW S, NEW said, NEW list \in Seq(S), list # << >>
  PROVE  /\ Head(list) \in S /\ Tail(list) \in Seq(S)
         /\ Of(list) = {Head(list)} \cup Of(Tail(list))
         /\ EventsInOrder(said, list) =>
              /\ EventsInOrder(said, Tail(list))
              /\ \A e \in Of(Tail(list)) :
                   Head(list) # e /\ (SameRoom(said, Head(list), e) => Head(list) < e)
<1>1. PICK n \in Nat : n = Len(list) /\ n # 0
  OBVIOUS
<1>2. /\ Head(list) = list[1] /\ Head(list) \in S /\ Tail(list) \in Seq(S) /\ Len(Tail(list)) = n - 1
      /\ DOMAIN list = 1..n /\ DOMAIN Tail(list) = 1..(n - 1)
      /\ \A i \in 1..(n - 1) : Tail(list)[i] = list[i + 1]
  BY <1>1
<1>3. Of(list) = {Head(list)} \cup Of(Tail(list))
  <2>1. \A i \in 1..n : i = 1 \/ (i - 1 \in 1..(n - 1) /\ Tail(list)[i - 1] = list[i])
    BY <1>1, <1>2
  <2>2. Of(list) \subseteq {Head(list)} \cup Of(Tail(list))
    <3> SUFFICES ASSUME NEW e \in Of(list) PROVE e = Head(list) \/ e \in Of(Tail(list))
      OBVIOUS
    <3>1. PICK i \in 1..n : list[i] = e
      BY <1>2 DEF Of
    <3> QED BY <1>2, <2>1, <3>1 DEF Of
  <2>3. 1 \in 1..n /\ \A i \in 1..(n - 1) : i + 1 \in 1..n
    BY <1>1
  <2>4. Head(list) \in Of(list) /\ Of(Tail(list)) \subseteq Of(list)
    BY <1>2, <2>3 DEF Of
  <2> QED BY <2>2, <2>4
<1>4. ASSUME EventsInOrder(said, list)
      PROVE  /\ EventsInOrder(said, Tail(list))
             /\ \A e \in Of(Tail(list)) :
                  Head(list) # e /\ (SameRoom(said, Head(list), e) => Head(list) < e)
  <2>1. \A i, j \in 1..n : i < j => list[i] # list[j] /\ (SameRoom(said, list[i], list[j]) => list[i] < list[j])
    BY <1>2, <1>4 DEF EventsInOrder
  <2>2. \A i, j \in 1..(n - 1) : i < j =>
          /\ Tail(list)[i] # Tail(list)[j]
          /\ SameRoom(said, Tail(list)[i], Tail(list)[j]) => Tail(list)[i] < Tail(list)[j]
    <3> SUFFICES ASSUME NEW i \in 1..(n - 1), NEW j \in 1..(n - 1), i < j
                 PROVE  /\ Tail(list)[i] # Tail(list)[j]
                        /\ SameRoom(said, Tail(list)[i], Tail(list)[j]) => Tail(list)[i] < Tail(list)[j]
      OBVIOUS
    <3>1. i + 1 \in 1..n /\ j + 1 \in 1..n /\ i + 1 < j + 1
      BY <1>1
    <3> QED BY <1>2, <2>1, <3>1
  <2>3. \A j \in 1..(n - 1) :
          Head(list) # Tail(list)[j] /\ (SameRoom(said, Head(list), Tail(list)[j]) => Head(list) < Tail(list)[j])
    <3> SUFFICES ASSUME NEW j \in 1..(n - 1)
                 PROVE  /\ Head(list) # Tail(list)[j]
                        /\ SameRoom(said, Head(list), Tail(list)[j]) => Head(list) < Tail(list)[j]
      OBVIOUS
    <3>1. 1 \in 1..n /\ j + 1 \in 1..n /\ 1 < j + 1
      BY <1>1
    <3> QED BY <1>2, <2>1, <3>1
  <2> QED BY <1>2, <2>2, <2>3 DEF EventsInOrder, Of
<1> QED BY <1>2, <1>3, <1>4

LEMMA ListGrows ==
  ASSUME NEW S, NEW said, NEW list \in Seq(S), NEW e \in S
  PROVE  /\ Append(list, e) \in Seq(S) /\ Of(Append(list, e)) = Of(list) \cup {e}
         /\ EventsInOrder(said, list) /\ (\A d \in Of(list) : d # e /\ (SameRoom(said, d, e) => d < e)) =>
              EventsInOrder(said, Append(list, e))
<1>1. PICK n \in Nat : n = Len(list)
  OBVIOUS
<1>2. /\ Append(list, e) \in Seq(S) /\ DOMAIN list = 1..n /\ DOMAIN Append(list, e) = 1..(n + 1)
      /\ \A i \in 1..n : Append(list, e)[i] = list[i]
      /\ Append(list, e)[n + 1] = e
  BY <1>1
<1>3. \A i \in 1..(n + 1) : i \in 1..n \/ i = n + 1
  BY <1>1
<1>4. (\A i \in 1..n : i \in 1..(n + 1)) /\ n + 1 \in 1..(n + 1)
  BY <1>1
<1>5. Of(Append(list, e)) = Of(list) \cup {e}
  BY <1>2, <1>3, <1>4 DEF Of
<1>6. ASSUME EventsInOrder(said, list), \A d \in Of(list) : d # e /\ (SameRoom(said, d, e) => d < e)
      PROVE  EventsInOrder(said, Append(list, e))
  <2>1. \A i, j \in 1..(n + 1) : i < j => i \in 1..n /\ (j \in 1..n \/ j = n + 1)
    BY <1>1
  <2>2. \A i, j \in 1..n : i < j => list[i] # list[j] /\ (SameRoom(said, list[i], list[j]) => list[i] < list[j])
    BY <1>2, <1>6 DEF EventsInOrder
  <2>3. \A i \in 1..n : list[i] # e /\ (SameRoom(said, list[i], e) => list[i] < e)
    BY <1>2, <1>6 DEF Of
  <2> QED BY <1>2, <2>1, <2>2, <2>3 DEF EventsInOrder
<1> QED BY <1>2, <1>5, <1>6

(* The loop goes round without an answer, or ends.                         *)
LEMMA LoopGoesRound ==
  ASSUME MatrixInv, UNCHANGED <<timeline, since, upto, left, run, worked, heard, unanswered>>,
         stopAsked' \in BOOLEAN, syncing' \in {"down", "top", "sync", "work", "sleep"},
         syncing' = syncing \/ (syncing \in {"top", "sync", "sleep"} /\ syncing' # "work")
  PROVE  MatrixInv'
<1>1. Events' = Events
  BY DEF Events
<1>2. MatrixTypeOK'
  BY <1>1 DEF MatrixInv, MatrixTypeOK
<1>3. AnswerInv' /\ HeardInv' /\ MatrixOncePerRun' /\ MatrixNoEcho'
  BY DEF MatrixInv, AnswerInv, HeardInv, MatrixOncePerRun, MatrixNoEcho
<1>4. TokenInv'
  BY DEF MatrixInv, TokenInv
<1> QED BY <1>2, <1>3, <1>4 DEF MatrixInv

LEMMA MatrixStartKeeps == ASSUME MatrixInv, MatrixStart PROVE MatrixInv'
<1> USE DEF MatrixStart
<1>1. Events' = Events /\ DOMAIN << >> = {} /\ Of(<< >>) = {} /\ run \in Nat /\ run' = run + 1
  BY DEF Events, Of, MatrixInv, MatrixTypeOK
<1>2. MatrixTypeOK'
  <2>1. worked' \in Seq(Events) /\ since' \in 0..Len(timeline)
    BY MatrixTypes
  <2>2. run' \in 0..MaxRuns
    BY MatrixAssumption DEF MatrixInv, MatrixTypeOK
  <2> QED BY <1>1, <2>1, <2>2 DEF MatrixInv, MatrixTypeOK
<1>3. AnswerInv'
  BY <1>1 DEF MatrixInv, AnswerInv, EventsInOrder
<1>4. TokenInv'
  BY <1>1 DEF MatrixInv, TokenInv
<1>5. HeardInv'
  BY <1>1, MatrixTypes DEF MatrixInv, HeardInv
<1> QED BY <1>2, <1>3, <1>4, <1>5 DEF MatrixInv, MatrixOncePerRun, MatrixNoEcho

LEMMA MatrixCrashKeeps == ASSUME MatrixInv, MatrixCrash PROVE MatrixInv'
<1> USE DEF MatrixCrash
<1>1. Events' = Events /\ DOMAIN << >> = {} /\ Of(<< >>) = {} /\ << >> \in Seq(Events)
  BY DEF Events, Of
<1>2. MatrixTypeOK'
  BY <1>1 DEF MatrixInv, MatrixTypeOK
<1>3. AnswerInv' /\ HeardInv' /\ MatrixOncePerRun' /\ MatrixNoEcho'
  BY <1>1 DEF MatrixInv, AnswerInv, HeardInv, EventsInOrder, MatrixOncePerRun, MatrixNoEcho
<1>4. TokenInv'
  BY DEF MatrixInv, TokenInv
<1> QED BY <1>2, <1>3, <1>4 DEF MatrixInv

LEMMA WorkEndsKeeps == ASSUME MatrixInv, WorkEnds PROVE MatrixInv'
<1> USE DEF WorkEnds
<1>1. Events' = Events /\ DOMAIN << >> = {} /\ Of(left) = {}
  BY DEF Events, Of
<1>2. MatrixTypeOK'
  BY <1>1, MatrixTypes DEF MatrixInv, MatrixTypeOK
<1>3. AnswerInv' /\ HeardInv' /\ MatrixOncePerRun' /\ MatrixNoEcho'
  BY DEF MatrixInv, AnswerInv, HeardInv, MatrixOncePerRun, MatrixNoEcho
<1>4. TokenInv'
  BY <1>1 DEF MatrixInv, TokenInv
<1> QED BY <1>2, <1>3, <1>4 DEF MatrixInv

LEMMA WorkOnKeeps == ASSUME MatrixInv, WorkOn PROVE MatrixInv'
<1> DEFINE h == Head(left)
<1>1. /\ syncing = "work" /\ left # << >> /\ left' = Tail(left) /\ worked' = Append(worked, h)
      /\ UNCHANGED <<timeline, since, upto, syncing, stopAsked, run>>
      /\ \/ /\ Hears(timeline[h]) /\ Trusts(timeline[h].from)
            /\ heard' = Append(heard, <<run, h>>) /\ unanswered' = unanswered \cup {h}
         \/ heard' = heard /\ unanswered' = unanswered
  BY DEF WorkOn
<1>2. /\ h \in Events /\ Tail(left) \in Seq(Events) /\ Of(left) = {h} \cup Of(Tail(left))
      /\ EventsInOrder(timeline, Tail(left))
      /\ \A e \in Of(Tail(left)) : h # e /\ (SameRoom(timeline, h, e) => h < e)
  BY <1>1, ListMoves, MatrixTypes DEF MatrixInv, AnswerInv
<1>3. \A d \in Of(worked) : d # h /\ (SameRoom(timeline, d, h) => d < h)
  BY <1>2 DEF MatrixInv, AnswerInv
<1>4. /\ Append(worked, h) \in Seq(Events) /\ Of(Append(worked, h)) = Of(worked) \cup {h}
      /\ EventsInOrder(timeline, Append(worked, h))
  BY <1>2, <1>3, ListGrows, MatrixTypes DEF MatrixInv, AnswerInv
<1>5. AnswerInv'
  BY <1>1, <1>2, <1>3, <1>4 DEF MatrixInv, AnswerInv
<1>6. TokenInv'
  BY <1>1, <1>2, <1>4 DEF MatrixInv, TokenInv
<1>7. CASE heard' = heard /\ unanswered' = unanswered
  <2>1. Events' = Events
    BY <1>1 DEF Events
  <2>2. MatrixTypeOK'
    BY <1>1, <1>2, <1>4, <1>7, <2>1 DEF MatrixInv, MatrixTypeOK
  <2>3. HeardInv' /\ MatrixOncePerRun' /\ MatrixNoEcho'
    BY <1>1, <1>4, <1>7 DEF MatrixInv, HeardInv, MatrixOncePerRun, MatrixNoEcho
  <2> QED BY <1>5, <1>6, <2>2, <2>3 DEF MatrixInv
<1>8. CASE /\ Hears(timeline[h]) /\ Trusts(timeline[h].from)
           /\ heard' = Append(heard, <<run, h>>) /\ unanswered' = unanswered \cup {h}
  <2>1. Events' = Events
    BY <1>1 DEF Events
  <2>2. run \in 1..MaxRuns
    <3>1. run \in 0..MaxRuns /\ run # 0
      BY <1>1 DEF MatrixInv, MatrixTypeOK, HeardInv
    <3> QED BY <3>1, MatrixAssumption
  <2>3. PICK n \in Nat : n = Len(heard)
    <3>1. heard \in Seq((1..MaxRuns) \X Events)
      BY MatrixTypes
    <3> QED BY <3>1
  <2>4. /\ heard' \in Seq((1..MaxRuns) \X Events) /\ DOMAIN heard = 1..n /\ DOMAIN heard' = 1..(n + 1)
        /\ \A i \in 1..n : heard'[i] = heard[i]
        /\ heard'[n + 1] = <<run, h>> /\ heard'[n + 1][1] = run /\ heard'[n + 1][2] = h
    <3>1. PICK pair \in (1..MaxRuns) \X Events : pair = <<run, h>> /\ pair[1] = run /\ pair[2] = h
      <4>1. <<run, h>> \in (1..MaxRuns) \X Events
        BY <1>2, <2>2
      <4>2. <<run, h>>[1] = run /\ <<run, h>>[2] = h
        OBVIOUS
      <4> QED BY <4>1, <4>2, Zenon
    <3>2. heard \in Seq((1..MaxRuns) \X Events) /\ heard' = Append(heard, pair)
      BY <1>8, <3>1, MatrixTypes
    <3>3. /\ heard' \in Seq((1..MaxRuns) \X Events) /\ DOMAIN heard = 1..n /\ DOMAIN heard' = 1..(n + 1)
          /\ \A i \in 1..n : heard'[i] = heard[i]
          /\ heard'[n + 1] = pair
      BY <2>3, <3>2
    <3> QED BY <3>1, <3>3
  <2>5. \A i \in 1..(n + 1) : i \in 1..n \/ i = n + 1
    BY <2>3
  <2>6. MatrixTypeOK'
    BY <1>1, <1>2, <1>4, <1>8, <2>1, <2>4 DEF MatrixInv, MatrixTypeOK
  <2>7. HeardInv'
    <3>1. \A i \in 1..n : heard[i][1] <= run /\ (heard[i][1] = run => heard[i][2] \in Of(worked))
      BY <2>4 DEF MatrixInv, HeardInv
    <3>2. \A i \in 1..(n + 1) : heard'[i][1] <= run /\ (heard'[i][1] = run => heard'[i][2] \in Of(worked) \cup {h})
      BY <2>2, <2>4, <2>5, <3>1
    <3> QED BY <1>1, <1>4, <2>4, <3>2 DEF HeardInv
  <2>8. MatrixOncePerRun'
    <3>1. \A i, j \in 1..n : i < j /\ heard[i][1] = heard[j][1] =>
            /\ heard[i][2] # heard[j][2]
            /\ SameRoom(timeline, heard[i][2], heard[j][2]) => heard[i][2] < heard[j][2]
      BY <2>4 DEF MatrixInv, MatrixOncePerRun, SameRoom
    <3>2. \A i \in 1..n : heard[i][1] = run =>
            heard[i][2] # h /\ (SameRoom(timeline, heard[i][2], h) => heard[i][2] < h)
      BY <1>3, <2>4 DEF MatrixInv, HeardInv
    <3>3. \A i, j \in 1..(n + 1) : i < j => i \in 1..n /\ (j \in 1..n \/ j = n + 1)
      BY <2>3
    <3>4. \A i, j \in 1..(n + 1) : i < j /\ heard'[i][1] = heard'[j][1] =>
            /\ heard'[i][2] # heard'[j][2]
            /\ SameRoom(timeline, heard'[i][2], heard'[j][2]) => heard'[i][2] < heard'[j][2]
      <4> SUFFICES ASSUME NEW i \in 1..(n + 1), NEW j \in 1..(n + 1), i < j, heard'[i][1] = heard'[j][1]
                   PROVE  /\ heard'[i][2] # heard'[j][2]
                          /\ SameRoom(timeline, heard'[i][2], heard'[j][2]) => heard'[i][2] < heard'[j][2]
        OBVIOUS
      <4>1. CASE j \in 1..n
        <5>1. i \in 1..n /\ heard'[i] = heard[i] /\ heard'[j] = heard[j]
          BY <2>4, <3>3, <4>1
        <5>2. heard[i][1] = heard[j][1]
          BY <5>1
        <5> QED BY <3>1, <4>1, <5>1, <5>2
      <4>2. CASE j = n + 1
        <5>1. i \in 1..n /\ heard'[i] = heard[i]
          BY <2>4, <3>3
        <5>2. heard[i][1] = run /\ heard'[j][2] = h
          BY <2>4, <4>2, <5>1
        <5> QED BY <3>2, <5>1, <5>2
      <4> QED BY <3>3, <4>1, <4>2
    <3> QED BY <1>1, <2>4, <3>4 DEF MatrixOncePerRun, SameRoom
  <2>9. MatrixNoEcho'
    <3>1. timeline[h].from # Bot
      BY <1>8, MatrixAssumption DEF Hears, Trusts, Bot
    <3> QED BY <1>1, <2>4, <2>5, <3>1 DEF MatrixInv, MatrixNoEcho
  <2> QED BY <1>5, <1>6, <2>6, <2>7, <2>8, <2>9 DEF MatrixInv
<1> QED BY <1>1, <1>7, <1>8

(* A sequence of as many as there are, none of them twice, names them all. *)
LEMMA NamesThemAll ==
  ASSUME NEW S, IsFiniteSet(S), NEW n \in Nat, n = Cardinality(S), NEW list \in [1..n -> S],
         \A i, j \in 1..n : i < j => list[i] # list[j]
  PROVE  Of(list) = S
<1>1. \A i, j \in 1..n : i # j => list[i] # list[j]
  <2>1. \A i, j \in 1..n : i # j => i < j \/ j < i
    OBVIOUS
  <2> QED BY <2>1
<1>2. list \in Injection(1..n, S)
  BY <1>1 DEF Injection, IsInjective
<1>3. Cardinality(1..n) = n
  BY FS_Interval
<1>4. list \in Surjection(1..n, S)
  BY <1>2, <1>3, FS_Injection
<1> QED BY <1>4 DEF Surjection, Of

LEMMA SyncedKeeps == ASSUME MatrixInv, Synced PROVE MatrixInv'
<1>1. PICK answer \in Answers(since) : left' = answer
  BY DEF Synced
<1>2. /\ syncing = "sync" /\ syncing' = "work" /\ upto' = Len(timeline)
      /\ UNCHANGED <<timeline, since, stopAsked, run, worked, heard, unanswered>>
  BY DEF Synced
<1>3. Events' = Events /\ Events = 1..Len(timeline) /\ Len(timeline) \in Nat /\ IsFiniteSet(Events)
  <2>1. IsFiniteSet(1..Len(timeline))
    BY MatrixTypes, FS_Interval
  <2> QED BY <1>2, <2>1, MatrixTypes DEF Events
<1>4. Recent(since) \subseteq Events /\ IsFiniteSet(Recent(since))
  BY <1>3, FS_Subset DEF Recent
<1>5. PICK n \in Nat : n = Cardinality(Recent(since))
  BY <1>4, FS_CardinalityType
<1>6. /\ answer \in [1..n -> Recent(since)]
      /\ \A i, j \in 1..n : i < j =>
           answer[i] # answer[j] /\ (SameRoom(timeline, answer[i], answer[j]) => answer[i] < answer[j])
  BY <1>1, <1>5 DEF Answers, SameRoom
<1>7. Of(answer) = Recent(since)
  BY <1>4, <1>5, <1>6, NamesThemAll
<1>8. left' \in Seq(Events) /\ EventsInOrder(timeline, left') /\ Of(left') = Recent(since)
  <2>1. answer \in [1..n -> Events] /\ DOMAIN answer = 1..n
    BY <1>4, <1>6
  <2>2. answer \in Seq(Events)
    BY <2>1
  <2> QED BY <1>1, <1>6, <1>7, <2>1, <2>2 DEF EventsInOrder
<1>9. \A e \in Recent(since) : e \in Events /\ since < e
  BY MatrixTypes DEF Recent, Events
<1>10. \A e \in Events : e > since => e \in Recent(since) \/ Flooded(timeline, e, Len(timeline))
  <2> SUFFICES ASSUME NEW e \in Events, e > since, e \notin Recent(since) PROVE Flooded(timeline, e, Len(timeline))
    OBVIOUS
  <2>1. LaterInRoom(e) = {f \in (e + 1)..Len(timeline) : SameRoom(timeline, f, e)}
    BY <1>3 DEF LaterInRoom, SameRoom
  <2>2. ~(Cardinality(LaterInRoom(e)) < Window)
    BY DEF Recent
  <2>3. IsFiniteSet(LaterInRoom(e))
    BY <1>3, FS_Subset DEF LaterInRoom
  <2>4. Cardinality(LaterInRoom(e)) \in Nat
    BY <2>3, FS_CardinalityType
  <2>5. Cardinality(LaterInRoom(e)) >= Window
    BY <2>2, <2>4, MatrixAssumption
  <2> QED BY <2>1, <2>5 DEF Flooded
<1>11. \A e \in 1..since : Flooded(timeline, e, since) => Flooded(timeline, e, Len(timeline))
  <2> SUFFICES ASSUME NEW e \in 1..since, Flooded(timeline, e, since) PROVE Flooded(timeline, e, Len(timeline))
    OBVIOUS
  <2> DEFINE A == {f \in (e + 1)..since : SameRoom(timeline, f, e)}
             B == {f \in (e + 1)..Len(timeline) : SameRoom(timeline, f, e)}
  <2>1. A \subseteq B
    BY <1>3, MatrixTypes
  <2>2. B \subseteq Events /\ IsFiniteSet(B)
    <3>1. B \subseteq Events
      BY <1>3, MatrixTypes
    <3> QED BY <1>3, <3>1, FS_Subset
  <2>3. Cardinality(A) <= Cardinality(B) /\ Cardinality(B) \in Nat /\ IsFiniteSet(A)
    BY <2>1, <2>2, FS_Subset, FS_CardinalityType
  <2>4. Cardinality(A) \in Nat /\ Cardinality(A) >= Window
    BY <2>3, FS_CardinalityType DEF Flooded
  <2> HIDE DEF A, B
  <2>5. Cardinality(B) >= Window
    BY <2>3, <2>4, MatrixAssumption
  <2> QED BY <2>5 DEF Flooded, B
<1>12. \A e \in Of(worked) : e <= since /\ e \in Events
  BY <1>2, MatrixTypes DEF MatrixInv, TokenInv
<1>13. MatrixTypeOK'
  BY <1>2, <1>3, <1>8 DEF MatrixInv, MatrixTypeOK
<1>14. AnswerInv'
  <2>1. \A d \in Of(worked), e \in Recent(since) : d # e /\ d < e
    BY <1>3, <1>9, <1>12, MatrixTypes
  <2> QED BY <1>2, <1>8, <2>1 DEF MatrixInv, AnswerInv
<1>15. TokenInv'
  <2>1. since <= Len(timeline) /\ \A e \in Recent(since) : since < e /\ e <= Len(timeline)
    BY <1>3, <1>9, MatrixTypes
  <2>2. \A e \in Of(worked) : e <= Len(timeline)
    BY <1>3, <1>12
  <2>3. \A e \in 1..since : e \in Of(worked) \/ Flooded(timeline, e, since)
    BY <1>2 DEF MatrixInv, TokenInv
  <2>4. \A e \in 1..Len(timeline) :
          e \in Of(worked) \/ e \in Recent(since) \/ Flooded(timeline, e, Len(timeline))
    <3>1. \A e \in 1..Len(timeline) : e \in 1..since \/ e > since
      BY <1>3, MatrixTypes
    <3> QED BY <1>3, <1>10, <1>11, <2>3, <3>1
  <2> QED BY <1>2, <1>8, <2>1, <2>2, <2>3, <2>4 DEF TokenInv
<1>16. HeardInv' /\ MatrixOncePerRun' /\ MatrixNoEcho'
  BY <1>2 DEF MatrixInv, HeardInv, MatrixOncePerRun, MatrixNoEcho
<1> QED BY <1>13, <1>14, <1>15, <1>16 DEF MatrixInv

LEMMA MatrixStepKeeps == MatrixInv /\ [MatrixNext]_matrixVars => MatrixInv'
<1> SUFFICES ASSUME MatrixInv, [MatrixNext]_matrixVars PROVE MatrixInv'
  OBVIOUS
<1>0. syncing \in {"down", "top", "sync", "work", "sleep"} /\ stopAsked \in BOOLEAN
  BY DEF MatrixInv, MatrixTypeOK
<1>1. CASE UserSays
  <2>1. PICK u \in RoomUsers : Say(u)
    BY <1>1 DEF UserSays
  <2> QED BY <1>1, <2>1, TimelineGrows DEF UserSays, RoomEvents
<1>2. CASE MatrixReply
  <2>1. PICK e \in unanswered : /\ Say([room |-> timeline[e].room, from |-> Bot])
                                /\ unanswered' = unanswered \ {e}
    BY <1>2 DEF MatrixReply
  <2>2. timeline[e] \in RoomEvents
    BY <2>1, MatrixTypes
  <2>3. [room |-> timeline[e].room, from |-> Bot] \in RoomEvents
    BY <2>2 DEF RoomEvents, Rooms
  <2> QED BY <1>2, <2>1, <2>3, TimelineGrows DEF MatrixReply
<1>3. CASE MatrixStops \/ Ask \/ SyncFails \/ SleepEnds \/ MatrixStop
  BY <1>0, <1>3, LoopGoesRound DEF MatrixStops, Ask, SyncFails, SleepEnds, MatrixStop
<1>4. CASE UNCHANGED matrixVars
  BY <1>0, <1>4, LoopGoesRound DEF matrixVars
<1> QED BY <1>1, <1>2, <1>3, <1>4, MatrixStartKeeps, SyncedKeeps, WorkOnKeeps, WorkEndsKeeps, MatrixCrashKeeps
        DEF MatrixNext

(* The sync loop of Matrix hands over each event once in a run, in the     *)
(* order of its room, none of the bot's own and none missed but in a flood *)
(* (matrix.rs, start).                                                     *)
THEOREM MatrixHearsAlways == MatrixSpec => []MatrixHears
<1>1. MatrixInv => MatrixHears
  <2> SUFFICES ASSUME MatrixInv PROVE MatrixMissesOnlyFloods
    BY DEF MatrixInv, MatrixHears
  <2>1. syncing # "down" => \A e \in 1..since : e \in Of(worked) \/ Flooded(timeline, e, since)
    BY DEF MatrixInv, TokenInv
  <2> QED BY <2>1 DEF MatrixMissesOnlyFloods, Of, Flooded, SameRoom
<1> QED BY <1>1, MatrixInitHolds, MatrixStepKeeps, PTL DEF MatrixSpec

-----------------------------------------------------------------------------
(* Webhooks.                                                               *)
WebhookTypes ==
  /\ configured \in Configurations /\ pending \subseteq configured
  /\ registry \in [Kinds -> SUBSET Sections]
  /\ server \in [Sections -> {"off", "binding", "serving", "draining", "failed", "ended"}]
  /\ flagged \in [Sections -> BOOLEAN]
  /\ deliveries \in Seq(Arriving) /\ Len(deliveries) <= MaxDeliveries
  /\ \A r \in requests : /\ r.number \in DOMAIN deliveries /\ r.post = deliveries[r.number]
                         /\ r = [post |-> r.post, number |-> r.number, left |-> r.left]
  /\ \A t \in spawned : t[1].kind = "wechat_work"
  /\ acknowledged \subseteq Arriving

(* A kind has the last of its sections that was registered; only these are *)
(* started, and two that want the same port do not both serve.             *)
RegistryInv ==
  /\ \A k \in Kinds : \A c \in registry[k] : c \in configured /\ c.kind = k
  /\ \A c \in configured \ pending : \E d \in configured : registry[c.kind] = {d}
  /\ \A c \in configured : server[c] # "off" => pending = {} /\ c \in registry[c.kind]
  /\ \A c, d \in configured : c # d /\ c.port = d.port => ~(server[c] = "serving" /\ server[d] = "serving")

Genuine(p) == p.parses /\ (p.kind \in Secrets => p.signed)

(* What a handler still has to hand over is of a genuine post, and behind  *)
(* everything of the same delivery that is on the bus.                     *)
RequestInv ==
  /\ \A r, s \in requests : r.number = s.number => r = s
  /\ \A r \in requests : \A i \in r.left :
       /\ i \in DOMAIN r.post.items /\ Genuine(r.post)
       /\ r.post.kind # "wechat_work" => r.post.items[i].form # "blank"
       /\ \A j \in DOMAIN passed : passed[j][2] = r.number => passed[j][3] < i

PassedInv ==
  \A i \in DOMAIN passed :
    /\ passed[i][2] \in DOMAIN deliveries /\ passed[i][1] = deliveries[passed[i][2]]
    /\ passed[i][3] \in DOMAIN passed[i][1].items
    /\ Genuine(passed[i][1]) /\ passed[i][1].items[passed[i][3]].form # "blank"
    /\ \A j \in DOMAIN passed : i < j /\ passed[i][2] = passed[j][2] => passed[i][3] < passed[j][3]

WebhookInv ==
  WebhookTypes /\ passed \in Seq(Arriving \X Nat \X Nat) /\ RegistryInv /\ RequestInv /\ PassedInv

(* The ids that are remembered are all that were let through since they    *)
(* were last forgotten, and that happens after Capacity + 1 of them.       *)
Count(s, x) == Cardinality({i \in DOMAIN s : s[i] = x})

ForgottenInv ==
  \E n \in Nat :
    /\ Len(accepted) = n * (Capacity + 1) + Cardinality(processed)
    /\ accepted # <<>> => processed # {}
    /\ \A id \in MsgIds : Count(accepted, id) <= n + (IF id \in processed THEN 1 ELSE 0)

Task == [id : MsgIds, step : {"new", "accepted", "done"}]
WecomIds == MsgIds \ {""}

WecomTypes ==
  /\ tasks \in Seq(Task)
  /\ processed \subseteq WecomIds /\ IsFiniteSet(processed) /\ Cardinality(processed) <= Capacity + 1
  /\ accepted \in Seq(WecomIds)

WecomInv == WecomTypes /\ ForgottenInv

LEMMA WebhookInitHolds == WebhookInit => WebhookInv
<1> SUFFICES ASSUME WebhookInit PROVE WebhookInv
  OBVIOUS
<1> USE DEF WebhookInit
<1>1. DOMAIN << >> = {} /\ Len(<< >>) = 0 /\ \A S : << >> \in Seq(S)
  OBVIOUS
<1>2. registry \in [Kinds -> SUBSET Sections] /\ \A k \in Kinds : registry[k] = {}
  OBVIOUS
<1>3. WebhookTypes
  BY <1>1, <1>2, WebhookAssumption DEF WebhookTypes
<1>4. RegistryInv
  <2>1. \A c \in configured : c \in Sections /\ server[c] = "off"
    BY DEF Sections
  <2> QED BY <1>2, <2>1 DEF RegistryInv
<1>5. RequestInv /\ PassedInv
  BY <1>1 DEF RequestInv, PassedInv
<1> QED BY <1>1, <1>3, <1>4, <1>5 DEF WebhookInv

(* A handler takes nothing out of a post that is not genuine, and only the *)
(* one of wechat_work takes what is blank.                                 *)
LEMMA AnswersAreGenuine ==
  ASSUME NEW p \in Arriving
  PROVE  /\ AnswerTo(p).items \subseteq DOMAIN p.items
         /\ AnswerTo(p).items # {} => Genuine(p)
         /\ p.kind # "wechat_work" => \A i \in AnswerTo(p).items : p.items[i].form # "blank"
<1>1. p.kind \in ChannelKinds
  BY WebhookAssumption DEF Post
<1>2. \A status, items : Answer(status, items).items = items
  BY DEF Answer
<1>3. \A forms : /\ ItemsOf(p, forms) \subseteq DOMAIN p.items
                 /\ "blank" \notin forms => \A i \in ItemsOf(p, forms) : p.items[i].form # "blank"
  BY DEF ItemsOf
<1> DEFINE Fine(items) == /\ items \subseteq DOMAIN p.items /\ (items # {} => Genuine(p))
                          /\ p.kind # "wechat_work" => \A i \in items : p.items[i].form # "blank"
<1>4. CASE p.kind = "slack"
  <2>1. AnswerTo(p) = SlackAnswer(p)
    BY <1>4 DEF AnswerTo
  <2>2. \/ SlackAnswer(p).items = {}
        \/ Signed(p) /\ p.parses /\ SlackAnswer(p).items = ItemsOf(p, {"text"})
    BY <1>2 DEF SlackAnswer
  <2> QED BY <1>3, <2>1, <2>2 DEF Genuine, Signed
<1>5. CASE p.kind = "webhook"
  <2>1. AnswerTo(p) = WebhookAnswer(p)
    BY <1>5 DEF AnswerTo
  <2>2. \/ WebhookAnswer(p).items = {}
        \/ Signed(p) /\ p.parses /\ WebhookAnswer(p).items = ItemsOf(p, {"text"})
    BY <1>2 DEF WebhookAnswer
  <2> QED BY <1>3, <2>1, <2>2 DEF Genuine, Signed
<1>6. CASE p.kind = "dingtalk"
  <2>1. AnswerTo(p) = DingtalkAnswer(p)
    BY <1>6 DEF AnswerTo
  <2>2. \/ DingtalkAnswer(p).items = {}
        \/ Signed(p) /\ p.parses /\ DingtalkAnswer(p).items = ItemsOf(p, {"text"})
    BY <1>2 DEF DingtalkAnswer
  <2> QED BY <1>3, <2>1, <2>2 DEF Genuine, Signed
<1>7. CASE p.kind = "feishu"
  <2>1. AnswerTo(p) = FeishuAnswer(p)
    BY <1>7 DEF AnswerTo
  <2>2. \/ FeishuAnswer(p).items = {}
        \/ Signed(p) /\ p.parses /\ FeishuAnswer(p).items = ItemsOf(p, {"text", "image", "sticker"})
    <3>1. CASE p.event = "challenge"
      BY <1>2, <3>1 DEF FeishuAnswer
    <3>2. CASE p.event # "challenge" /\ p.event # "message"
      <4>1. FeishuAnswer(p) \in {Answer(status, {}) : status \in {"bad request", "forbidden", "ok"}}
        BY <3>2 DEF FeishuAnswer
      <4> QED BY <1>2, <4>1
    <3>3. CASE p.event = "message"
      <4>1. p.event # "challenge"
        BY <3>3
      <4> QED BY <1>2, <3>3, <4>1 DEF FeishuAnswer
    <3> QED BY <3>1, <3>2, <3>3
  <2> QED BY <1>3, <2>1, <2>2 DEF Genuine, Signed
<1>8. CASE p.kind = "wechat_work"
  <2>1. AnswerTo(p) = WecomAnswer(p)
    BY <1>8 DEF AnswerTo
  <2>2. \/ WecomAnswer(p).items = {}
        \/ p.signed /\ p.parses /\ WecomAnswer(p).items = DOMAIN p.items
    BY <1>2 DEF WecomAnswer
  <2> QED BY <1>3, <1>8, <2>1, <2>2 DEF Genuine, Signed
<1>9. CASE p.kind = "whatsapp"
  <2>1. AnswerTo(p) = WhatsappAnswer(p)
    BY <1>9 DEF AnswerTo
  <2>2. \/ WhatsappAnswer(p).items = {}
        \/ Signed(p) /\ p.parses /\ WhatsappAnswer(p).items = ItemsOf(p, {"text", "image"})
    BY <1>2 DEF WhatsappAnswer
  <2> QED BY <1>3, <2>1, <2>2 DEF Genuine, Signed
<1> QED BY <1>1, <1>4, <1>5, <1>6, <1>7, <1>8, <1>9 DEF ChannelKinds

(* Registration, start and stop leave the handlers alone.                  *)
LEMMA SectionsAreThere ==
  ASSUME WebhookInv
  PROVE  /\ \A c \in configured : c \in Sections /\ c.kind \in Kinds
         /\ server \in [Sections -> {"off", "binding", "serving", "draining", "failed", "ended"}]
         /\ registry \in [Kinds -> SUBSET Sections]
BY DEF WebhookInv, WebhookTypes, Sections, Kinds

LEMMA HandlersStay ==
  ASSUME WebhookInv, UNCHANGED <<configured, requests, spawned, deliveries, acknowledged, passed>>,
         pending' \subseteq configured, registry' \in [Kinds -> SUBSET Sections],
         server' \in [Sections -> {"off", "binding", "serving", "draining", "failed", "ended"}],
         flagged' \in [Sections -> BOOLEAN], RegistryInv'
  PROVE  WebhookInv'
<1>1. WebhookTypes'
  BY DEF WebhookInv, WebhookTypes
<1>2. RequestInv' /\ PassedInv'
  BY DEF WebhookInv, RequestInv, PassedInv
<1> QED BY <1>1, <1>2 DEF WebhookInv

LEMMA RegisterKeeps == ASSUME WebhookInv, Register PROVE WebhookInv'
<1>1. PICK c \in pending : /\ pending' = pending \ {c} /\ registry' = [registry EXCEPT ![c.kind] = {c}]
                           /\ UNCHANGED <<configured, posting, server, flagged, requests, spawned, deliveries,
                                          acknowledged, passed>>
  BY DEF Register
<1>2. /\ c \in configured /\ c \in Sections /\ c.kind \in Kinds /\ pending \subseteq configured
      /\ flagged \in [Sections -> BOOLEAN]
  BY SectionsAreThere DEF WebhookInv, WebhookTypes
<1>3. /\ registry' \in [Kinds -> SUBSET Sections] /\ registry'[c.kind] = {c}
      /\ \A k \in Kinds : k # c.kind => registry'[k] = registry[k]
  BY <1>1, <1>2, SectionsAreThere
<1>4. RegistryInv'
  <2>1. \A k \in Kinds : \A d \in registry'[k] : d \in configured /\ d.kind = k
    BY <1>2, <1>3 DEF WebhookInv, RegistryInv
  <2>2. \A d \in configured \ pending' : \E e \in configured : registry'[d.kind] = {e}
    <3> SUFFICES ASSUME NEW d \in configured \ pending' PROVE \E e \in configured : registry'[d.kind] = {e}
      OBVIOUS
    <3>1. CASE d.kind = c.kind
      BY <1>2, <1>3, <3>1
    <3>2. CASE d.kind # c.kind
      BY <1>1, <1>3, <3>2, SectionsAreThere DEF WebhookInv, RegistryInv
    <3> QED BY <3>1, <3>2
  <2>3. \A d \in configured : server[d] = "off"
    BY <1>1 DEF WebhookInv, RegistryInv
  <2> QED BY <1>1, <2>1, <2>2, <2>3 DEF RegistryInv
<1> QED BY <1>1, <1>2, <1>3, <1>4, HandlersStay, SectionsAreThere

LEMMA StartAllKeeps == ASSUME WebhookInv, StartAll PROVE WebhookInv'
<1> USE DEF StartAll
<1>1. /\ server' \in [Sections -> {"off", "binding", "serving", "draining", "failed", "ended"}]
      /\ flagged' \in [Sections -> BOOLEAN]
      /\ \A c \in Sections : server'[c] = IF c \in Registered THEN "binding" ELSE "off"
  OBVIOUS
<1>2. \A c \in configured : c \in Registered => c \in registry[c.kind]
  BY DEF WebhookInv, RegistryInv, Registered
<1>3. RegistryInv'
  <2>1. \A c \in configured : c \in Sections
    BY SectionsAreThere
  <2> QED BY <1>1, <1>2, <2>1 DEF WebhookInv, RegistryInv
<1> QED BY <1>1, <1>3, HandlersStay, SectionsAreThere DEF WebhookInv, WebhookTypes

LEMMA BindKeeps == ASSUME WebhookInv, NEW c \in configured, Bind(c) PROVE WebhookInv'
<1> USE DEF Bind
<1>1. c \in Sections /\ \A d \in configured : d \in Sections
  BY SectionsAreThere
<1>2. PICK state \in {"failed", "serving"} :
        /\ server' = [server EXCEPT ![c] = state]
        /\ state = "serving" => \A d \in configured : d.port = c.port => server[d] # "serving"
  OBVIOUS
<1>3. /\ server' \in [Sections -> {"off", "binding", "serving", "draining", "failed", "ended"}]
      /\ server'[c] = state /\ \A d \in Sections : d # c => server'[d] = server[d]
  BY <1>1, <1>2, SectionsAreThere
<1>4. RegistryInv'
  <2>1. \A d \in configured : server'[d] # "off" => server[d] # "off"
    BY <1>1, <1>3
  <2>2. \A d, e \in configured : d # e /\ d.port = e.port => ~(server'[d] = "serving" /\ server'[e] = "serving")
    BY <1>1, <1>2, <1>3 DEF WebhookInv, RegistryInv
  <2> QED BY <2>1, <2>2 DEF WebhookInv, RegistryInv
<1> QED BY <1>3, <1>4, HandlersStay, SectionsAreThere DEF WebhookInv, WebhookTypes

LEMMA StopAllKeeps == ASSUME WebhookInv, StopAll \/ (\E c \in configured : Drained(c)) PROVE WebhookInv'
<1>1. /\ server' \in [Sections -> {"off", "binding", "serving", "draining", "failed", "ended"}]
      /\ flagged' \in [Sections -> BOOLEAN]
      /\ \A c \in Sections : /\ server'[c] # "off" => server[c] # "off"
                             /\ server'[c] = "serving" => server[c] = "serving"
      /\ UNCHANGED <<configured, pending, registry, requests, spawned, deliveries, acknowledged, passed>>
  <2>1. CASE StopAll
    BY <2>1, SectionsAreThere DEF StopAll
  <2>2. ASSUME NEW c \in configured, Drained(c)
        PROVE  <1>1!1 /\ <1>1!2 /\ <1>1!3 /\ <1>1!4
    <3>1. c \in Sections /\ server[c] = "draining" /\ server' = [server EXCEPT ![c] = "ended"]
      BY <2>2, SectionsAreThere DEF Drained
    <3> QED BY <2>2, <3>1, SectionsAreThere DEF Drained, WebhookInv, WebhookTypes
  <2> QED BY <2>1, <2>2
<1>2. \A c \in configured : c \in Sections
  BY SectionsAreThere
<1>3. RegistryInv'
  <2>1. RegistryInv
    BY DEF WebhookInv
  <2>2. configured' = configured /\ pending' = pending /\ registry' = registry
    BY <1>1
  <2>3. \A c \in configured : server'[c] # "off" => server[c] # "off"
    BY <1>1, <1>2
  <2>4. \A c \in configured : server'[c] = "serving" => server[c] = "serving"
    BY <1>1, <1>2
  <2>5. \A c \in configured : server'[c] # "off" => pending = {} /\ c \in registry[c.kind]
    BY <2>1, <2>3 DEF RegistryInv
  <2>6. \A c, d \in configured : c # d /\ c.port = d.port => ~(server'[c] = "serving" /\ server'[d] = "serving")
    BY <2>1, <2>4 DEF RegistryInv
  <2> QED BY <2>1, <2>2, <2>5, <2>6 DEF RegistryInv
<1> QED BY <1>1, <1>3, HandlersStay, SectionsAreThere DEF WebhookInv, WebhookTypes

(* The handlers leave the sections alone.                                  *)
LEMMA SectionsStay ==
  ASSUME WebhookInv, UNCHANGED <<configured, pending, registry, server, flagged>>
  PROVE  RegistryInv'
BY DEF WebhookInv, RegistryInv

LEMMA DeliverKeeps == ASSUME WebhookInv, NEW p \in Arriving, Deliver(p) PROVE WebhookInv'
<1> DEFINE n == Len(deliveries) + 1  r == [post |-> p, number |-> n, left |-> AnswerTo(p).items]
<1> USE DEF Deliver
<1>1. /\ deliveries \in Seq(Arriving) /\ deliveries' = Append(deliveries, p) /\ deliveries' \in Seq(Arriving)
      /\ Len(deliveries') = n /\ n <= MaxDeliveries /\ n \in Nat /\ Len(deliveries) \in Nat
      /\ DOMAIN deliveries = 1..Len(deliveries) /\ DOMAIN deliveries' = 1..n /\ deliveries'[n] = p
      /\ \A i \in DOMAIN deliveries : i \in DOMAIN deliveries' /\ i # n /\ deliveries'[i] = deliveries[i]
  BY WebhookAssumption DEF WebhookInv, WebhookTypes
<1>2. /\ requests' = requests \cup {r} /\ r.post = p /\ r.number = n /\ r.left = AnswerTo(p).items
      /\ r = [post |-> r.post, number |-> r.number, left |-> r.left]
  BY <1>1
<1>3. \A i \in DOMAIN passed : passed[i][2] \in DOMAIN deliveries
  BY DEF WebhookInv, PassedInv
<1> HIDE DEF r
<1>4. WebhookTypes'
  <2>1. \A s \in requests' : /\ s.number \in DOMAIN deliveries' /\ s.post = deliveries'[s.number]
                             /\ s = [post |-> s.post, number |-> s.number, left |-> s.left]
    <3>1. n \in DOMAIN deliveries'
      BY <1>1
    <3> QED BY <1>1, <1>2, <3>1 DEF WebhookInv, WebhookTypes
  <2> QED BY <1>1, <2>1 DEF WebhookInv, WebhookTypes
<1>5. RequestInv'
  <2>1. \A s \in requests : s.number # n
    BY <1>1 DEF WebhookInv, WebhookTypes
  <2>2. \A s, t \in requests' : s.number = t.number => s = t
    BY <1>2, <2>1 DEF WebhookInv, RequestInv
  <2>3. \A i \in r.left : i \in DOMAIN r.post.items /\ Genuine(r.post)
                          /\ (r.post.kind # "wechat_work" => r.post.items[i].form # "blank")
    BY <1>2, AnswersAreGenuine
  <2>4. \A j \in DOMAIN passed : passed[j][2] # r.number
    BY <1>1, <1>2, <1>3
  <2>5. \A s \in requests' : \A i \in s.left :
          /\ i \in DOMAIN s.post.items /\ Genuine(s.post)
          /\ s.post.kind # "wechat_work" => s.post.items[i].form # "blank"
          /\ \A j \in DOMAIN passed : passed[j][2] = s.number => passed[j][3] < i
    BY <1>2, <2>3, <2>4 DEF WebhookInv, RequestInv
  <2> QED BY <2>2, <2>5 DEF RequestInv
<1>6. PassedInv'
  BY <1>1, <1>3 DEF WebhookInv, PassedInv
<1> QED BY <1>4, <1>5, <1>6, SectionsStay DEF WebhookInv

LEMMA TypesStay ==
  ASSUME WebhookInv, UNCHANGED <<configured, pending, registry, server, flagged, deliveries>>,
         \A r \in requests' : /\ r.number \in DOMAIN deliveries /\ r.post = deliveries[r.number]
                              /\ r = [post |-> r.post, number |-> r.number, left |-> r.left],
         \A t \in spawned' : t[1].kind = "wechat_work", acknowledged' \subseteq Arriving
  PROVE  WebhookTypes'
BY DEF WebhookInv, WebhookTypes

(* A handler goes on with less than it had.                                *)
LEMMA RequestGoesOn ==
  ASSUME WebhookInv, NEW r \in requests, NEW rest \in SUBSET r.left
  PROVE  \E s : /\ s = [r EXCEPT !.left = rest]
                /\ s.post = r.post /\ s.number = r.number /\ s.left = rest
                /\ s = [post |-> s.post, number |-> s.number, left |-> s.left]
<1>1. r = [post |-> r.post, number |-> r.number, left |-> r.left]
  BY DEF WebhookInv, WebhookTypes
<1>2. PICK p, n, l : r = [post |-> p, number |-> n, left |-> l]
  BY <1>1
<1> WITNESS [r EXCEPT !.left = rest]
<1> QED BY <1>2

LEMMA HandleItemKeeps == ASSUME WebhookInv, NEW r \in requests, HandleItem(r) PROVE WebhookInv'
<1>1. PICK i \in r.left : /\ IsFirst(i, r.left) /\ HandMessage(r, i)
                          /\ requests' = (requests \ {r}) \cup {[r EXCEPT !.left = @ \ {i}]}
  BY DEF HandleItem
<1>2. PICK s : /\ requests' = (requests \ {r}) \cup {s}
               /\ s.post = r.post /\ s.number = r.number /\ s.left = r.left \ {i}
               /\ s = [post |-> s.post, number |-> s.number, left |-> s.left]
  <2>1. r.left \ {i} \in SUBSET r.left
    OBVIOUS
  <2>2. [r EXCEPT !.left = @ \ {i}] = [r EXCEPT !.left = r.left \ {i}]
    BY DEF WebhookInv, WebhookTypes
  <2>3. PICK s : /\ s = [r EXCEPT !.left = r.left \ {i}]
                 /\ s.post = r.post /\ s.number = r.number /\ s.left = r.left \ {i}
                 /\ s = [post |-> s.post, number |-> s.number, left |-> s.left]
    BY <2>1, RequestGoesOn
  <2> QED BY <1>1, <2>2, <2>3
<1>3. /\ UNCHANGED <<configured, posting, pending, registry, server, flagged, spawned, deliveries, acknowledged>>
      /\ r.post.kind # "wechat_work"
  BY DEF HandleItem
<1>4. /\ r.number \in DOMAIN deliveries /\ r.post = deliveries[r.number] /\ r.post \in Arriving /\ r.number \in Nat
      /\ DOMAIN r.post.items \subseteq Nat
  <2>1. deliveries \in Seq(Arriving) /\ r.number \in DOMAIN deliveries /\ r.post = deliveries[r.number]
    BY DEF WebhookInv, WebhookTypes
  <2>2. r.post \in Arriving /\ r.number \in Nat
    BY <2>1
  <2>3. r.post \in Post
    BY <2>2, WebhookAssumption
  <2>4. r.post.items \in Seq(Item)
    BY <2>3 DEF Post
  <2> QED BY <2>1, <2>2, <2>4
<1>5. WebhookTypes'
  <2>1. \A q \in requests' : /\ q.number \in DOMAIN deliveries /\ q.post = deliveries[q.number]
                             /\ q = [post |-> q.post, number |-> q.number, left |-> q.left]
    BY <1>2, <1>4 DEF WebhookInv, WebhookTypes
  <2> QED BY <1>3, <2>1, TypesStay DEF WebhookInv, WebhookTypes
<1>6. /\ i \in DOMAIN r.post.items /\ Genuine(r.post) /\ r.post.items[i].form # "blank"
      /\ \A j \in DOMAIN passed : passed[j][2] = r.number => passed[j][3] < i
  BY <1>3 DEF WebhookInv, RequestInv
<1>7. \A q, t \in requests' : q.number = t.number => q = t
  BY <1>2 DEF WebhookInv, RequestInv
<1>8. \A q \in requests' : \A k \in q.left :
        /\ k \in DOMAIN q.post.items /\ Genuine(q.post)
        /\ q.post.kind # "wechat_work" => q.post.items[k].form # "blank"
        /\ \A j \in DOMAIN passed : passed[j][2] = q.number => passed[j][3] < k
        /\ q.number = r.number => i < k
  <2>1. \A k \in s.left : k \in r.left /\ k \in Nat /\ i \in Nat /\ i < k
    BY <1>1, <1>2, <1>4, <1>6 DEF IsFirst, WebhookInv, RequestInv
  <2>2. \A q \in requests \ {r} : q.number # r.number
    BY DEF WebhookInv, RequestInv
  <2> QED BY <1>2, <2>1, <2>2 DEF WebhookInv, RequestInv
<1>9. CASE passed' = passed
  <2>1. RequestInv'
    BY <1>7, <1>8, <1>9 DEF RequestInv
  <2>2. PassedInv'
    BY <1>3, <1>9 DEF WebhookInv, PassedInv
  <2> QED BY <1>3, <1>5, <1>9, <2>1, <2>2, SectionsStay DEF WebhookInv
<1>10. CASE passed' = Append(passed, <<r.post, r.number, i>>)
  <2>1. PICK e \in Arriving \X Nat \X Nat : e = <<r.post, r.number, i>> /\ e[1] = r.post /\ e[2] = r.number /\ e[3] = i
    <3>1. <<r.post, r.number, i>> \in Arriving \X Nat \X Nat
      BY <1>4, <1>6
    <3> QED BY <3>1, Zenon
  <2>2. passed \in Seq(Arriving \X Nat \X Nat) /\ passed' = Append(passed, e)
    BY <1>10, <2>1 DEF WebhookInv
  <2>3. PICK n \in Nat : n = Len(passed)
    BY <2>2
  <2>4. /\ passed' \in Seq(Arriving \X Nat \X Nat) /\ DOMAIN passed = 1..n /\ DOMAIN passed' = 1..(n + 1)
        /\ \A j \in 1..n : passed'[j] = passed[j]
        /\ passed'[n + 1] = e
    BY <2>2, <2>3
  <2>5. \A j \in 1..(n + 1) : j \in 1..n \/ j = n + 1
    BY <2>3
  <2>6. RequestInv'
    <3>1. \A q \in requests' : \A k \in q.left : \A j \in 1..(n + 1) : passed'[j][2] = q.number => passed'[j][3] < k
      <4> SUFFICES ASSUME NEW q \in requests', NEW k \in q.left, NEW j \in 1..(n + 1), passed'[j][2] = q.number
                   PROVE  passed'[j][3] < k
        OBVIOUS
      <4>1. CASE j \in 1..n
        BY <1>8, <2>4, <4>1
      <4>2. CASE j = n + 1
        BY <1>8, <2>1, <2>4, <4>2
      <4> QED BY <2>5, <4>1, <4>2
    <3> QED BY <1>7, <1>8, <2>4, <3>1 DEF RequestInv
  <2>7. PassedInv'
    <3>1. \A j \in 1..n :
            /\ passed[j][2] \in DOMAIN deliveries /\ passed[j][1] = deliveries[passed[j][2]]
            /\ passed[j][3] \in DOMAIN passed[j][1].items
            /\ Genuine(passed[j][1]) /\ passed[j][1].items[passed[j][3]].form # "blank"
            /\ \A k \in 1..n : j < k /\ passed[j][2] = passed[k][2] => passed[j][3] < passed[k][3]
      BY <2>4 DEF WebhookInv, PassedInv
    <3>2. \A j \in 1..(n + 1) :
            /\ passed'[j][2] \in DOMAIN deliveries /\ passed'[j][1] = deliveries[passed'[j][2]]
            /\ passed'[j][3] \in DOMAIN passed'[j][1].items
            /\ Genuine(passed'[j][1]) /\ passed'[j][1].items[passed'[j][3]].form # "blank"
      BY <1>4, <1>6, <2>1, <2>4, <2>5, <3>1
    <3>3. \A j, k \in 1..(n + 1) : j < k => j \in 1..n /\ (k \in 1..n \/ k = n + 1)
      BY <2>3
    <3>4. ASSUME NEW j \in 1..(n + 1), NEW k \in 1..(n + 1), j < k, passed'[j][2] = passed'[k][2]
          PROVE  passed'[j][3] < passed'[k][3]
      <4>1. CASE k \in 1..n
        <5>1. j \in 1..n /\ passed'[j] = passed[j] /\ passed'[k] = passed[k]
          BY <2>4, <3>3, <3>4, <4>1
        <5> QED BY <3>1, <3>4, <4>1, <5>1
      <4>2. CASE k = n + 1
        <5>1. j \in 1..n /\ passed'[j] = passed[j]
          BY <2>4, <3>3, <3>4
        <5> QED BY <1>6, <2>1, <2>4, <3>4, <4>2, <5>1
      <4> QED BY <3>3, <3>4, <4>1, <4>2
    <3> QED BY <1>3, <2>4, <3>2, <3>4 DEF PassedInv, Genuine
  <2> QED BY <1>3, <1>5, <2>4, <2>6, <2>7, SectionsStay DEF WebhookInv
<1> QED BY <1>1, <1>9, <1>10 DEF HandMessage

(* A handler leaves off, or has done.                                      *)
LEMMA RequestsEndKeeps ==
  ASSUME WebhookInv, NEW r \in requests, SpawnItem(r) \/ Respond(r) \/ HangUp(r)
  PROVE  WebhookInv'
<1>1. /\ UNCHANGED <<configured, posting, pending, registry, server, flagged, deliveries, passed>>
      /\ acknowledged' \subseteq Arriving /\ \A t \in spawned' : t[1].kind = "wechat_work"
  <2>1. r.post \in Arriving /\ acknowledged \subseteq Arriving /\ \A t \in spawned : t[1].kind = "wechat_work"
    BY DEF WebhookInv, WebhookTypes
  <2>2. CASE SpawnItem(r)
    <3>1. PICK i \in r.left : spawned' = spawned \cup {<<r.post, r.number, i>>}
      BY <2>2 DEF SpawnItem
    <3>2. <<r.post, r.number, i>>[1] = r.post
      OBVIOUS
    <3> QED BY <2>1, <2>2, <3>1, <3>2 DEF SpawnItem
  <2>3. CASE Respond(r)
    BY <2>1, <2>3 DEF Respond
  <2>4. CASE HangUp(r)
    BY <2>1, <2>4 DEF HangUp
  <2> QED BY <2>2, <2>3, <2>4
<1>2. PICK s : /\ requests' = requests \ {r} \/ requests' = (requests \ {r}) \cup {s}
               /\ s.post = r.post /\ s.number = r.number /\ s.left = {}
               /\ s = [post |-> s.post, number |-> s.number, left |-> s.left]
  <2>1. {} \in SUBSET r.left
    OBVIOUS
  <2>2. PICK s : /\ s = [r EXCEPT !.left = {}]
                 /\ s.post = r.post /\ s.number = r.number /\ s.left = {}
                 /\ s = [post |-> s.post, number |-> s.number, left |-> s.left]
    BY <2>1, RequestGoesOn
  <2> QED BY <2>2 DEF SpawnItem, Respond, HangUp
<1>3. \A q \in requests' : q = s \/ q \in requests \ {r}
  BY <1>2
<1>4. WebhookTypes'
  <2>1. \A q \in requests' : /\ q.number \in DOMAIN deliveries /\ q.post = deliveries[q.number]
                             /\ q = [post |-> q.post, number |-> q.number, left |-> q.left]
    BY <1>2, <1>3 DEF WebhookInv, WebhookTypes
  <2> QED BY <1>1, <2>1, TypesStay
<1>5. RequestInv'
  <2>1. \A q, t \in requests' : q.number = t.number => q = t
    BY <1>2, <1>3 DEF WebhookInv, RequestInv
  <2>2. \A q \in requests' : q.left = {} \/ q \in requests
    BY <1>2, <1>3
  <2> QED BY <1>1, <2>1, <2>2 DEF WebhookInv, RequestInv
<1>6. PassedInv'
  BY <1>1 DEF WebhookInv, PassedInv
<1> QED BY <1>1, <1>4, <1>5, <1>6, SectionsStay DEF WebhookInv

LEMMA WebhookStepKeeps == WebhookInv /\ [WebhookNext]_webhookVars => WebhookInv'
<1> SUFFICES ASSUME WebhookInv, [WebhookNext]_webhookVars PROVE WebhookInv'
  OBVIOUS
<1>1. CASE UNCHANGED webhookVars
  <2>1. RegistryInv'
    BY <1>1, SectionsStay DEF webhookVars
  <2> QED BY <1>1, <2>1, HandlersStay, SectionsAreThere DEF webhookVars, WebhookInv, WebhookTypes
<1> QED BY <1>1, RegisterKeeps, StartAllKeeps, BindKeeps, StopAllKeeps, DeliverKeeps, HandleItemKeeps, RequestsEndKeeps
        DEF WebhookNext

LEMMA WebhookInvSuffices == WebhookInv => WebhookTypeOK /\ GenuineOncePerDelivery /\ OneOfAKind
<1> SUFFICES ASSUME WebhookInv PROVE WebhookTypeOK /\ GenuineOncePerDelivery /\ OneOfAKind
  OBVIOUS
<1>1. WebhookTypeOK
  <2>1. \A r \in requests : r.post \in Arriving /\ r.number \in 1..MaxDeliveries
    <3>1. \A i \in DOMAIN deliveries : i \in 1..MaxDeliveries /\ deliveries[i] \in Arriving
      BY WebhookAssumption DEF WebhookInv, WebhookTypes
    <3> QED BY <3>1 DEF WebhookInv, WebhookTypes
  <2> QED BY <2>1 DEF WebhookInv, WebhookTypes, RegistryInv, WebhookTypeOK
<1>2. GenuineOncePerDelivery
  BY DEF WebhookInv, PassedInv, GenuineOncePerDelivery, Genuine
<1>3. OneOfAKind
  <2> SUFFICES ASSUME pending = {}, NEW c \in configured
               PROVE  /\ Cardinality(registry[c.kind]) = 1
                      /\ \A d \in configured : d.kind = c.kind /\ server[d] # "off" => d \in registry[c.kind]
    BY DEF OneOfAKind
  <2>1. PICK d \in configured : registry[c.kind] = {d}
    BY DEF WebhookInv, RegistryInv
  <2> QED BY <2>1, FS_Singleton DEF WebhookInv, RegistryInv
<1> QED BY <1>1, <1>2, <1>3

(* The ids that came up: one more whenever one is let through.             *)
LEMMA CountAfterAppend ==
  ASSUME NEW S, NEW s \in Seq(S), NEW e \in S, NEW x
  PROVE  /\ Count(s, x) \in Nat
         /\ Count(Append(s, e), x) = Count(s, x) + (IF x = e THEN 1 ELSE 0)
<1> DEFINE places == {i \in DOMAIN s : s[i] = x}  t == Append(s, e)
<1>1. PICK n \in Nat : n = Len(s)
  OBVIOUS
<1>2. /\ DOMAIN s = 1..n /\ DOMAIN t = 1..(n + 1) /\ t[n + 1] = e
      /\ \A i \in 1..n : t[i] = s[i]
  BY <1>1
<1>3. IsFiniteSet(places) /\ n + 1 \notin places
  <2>1. IsFiniteSet(1..n)
    BY FS_Interval
  <2>2. places \subseteq 1..n
    BY <1>2
  <2> QED BY <1>1, <2>1, <2>2, FS_Subset
<1>4. \A i \in 1..(n + 1) : i \in 1..n \/ i = n + 1
  BY <1>1
<1>5. 1..n \subseteq 1..(n + 1) /\ n + 1 \in 1..(n + 1)
  BY <1>1
<1> DEFINE new == {i \in DOMAIN t : t[i] = x}
<1> HIDE DEF t
<1>6. new = IF x = e THEN places \cup {n + 1} ELSE places
  BY <1>2, <1>4, <1>5
<1>7. Cardinality(new) = Cardinality(places) + (IF x = e THEN 1 ELSE 0) /\ Cardinality(places) \in Nat
  <2>1. Cardinality(places) \in Nat /\ Cardinality(places \cup {n + 1}) = Cardinality(places) + 1
    BY <1>3, FS_AddElement, FS_CardinalityType
  <2> HIDE DEF places, new
  <2>2. CASE x = e
    BY <1>6, <2>1, <2>2
  <2>3. CASE x # e
    BY <1>6, <2>1, <2>3
  <2> QED BY <2>2, <2>3
<1> QED BY <1>7 DEF Count, t

LEMMA WecomInitHolds == WecomInit => WecomInv
<1> SUFFICES ASSUME WecomInit PROVE WecomInv
  OBVIOUS
<1>1. WecomTypes
  <2>1. \A S : << >> \in Seq(S)
    OBVIOUS
  <2> QED BY <2>1, FS_EmptySet, WecomAssumption DEF WecomInit, WecomTypes
<1>2. \A id : Count(<< >>, id) = 0
  <2>1. \A id : {i \in DOMAIN << >> : << >>[i] = id} = {}
    OBVIOUS
  <2> QED BY <2>1, FS_EmptySet DEF Count
<1>3. Len(accepted) = 0 * (Capacity + 1) + Cardinality(processed)
  BY FS_EmptySet, WecomAssumption DEF WecomInit
<1>4. ForgottenInv
  BY <1>2, <1>3 DEF WecomInit, ForgottenInv
<1> QED BY <1>1, <1>4 DEF WecomInv

LEMMA CheckKeeps == ASSUME WecomInv, NEW n \in DOMAIN tasks, Check(n) PROVE WecomInv'
<1> DEFINE id == tasks[n].id
<1>1. id \in MsgIds /\ tasks' \in Seq(Task)
  <2>1. tasks \in Seq(Task)
    BY DEF WecomInv, WecomTypes
  <2>2. tasks[n] \in Task
    BY <2>1
  <2>3. PICK step \in {"accepted", "done"} : tasks' = [tasks EXCEPT ![n].step = step]
    BY DEF Check
  <2>4. tasks[n].id \in MsgIds /\ [tasks[n] EXCEPT !.step = step] \in Task
    BY <2>2 DEF Task
  <2>5. tasks' = [tasks EXCEPT ![n] = [tasks[n] EXCEPT !.step = step]]
    BY <2>1, <2>3
  <2> QED BY <2>1, <2>2, <2>4, <2>5
<1>2. CASE UNCHANGED <<processed, accepted>>
  BY <1>1, <1>2 DEF WecomInv, WecomTypes, ForgottenInv
<1>3. CASE id # "" /\ id \notin processed /\ Remember(id) /\ accepted' = Append(accepted, id)
  <2>0. accepted' = Append(accepted, id) /\ id \notin processed
    BY <1>3
  <2>1. PICK kept : /\ kept = IF Cardinality(processed) > Capacity THEN {} ELSE processed
                    /\ processed' = kept \cup {id}
    BY <1>3 DEF Remember
  <2>2. /\ IsFiniteSet(processed) /\ Cardinality(processed) \in Nat /\ Cardinality(processed) <= Capacity + 1
        /\ IsFiniteSet({}) /\ Cardinality({}) = 0 /\ processed \subseteq WecomIds
        /\ accepted \in Seq(WecomIds) /\ id \in WecomIds
    BY <1>1, <1>3, FS_EmptySet, FS_CardinalityType DEF WecomInv, WecomTypes, WecomIds
  <2>3. /\ Cardinality(kept) <= Capacity /\ IsFiniteSet(kept) /\ Cardinality(kept) \in Nat
        /\ kept \subseteq WecomIds /\ id \notin kept
    <3>1. CASE Cardinality(processed) > Capacity
      BY <2>1, <2>2, <3>1, WecomAssumption
    <3>2. CASE ~(Cardinality(processed) > Capacity)
      <4>1. kept = processed
        BY <2>1, <3>2
      <4> QED BY <2>0, <2>2, <3>2, <4>1, WecomAssumption
    <3> QED BY <3>1, <3>2
  <2>4. IsFiniteSet(processed') /\ Cardinality(processed') = Cardinality(kept) + 1
    BY <2>1, <2>3, FS_AddElement
  <2> HIDE DEF id
  <2>5. WecomTypes'
    <3>1. processed' \subseteq WecomIds
      BY <2>1, <2>2, <2>3
    <3>2. accepted' \in Seq(WecomIds)
      BY <2>0, <2>2
    <3>3. Cardinality(processed') <= Capacity + 1
      BY <2>3, <2>4, WecomAssumption
    <3> QED BY <1>1, <2>4, <3>1, <3>2, <3>3 DEF WecomTypes
  <2>6. PICK k \in Nat : /\ Len(accepted) = k * (Capacity + 1) + Cardinality(processed)
                         /\ \A x \in MsgIds : Count(accepted, x) <= k + (IF x \in processed THEN 1 ELSE 0)
    BY DEF WecomInv, ForgottenInv
  <2>7. \A x : /\ Count(accepted, x) \in Nat
               /\ Count(accepted', x) = Count(accepted, x) + (IF x = id THEN 1 ELSE 0)
    BY <2>0, <2>2, CountAfterAppend
  <2>8. Len(accepted') = Len(accepted) + 1
    BY <2>0, <2>2
  <2>9. CASE Cardinality(processed) > Capacity
    <3>1. /\ processed' = {id} /\ Cardinality(processed) = Capacity + 1 /\ Cardinality(processed') = 1
      <4>1. kept = {}
        BY <2>1, <2>9
      <4> QED BY <2>1, <2>2, <2>4, <2>9, <4>1, WecomAssumption
    <3>2. (k + 1) * (Capacity + 1) = k * (Capacity + 1) + Capacity + 1
      BY WecomAssumption
    <3>3. k * (Capacity + 1) \in Nat
      BY WecomAssumption
    <3>4. Len(accepted') = (k + 1) * (Capacity + 1) + Cardinality(processed')
      BY <2>6, <2>8, <3>1, <3>2, <3>3, WecomAssumption
    <3>5. \A x \in MsgIds : Count(accepted', x) <= (k + 1) + (IF x \in processed' THEN 1 ELSE 0)
      <4> SUFFICES ASSUME NEW x \in MsgIds PROVE Count(accepted', x) <= (k + 1) + (IF x \in processed' THEN 1 ELSE 0)
        OBVIOUS
      <4>1. /\ Count(accepted, x) <= k + (IF x \in processed THEN 1 ELSE 0) /\ Count(accepted, x) \in Nat
            /\ Count(accepted', x) = Count(accepted, x) + (IF x = id THEN 1 ELSE 0)
        BY <2>6, <2>7
      <4>2. CASE x = id
        <5>1. x \notin processed /\ x \in processed'
          BY <2>0, <2>1, <4>2
        <5> QED BY <4>1, <4>2, <5>1
      <4>3. CASE x # id
        BY <3>1, <4>1, <4>3
      <4> QED BY <4>2, <4>3
    <3> QED BY <2>5, <3>1, <3>4, <3>5 DEF WecomInv, ForgottenInv
  <2>10. CASE ~(Cardinality(processed) > Capacity)
    <3>1. processed' = processed \cup {id} /\ Cardinality(processed') = Cardinality(processed) + 1
      BY <2>1, <2>4, <2>10
    <3>2. k * (Capacity + 1) \in Nat
      BY WecomAssumption
    <3>3. Len(accepted') = k * (Capacity + 1) + Cardinality(processed')
      <4>1. PICK m \in Nat : m = k * (Capacity + 1)
        BY <3>2
      <4>2. Len(accepted) = m + Cardinality(processed)
        BY <2>6, <4>1
      <4>3. Len(accepted') = m + Cardinality(processed')
        BY <2>2, <2>8, <3>1, <4>2
      <4> QED BY <4>1, <4>3
    <3>4. \A x \in MsgIds : Count(accepted', x) <= k + (IF x \in processed' THEN 1 ELSE 0)
      <4> SUFFICES ASSUME NEW x \in MsgIds PROVE Count(accepted', x) <= k + (IF x \in processed' THEN 1 ELSE 0)
        OBVIOUS
      <4>1. /\ Count(accepted, x) <= k + (IF x \in processed THEN 1 ELSE 0) /\ Count(accepted, x) \in Nat
            /\ Count(accepted', x) = Count(accepted, x) + (IF x = id THEN 1 ELSE 0)
        BY <2>6, <2>7
      <4>2. CASE x = id
        <5>1. x \notin processed /\ x \in processed'
          BY <2>0, <2>1, <4>2
        <5> QED BY <4>1, <4>2, <5>1
      <4>3. CASE x # id
        BY <3>1, <4>1, <4>3
      <4> QED BY <4>2, <4>3
    <3> QED BY <2>5, <3>1, <3>3, <3>4 DEF WecomInv, ForgottenInv
  <2> QED BY <2>9, <2>10
<1> QED BY <1>2, <1>3 DEF Check

LEMMA WecomStepKeeps == WecomInv /\ [WecomNext]_wecomVars => WecomInv'
<1> SUFFICES ASSUME WecomInv, [WecomNext]_wecomVars PROVE WecomInv'
  OBVIOUS
<1>1. tasks \in Seq(Task)
  BY DEF WecomInv, WecomTypes
<1>2. ASSUME tasks' \in Seq(Task), UNCHANGED <<processed, accepted>> PROVE WecomInv'
  BY <1>2 DEF WecomInv, WecomTypes, ForgottenInv
<1>3. CASE Spawn
  <2>1. PICK id \in MsgIds : tasks' = Append(tasks, [id |-> id, step |-> "new"])
    BY <1>3 DEF Spawn
  <2>2. [id |-> id, step |-> "new"] \in Task
    BY DEF Task
  <2>3. tasks' \in Seq(Task)
    BY <1>1, <2>1, <2>2
  <2> QED BY <1>2, <1>3, <2>3 DEF Spawn
<1>4. ASSUME NEW n \in DOMAIN tasks, PassOn(n) PROVE WecomInv'
  <2>1. tasks[n] \in Task
    BY <1>1
  <2>2. [tasks[n] EXCEPT !.step = "done"] \in Task
    BY <2>1 DEF Task
  <2>3. tasks' = [tasks EXCEPT ![n] = [tasks[n] EXCEPT !.step = "done"]]
    BY <1>1, <1>4 DEF PassOn
  <2>4. tasks' \in Seq(Task)
    BY <1>1, <2>2, <2>3
  <2> QED BY <1>2, <1>4, <2>4 DEF PassOn
<1>5. CASE UNCHANGED wecomVars
  BY <1>1, <1>2, <1>5 DEF wecomVars
<1> QED BY <1>3, <1>4, <1>5, CheckKeeps DEF WecomNext

(* n times C + 1, and less than as much again, is still n times C + 1.     *)
LEMMA WholeRounds ==
  ASSUME NEW n \in Nat, NEW c \in Nat \ {0}, NEW r \in Nat, r < c
  PROVE  (n * c + r) \div c = n
<1> DEFINE q == (n * c + r) \div c
<1>1. n * c + r \in Nat /\ n * c \in Nat
  OBVIOUS
<1>2. /\ q \in Nat /\ (n * c + r) % c \in 0..(c - 1)
      /\ n * c + r = c * q + ((n * c + r) % c)
  BY <1>1
<1>3. PICK rest \in 0..(c - 1) : n * c + r = c * q + rest
  BY <1>2
<1> HIDE DEF q
<1>4. n * c + r = q * c + rest /\ q \in Nat
  BY <1>2, <1>3
<1>5. CASE q < n
  <2>1. PICK d \in Nat : n = q + 1 + d
    <3>1. n - q - 1 \in Nat /\ n = q + 1 + (n - q - 1)
      BY <1>4, <1>5
    <3> QED BY <3>1
  <2>2. n * c = q * c + c + d * c /\ d * c \in Nat /\ q * c \in Nat
    BY <1>4, <2>1
  <2> QED BY <1>4, <2>2
<1>6. CASE q > n
  <2>1. PICK d \in Nat : q = n + 1 + d
    <3>1. q - n - 1 \in Nat /\ q = n + 1 + (q - n - 1)
      BY <1>4, <1>6
    <3> QED BY <3>1
  <2>2. q * c = n * c + c + d * c /\ d * c \in Nat /\ n * c \in Nat
    BY <1>4, <2>1
  <2> QED BY <1>4, <2>2
<1> QED BY <1>4, <1>5, <1>6 DEF q

LEMMA WecomInvSuffices == WecomInv => WecomTypeOK /\ WecomRepeats
<1> SUFFICES ASSUME WecomInv PROVE WecomTypeOK /\ WecomRepeats
  OBVIOUS
<1>1. WecomTypeOK
  <2>1. tasks \in Seq(Task) /\ processed \subseteq WecomIds /\ accepted \in Seq(WecomIds) /\ Cardinality(processed) <= Capacity + 1
    BY DEF WecomInv, WecomTypes
  <2>2. \A n \in DOMAIN tasks : tasks[n] \in Task
    BY <2>1
  <2>3. \A n \in DOMAIN tasks : tasks[n].id \in MsgIds /\ tasks[n].step \in {"new", "accepted", "done"}
    BY <2>2 DEF Task
  <2> QED BY <2>1, <2>3 DEF WecomTypeOK, WecomIds
<1>2. WecomRepeats
  <2> SUFFICES ASSUME NEW i \in DOMAIN accepted
               PROVE  Count(accepted, accepted[i]) <= 1 + (Len(accepted) - 1) \div (Capacity + 1)
    BY DEF WecomRepeats, Count
  <2>0. accepted \in Seq(WecomIds) /\ IsFiniteSet(processed) /\ Cardinality(processed) <= Capacity + 1
    BY DEF WecomInv, WecomTypes
  <2>1. accepted # << >> /\ accepted[i] \in MsgIds
    <3>1. accepted[i] \in WecomIds /\ accepted # << >>
      BY <2>0
    <3> QED BY <3>1 DEF WecomIds
  <2>2. PICK k \in Nat : /\ Len(accepted) = k * (Capacity + 1) + Cardinality(processed)
                         /\ accepted # << >> => processed # {}
                         /\ \A x \in MsgIds : Count(accepted, x) <= k + (IF x \in processed THEN 1 ELSE 0)
    BY DEF WecomInv, ForgottenInv
  <2>3. Cardinality(processed) \in Nat /\ Cardinality(processed) # 0
    BY <2>0, <2>1, <2>2, FS_CardinalityType, FS_EmptySet
  <2>4. PICK r \in Nat : r + 1 = Cardinality(processed)
    <3>1. Cardinality(processed) - 1 \in Nat /\ (Cardinality(processed) - 1) + 1 = Cardinality(processed)
      BY <2>3
    <3> QED BY <3>1
  <2>5. Len(accepted) - 1 = k * (Capacity + 1) + r /\ r < Capacity + 1 /\ Capacity + 1 \in Nat \ {0}
    <3>1. PICK m \in Nat : m = k * (Capacity + 1)
      BY WecomAssumption
    <3>2. Len(accepted) = m + Cardinality(processed)
      BY <2>2, <3>1
    <3>3. Len(accepted) - 1 = m + r
      BY <2>3, <2>4, <3>2
    <3>4. r < Capacity + 1 /\ Capacity + 1 \in Nat \ {0}
      BY <2>0, <2>3, <2>4, WecomAssumption
    <3> QED BY <3>1, <3>3, <3>4
  <2>6. (Len(accepted) - 1) \div (Capacity + 1) = k
    BY <2>5, WholeRounds
  <2>7. Count(accepted, accepted[i]) \in Nat
    <3>1. accepted[i] \in WecomIds
      BY <2>0
    <3> QED BY <2>0, <3>1, CountAfterAppend
  <2>8. Count(accepted, accepted[i]) <= k + (IF accepted[i] \in processed THEN 1 ELSE 0)
    BY <2>1, <2>2
  <2>9. Count(accepted, accepted[i]) <= 1 + k
    BY <2>7, <2>8
  <2> QED BY <2>6, <2>9
<1> QED BY <1>1, <1>2

(* What platforms push is taken from genuine posts only and once per       *)
(* delivery, by the one channel of its kind, and wechat_work lets an id    *)
(* through again only after it forgot Capacity + 1 of them.                *)
THEOREM PostsHandledOnce == WebhookSpec /\ WecomSpec => []PostsAreHandledOnce
<1>1. WebhookSpec => []WebhookInv
  BY WebhookInitHolds, WebhookStepKeeps, PTL DEF WebhookSpec
<1>2. WecomSpec => []WecomInv
  BY WecomInitHolds, WecomStepKeeps, PTL DEF WecomSpec
<1>3. WebhookInv /\ WecomInv => PostsAreHandledOnce
  BY WebhookInvSuffices, WecomInvSuffices DEF PostsAreHandledOnce
<1> QED BY <1>1, <1>2, <1>3, PTL
=============================================================================
