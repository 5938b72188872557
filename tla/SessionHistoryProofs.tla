------------------------ MODULE SessionHistoryProofs ------------------------
(***************************************************************************)
(* Proofs about SessionHistory, for every value of the thresholds, the     *)
(* number of iterations and of turns.                                      *)
(*                                                                         *)
(* First what each way of shortening a context does to its length and to   *)
(* what it stands for; then the invariants: a turn in progress always has  *)
(* its question or what came of it (LengthInv), from which the bounds      *)
(* follow, and compaction by summary forgets nothing (ContextComplete).    *)
(* Behind it, what the tools and the skills do to files, and the journals. *)
(***************************************************************************)
EXTENDS SessionHistory, Skills, TLAPS, SequenceTheorems, FiniteSetTheorems, WellFoundedInduction

USE HistoryAssumption

-----------------------------------------------------------------------------
(* The shapes of the data. *)

(* A message is an entry.                                                  *)
LEMMA MessageIsEntry ==
  ASSUME NEW kind \in {"user", "assistant", "call", "result"},
         NEW t \in 1..MaxTurns, NEW i \in 0..MaxIterations
  PROVE  Message(kind, t, i) \in Entries
<1>1. <<t, kind, i>> \in MessageIds
  BY DEF MessageIds
<1> QED BY <1>1 DEF Message, Entries

LEMMA Bounds ==
  ASSUME NEW h \in Nat, NEW n \in Nat, h <= n
  PROVE  h + 1 \in 1..n+1 /\ n \in 0..n
OBVIOUS

(* What a part of a context covers is made of known messages.              *)
LEMMA CoveredIds ==
  ASSUME NEW q \in Seq(Entries)
  PROVE  Covered(q) \subseteq MessageIds
<1>1. \A k \in DOMAIN q : q[k] \in Entries
  OBVIOUS
<1>2. \A k \in DOMAIN q : q[k].of \subseteq MessageIds
  BY <1>1 DEF Entries
<1> QED BY <1>2 DEF Covered

(* A part of a sequence of entries.                                        *)
LEMMA Part ==
  ASSUME NEW q \in Seq(Entries), NEW m \in 1..Len(q)+1, NEW n \in 0..Len(q)
  PROVE  /\ SubSeq(q, m, n) \in Seq(Entries)
         /\ Len(SubSeq(q, m, n)) = IF m <= n THEN n - m + 1 ELSE 0
         /\ \A i \in 1..(n - m + 1) : SubSeq(q, m, n)[i] = q[m + i - 1]
<1>1. \A i \in m..n : q[i] \in Entries
  BY ElementOfSeq
<1>2. m \in Int /\ n \in Int
  BY LenProperties
<1>3. /\ SubSeq(q, m, n) \in Seq(Entries)
      /\ Len(SubSeq(q, m, n)) = IF m <= n THEN n - m + 1 ELSE 0
      /\ \A i \in 1 .. n - m + 1 : SubSeq(q, m, n)[i] = q[m + i - 1]
  BY <1>1, <1>2, SubSeqProperties
<1> QED BY <1>3

(* A part covers what its elements cover.                                  *)
LEMMA CoveredPart ==
  ASSUME NEW q \in Seq(Entries), NEW m \in 1..Len(q)+1, NEW n \in 0..Len(q)
  PROVE  Covered(SubSeq(q, m, n)) = UNION {q[k].of : k \in m..n}
<1> DEFINE p == SubSeq(q, m, n)
<1>1. Len(p) = IF m <= n THEN n - m + 1 ELSE 0
  BY Part
<1>2. DOMAIN p = 1..Len(p)
  BY Part, LenProperties
<1>3. \A i \in 1..(n - m + 1) : p[i] = q[m + i - 1]
  BY Part
<1> HIDE DEF p
<1>4. ASSUME NEW x \in Covered(p) PROVE x \in UNION {q[k].of : k \in m..n}
  <2>1. PICK i \in DOMAIN p : x \in p[i].of
    BY <1>4 DEF Covered
  <2>2. i \in 1..(n - m + 1) /\ m + i - 1 \in m..n
    BY <2>1, <1>1, <1>2
  <2> QED BY <2>1, <2>2, <1>3
<1>5. ASSUME NEW x \in UNION {q[k].of : k \in m..n} PROVE x \in Covered(p)
  <2>1. PICK k \in m..n : x \in q[k].of
    BY <1>5
  <2>2. k - m + 1 \in 1..(n - m + 1) /\ k - m + 1 \in DOMAIN p /\ m + (k - m + 1) - 1 = k
    BY <2>1, <1>1, <1>2
  <2>3. p[k - m + 1] = q[k]
    BY <2>2, <1>3
  <2> QED BY <2>1, <2>2, <2>3 DEF Covered
<1> QED BY <1>4, <1>5 DEF p

(* What two pieces put together cover.                                     *)
LEMMA CoveredConcat ==
  ASSUME NEW p \in Seq(Entries), NEW q \in Seq(Entries)
  PROVE  Covered(p \o q) = Covered(p) \cup Covered(q)
<1>1. /\ DOMAIN (p \o q) = 1..(Len(p) + Len(q))
      /\ DOMAIN p = 1..Len(p) /\ DOMAIN q = 1..Len(q)
      /\ Len(p) \in Nat /\ Len(q) \in Nat
  BY ConcatProperties, LenProperties
<1>2. \A i \in 1..(Len(p) + Len(q)) :
        (p \o q)[i] = IF i <= Len(p) THEN p[i] ELSE q[i - Len(p)]
  BY ConcatProperties
<1>3. ASSUME NEW x \in Covered(p \o q) PROVE x \in Covered(p) \cup Covered(q)
  <2>1. PICK i \in 1..(Len(p) + Len(q)) : x \in (p \o q)[i].of
    BY <1>3, <1>1 DEF Covered
  <2>2. CASE i <= Len(p)
    BY <2>1, <2>2, <1>1, <1>2 DEF Covered
  <2>3. CASE i > Len(p)
    <3>1. i - Len(p) \in DOMAIN q /\ (p \o q)[i] = q[i - Len(p)]
      BY <2>1, <2>3, <1>1, <1>2
    <3> QED BY <3>1, <2>1 DEF Covered
  <2> QED BY <2>2, <2>3, <1>1
<1>4. ASSUME NEW x \in Covered(p) PROVE x \in Covered(p \o q)
  <2>1. PICK i \in DOMAIN p : x \in p[i].of
    BY <1>4 DEF Covered
  <2>2. i \in DOMAIN (p \o q) /\ (p \o q)[i] = p[i]
    BY <2>1, <1>1, <1>2
  <2> QED BY <2>1, <2>2 DEF Covered
<1>5. ASSUME NEW x \in Covered(q) PROVE x \in Covered(p \o q)
  <2>1. PICK i \in DOMAIN q : x \in q[i].of
    BY <1>5 DEF Covered
  <2>2. i + Len(p) \in DOMAIN (p \o q) /\ (p \o q)[i + Len(p)] = q[i]
    BY <2>1, <1>1, <1>2
  <2> QED BY <2>1, <2>2 DEF Covered
<1> QED BY <1>3, <1>4, <1>5

-----------------------------------------------------------------------------
(* compact.rs and force_compress_messages. *)

(* The slice to summarise lies in the context, however short that is, as   *)
(* long as there are two messages.                                         *)
LEMMA SumEndInRange ==
  ASSUME NEW q \in Seq(Entries), Len(q) >= 2
  PROVE  SumEnd(q) \in 2..Len(q) /\ Len(q) - SumEnd(q) <= Keep
BY LenProperties DEF SumEnd

LEMMA DigestIsEntry ==
  ASSUME NEW q \in Seq(Entries), Len(q) >= 2
  PROVE  Digest(q) \in Entries
<1>1. SumEnd(q) \in 0..Len(q) /\ 2 \in 1..Len(q)+1
  BY SumEndInRange, LenProperties
<1>2. SubSeq(q, 2, SumEnd(q)) \in Seq(Entries)
  BY <1>1, Part
<1> QED BY <1>2, CoveredIds DEF Digest, Entries

(* Rolling compaction leaves at most the first message, the summary and    *)
(* the recent tail, and loses nothing that was said.                       *)
LEMMA RolledIsShort ==
  ASSUME NEW q \in Seq(Entries), Len(q) >= 2
  PROVE  /\ Rolled(q) \in Seq(Entries)
         /\ Len(Rolled(q)) \in 2..(Keep + 2)
         /\ Covered(Rolled(q)) = Covered(q)
<1> DEFINE e == SumEnd(q)
           tail == SubSeq(q, e + 1, Len(q))
           head == <<q[1], Digest(q)>>
<1>1. e \in 2..Len(q) /\ Len(q) - e <= Keep /\ Len(q) \in Nat
  BY SumEndInRange, LenProperties
<1>2. e + 1 \in 1..Len(q)+1 /\ Len(q) \in 0..Len(q)
  BY <1>1
<1>3. tail \in Seq(Entries) /\ Len(tail) = Len(q) - e
  BY <1>1, <1>2, Part
<1>4. q[1] \in Entries /\ Digest(q) \in Entries
  BY ElementOfSeq, DigestIsEntry, <1>1
<1>5. head \in Seq(Entries) /\ Len(head) = 2
  BY <1>4
<1>6. Rolled(q) = head \o tail
  BY DEF Rolled
<1>7. Rolled(q) \in Seq(Entries) /\ Len(Rolled(q)) = 2 + (Len(q) - e)
  BY <1>3, <1>5, <1>6, ConcatProperties
<1>8. Covered(q) = UNION {q[k].of : k \in 1..Len(q)}
  BY LenProperties DEF Covered
<1>9. Covered(head) = q[1].of \cup Digest(q).of
  <2>1. DOMAIN head = {1, 2} /\ head[1] = q[1] /\ head[2] = Digest(q)
    OBVIOUS
  <2> HIDE DEF head
  <2> QED BY <2>1 DEF Covered
<1>10. Digest(q).of = UNION {q[k].of : k \in 2..e}
  <2>1. 2 \in 1..Len(q)+1 /\ e \in 0..Len(q)
    BY <1>1
  <2> QED BY <2>1, CoveredPart DEF Digest
<1>11. Covered(tail) = UNION {q[k].of : k \in (e+1)..Len(q)}
  BY <1>2, CoveredPart
<1>12. 1..Len(q) = {1} \cup (2..e) \cup ((e+1)..Len(q))
  BY <1>1
<1>13. Covered(Rolled(q)) = Covered(head) \cup Covered(tail)
  BY <1>3, <1>5, <1>6, CoveredConcat
<1> HIDE DEF e, head, tail
<1>14. Covered(Rolled(q)) = Covered(q)
  BY <1>8, <1>9, <1>10, <1>11, <1>12, <1>13
<1> QED BY <1>1, <1>7, <1>14

(* A trimmed context is within the hard limit and not empty.               *)
LEMMA TrimIsShort ==
  ASSUME NEW q \in Seq(Entries), Len(q) >= 1
  PROVE  /\ Trim(q) \in Seq(Entries)
         /\ Len(Trim(q)) \in 1..HardMax
         /\ Len(q) <= HardMax => Trim(q) = q
<1>1. CASE Len(q) > HardMax
  <2> DEFINE m == Len(q) - HardKeep + 1
  <2>1. m \in 1..Len(q)+1 /\ Len(q) \in 0..Len(q) /\ Len(q) - m + 1 = HardKeep
    BY <1>1, LenProperties
  <2>2. SubSeq(q, m, Len(q)) \in Seq(Entries) /\ Len(SubSeq(q, m, Len(q))) = HardKeep
    BY <2>1, Part
  <2>3. <<q[1]>> \in Seq(Entries) /\ Len(<<q[1]>>) = 1
    BY ElementOfSeq, LenProperties
  <2>4. Trim(q) = <<q[1]>> \o SubSeq(q, m, Len(q))
    BY <1>1 DEF Trim
  <2> HIDE DEF m
  <2>5. Trim(q) \in Seq(Entries) /\ Len(Trim(q)) = 1 + HardKeep
    BY <2>2, <2>3, <2>4, ConcatProperties
  <2> QED BY <2>5, <1>1, LenProperties
<1>2. CASE ~(Len(q) > HardMax)
  BY <1>2, LenProperties DEF Trim
<1> QED BY <1>1, <1>2

LEMMA Half ==
  ASSUME NEW n \in Nat
  PROVE  n \div 2 \in 0..n
OBVIOUS

(* Compression by force never lengthens a context nor empties it.          *)
LEMMA ForcedIsShorter ==
  ASSUME NEW q \in Seq(Entries), Len(q) >= 1
  PROVE  Forced(q) \in Seq(Entries) /\ Len(Forced(q)) \in 1..Len(q)
<1>1. CASE Len(q) <= 4
  BY <1>1, LenProperties DEF Forced
<1>2. CASE Len(q) > 4
  <2>1. PICK s \in {0, 1} : s = IF q[1].kind = "summary" THEN 1 ELSE 0
    OBVIOUS
  <2> DEFINE d == (Len(q) - s - 1) \div 2
  <2>2. d \in Nat /\ d <= Len(q) - s - 1 /\ Len(q) \in Nat
    <3>1. Len(q) - s - 1 \in Nat /\ Len(q) \in Nat
      BY <1>2, <2>1, LenProperties
    <3> QED BY <3>1, Half
  <2>3. Forced(q) = SubSeq(q, 1, s) \o SubSeq(q, s + d + 1, Len(q))
    <3>1. ~(Len(q) <= 4)
      BY <1>2, LenProperties
    <3> QED BY <3>1, <2>1, Zenon DEF Forced
  <2> HIDE DEF d
  <2>4. s + d + 1 \in 1..Len(q)+1 /\ 1 \in 1..Len(q)+1 /\ s \in 0..Len(q) /\ Len(q) \in 0..Len(q)
    BY <1>2, <2>2
  <2>5. SubSeq(q, 1, s) \in Seq(Entries) /\ Len(SubSeq(q, 1, s)) = s
    BY <2>4, Part
  <2>6. SubSeq(q, s+d+1, Len(q)) \in Seq(Entries) /\ Len(SubSeq(q, s+d+1, Len(q))) = Len(q) - s - d
    BY <2>2, <2>4, Part
  <2>7. Forced(q) \in Seq(Entries) /\ Len(Forced(q)) = s + (Len(q) - s - d)
    BY <2>3, <2>5, <2>6, ConcatProperties
  <2> QED BY <2>2, <2>7
<1> QED BY <1>1, <1>2, LenProperties

-----------------------------------------------------------------------------
(* A turn in progress has a number, and has not used up its iterations.    *)
ActiveInv == phase # "idle" => turn \in 1..MaxTurns /\ iter < MaxIterations

(* Its context is never empty, holds a call and a result after the first   *)
(* iteration, and is within the limit when the model is called.            *)
LengthInv ==
  /\ phase = "compact" => Len(context) >= 1 /\ (iter > 0 => Len(context) >= 3)
  /\ phase = "call" => Len(context) \in 1..HardMax

BoundInv == HistoryTypeOK /\ ActiveInv /\ LengthInv

(* A context that is due for compaction has something to summarise.        *)
LEMMA DueHasTwo ==
  ASSUME BoundInv, phase = "compact", Due
  PROVE  Len(context) >= 2
<1>1. Len(context) \in Nat
  BY LenProperties DEF BoundInv, HistoryTypeOK
<1> QED BY <1>1 DEF BoundInv, LengthInv, Due

(* The write of a message.                                                 *)
LEMMA RememberTypes ==
  ASSUME HistoryTypeOK, NEW kind \in {"user", "assistant"}, NEW t \in 1..MaxTurns, Remember(kind, t)
  PROVE  /\ history' \in Seq(Entries) /\ Len(history') = Len(history) + 1
         /\ pending' \subseteq Writes
<1>1. Message(kind, t, 0) \in Entries
  BY MessageIsEntry
<1>2. history' = Append(history, Message(kind, t, 0))
  BY DEF Remember
<1>3. history' \in Seq(Entries) /\ Len(history') = Len(history) + 1
  BY <1>1, <1>2, AppendProperties DEF HistoryTypeOK
<1>4. <<t, 0>> \in (1..MaxTurns) \X (0..MaxIterations)
  OBVIOUS
<1>5. [op |-> "append", entry |-> Message(kind, t, 0), at |-> <<t, 0>>] \in Writes
  BY <1>1, <1>4 DEF Writes
<1> QED BY <1>3, <1>5 DEF Remember, HistoryTypeOK

LEMMA TypeInit == HistoryInit => BoundInv
<1> SUFFICES ASSUME HistoryInit PROVE BoundInv
  OBVIOUS
<1>1. <<>> \in Seq(Entries) /\ Len(<<>>) = 0
  BY EmptySeq
<1>2. history \in Seq(Entries) /\ hidden \in 0..Len(history)
  BY <1>1 DEF HistoryInit
<1>3. turn \in 0..MaxTurns /\ iter \in 0..MaxIterations /\ retries \in 0..2
  BY DEF HistoryInit
<1>4. context \in Seq(Entries) /\ rows \in Seq(Entries)
  BY <1>1 DEF HistoryInit
<1>5. HistoryTypeOK
  BY <1>2, <1>3, <1>4, Zenon DEF HistoryInit, HistoryTypeOK
<1> QED BY <1>5 DEF HistoryInit, BoundInv, ActiveInv, LengthInv

LEMMA StartTurnKeepsBounds ==
  ASSUME BoundInv, NEW topic \in {"same", "switch", "clean"}, StartTurn(topic)
  PROVE  BoundInv'
<1>1. turn' \in 1..MaxTurns /\ turn' = turn + 1
  BY DEF StartTurn, BoundInv, HistoryTypeOK
<1>2. Remember("user", turn')
  BY <1>1 DEF StartTurn
<1>3. history' \in Seq(Entries) /\ Len(history') = Len(history) + 1 /\ pending' \subseteq Writes
  BY <1>1, <1>2, RememberTypes DEF BoundInv
<1>4. Len(history) \in Nat
  BY LenProperties DEF BoundInv, HistoryTypeOK
<1>5. hidden' \in 0..Len(history)
  BY <1>4 DEF StartTurn, BoundInv, HistoryTypeOK
<1>6. hidden' + 1 \in 1..Len(history')+1 /\ Len(history') \in 0..Len(history')
  <2>1. Len(history') \in Nat /\ hidden' \in Nat /\ hidden' <= Len(history')
    BY <1>3, <1>4, <1>5
  <2> QED BY <2>1, Bounds, Zenon
<1>7. context' \in Seq(Entries) /\ Len(context') = Len(history') - hidden'
  <2>1. context' = SubSeq(history', hidden' + 1, Len(history'))
    BY DEF StartTurn
  <2>2. Len(context') = IF hidden' + 1 <= Len(history') THEN Len(history') - (hidden' + 1) + 1 ELSE 0
    BY <2>1, <1>3, <1>6, Part
  <2>3. context' \in Seq(Entries)
    BY <2>1, <1>3, <1>6, Part
  <2>4. hidden' \in Nat /\ Len(history') \in Nat /\ hidden' + 1 <= Len(history')
    BY <1>3, <1>4, <1>5
  <2> QED BY <2>2, <2>3, <2>4
<1>8. phase' = "compact" /\ iter' = 0 /\ retries' = 0 /\ shortened' = {} /\ seen' \in BOOLEAN
      /\ up' \in BOOLEAN /\ rows' \in Seq(Entries) /\ lost' \subseteq MessageIds
  BY DEF StartTurn, CheckTopic, BoundInv, HistoryTypeOK
<1>9. HistoryTypeOK'
  BY <1>1, <1>3, <1>4, <1>5, <1>7, <1>8 DEF HistoryTypeOK
<1> QED BY <1>1, <1>3, <1>4, <1>5, <1>7, <1>8, <1>9 DEF BoundInv, ActiveInv, LengthInv

LEMMA SummariseKeepsBounds ==
  ASSUME BoundInv, Summarise
  PROVE  BoundInv' /\ context' = Rolled(context) /\ Covered(context') = Covered(context)
<1>1. context \in Seq(Entries) /\ Len(context) \in Nat /\ Len(context) >= 2
  BY DueHasTwo, LenProperties DEF Summarise, BoundInv, HistoryTypeOK
<1>2. /\ Rolled(context) \in Seq(Entries) /\ Len(Rolled(context)) \in 2..(Keep + 2)
      /\ Covered(Rolled(context)) = Covered(context)
  BY <1>1, RolledIsShort
<1>3. Trim(Rolled(context)) = Rolled(context)
  BY <1>2, TrimIsShort
<1>4. context' = Rolled(context)
  BY <1>3 DEF Summarise
<1>5. turn \in 1..MaxTurns /\ iter \in 0..MaxIterations
  BY DEF Summarise, BoundInv, ActiveInv, HistoryTypeOK
<1>6. pending' \subseteq Writes
  <2>1. Digest(context) \in Entries
    BY <1>1, DigestIsEntry
  <2>2. [op |-> "compact", entry |-> Digest(context), at |-> <<turn, iter>>] \in Writes
    BY <2>1, <1>5 DEF Writes
  <2> QED BY <2>2 DEF Summarise, BoundInv, HistoryTypeOK
<1>7. HistoryTypeOK'
  BY <1>2, <1>4, <1>6 DEF Summarise, BoundInv, HistoryTypeOK
<1>8. ActiveInv' /\ LengthInv'
  BY <1>2, <1>4, <1>5 DEF Summarise, BoundInv, ActiveInv, LengthInv
<1> QED BY <1>2, <1>4, <1>7, <1>8 DEF BoundInv

LEMMA KeepOrTrimKeepsBounds ==
  ASSUME BoundInv, KeepOrTrim
  PROVE  BoundInv'
<1>1. context \in Seq(Entries) /\ Len(context) >= 1
  BY DEF KeepOrTrim, BoundInv, HistoryTypeOK, LengthInv
<1>2. context' \in Seq(Entries) /\ Len(context') \in 1..HardMax
  BY <1>1, TrimIsShort DEF KeepOrTrim
<1>3. HistoryTypeOK'
  BY <1>2 DEF KeepOrTrim, BoundInv, HistoryTypeOK
<1> QED BY <1>2, <1>3 DEF KeepOrTrim, BoundInv, ActiveInv, LengthInv

LEMMA ForceCompressKeepsBounds ==
  ASSUME BoundInv, ForceCompress
  PROVE  BoundInv'
<1>1. context \in Seq(Entries) /\ Len(context) \in 1..HardMax
  BY DEF ForceCompress, BoundInv, HistoryTypeOK, LengthInv
<1>2. context' \in Seq(Entries) /\ Len(context') \in 1..Len(context)
  BY <1>1, ForcedIsShorter DEF ForceCompress
<1>3. HistoryTypeOK'
  BY <1>2 DEF ForceCompress, BoundInv, HistoryTypeOK
<1> QED BY <1>1, <1>2, <1>3 DEF ForceCompress, BoundInv, ActiveInv, LengthInv

(* What the tools of one iteration add.                                    *)
LEMMA ToolMessages ==
  ASSUME NEW t \in 1..MaxTurns, NEW i \in 1..MaxIterations
  PROVE  LET p == <<Message("call", t, i), Message("result", t, i)>>
         IN p \in Seq(Entries) /\ Len(p) = 2 /\ Covered(p) = {<<t, "call", i>>, <<t, "result", i>>}
<1> DEFINE a == Message("call", t, i)
           b == Message("result", t, i)
           p == <<a, b>>
<1>1. a \in Entries /\ b \in Entries
  BY MessageIsEntry
<1>2. a.of = {<<t, "call", i>>} /\ b.of = {<<t, "result", i>>}
  BY DEF Message
<1> HIDE DEF a, b
<1>3. p \in Seq(Entries) /\ Len(p) = 2 /\ DOMAIN p = {1, 2} /\ p[1] = a /\ p[2] = b
  BY <1>1
<1>4. Covered(p) = a.of \cup b.of
  <2> HIDE DEF p
  <2> QED BY <1>3 DEF Covered
<1> QED BY <1>2, <1>3, <1>4 DEF a, b

LEMMA CallToolsKeepsBounds ==
  ASSUME BoundInv, CallTools
  PROVE  BoundInv'
<1>1. context \in Seq(Entries) /\ Len(context) \in 1..HardMax /\ turn \in 1..MaxTurns
      /\ iter \in 0..MaxIterations /\ iter < MaxIterations
  BY DEF CallTools, BoundInv, HistoryTypeOK, ActiveInv, LengthInv
<1>2. CASE iter + 1 < MaxIterations
  <2> DEFINE p == <<Message("call", turn, iter + 1), Message("result", turn, iter + 1)>>
  <2>1. p \in Seq(Entries) /\ Len(p) = 2
    <3>1. iter + 1 \in 1..MaxIterations
      BY <1>1, <1>2
    <3> QED BY <3>1, <1>1, ToolMessages, Zenon
  <2>2. context' = context \o p /\ iter' = iter + 1 /\ phase' = "compact"
    BY <1>2 DEF CallTools
  <2> HIDE DEF p
  <2>3. context' \in Seq(Entries) /\ Len(context') = Len(context) + 2
    <3>1. context \o p \in Seq(Entries) /\ Len(context \o p) = Len(context) + Len(p)
      BY <1>1, <2>1, ConcatProperties
    <3> QED BY <3>1, <2>1, <2>2
  <2>4. iter' \in 0..MaxIterations
    BY <1>1, <1>2, <2>2
  <2>5. HistoryTypeOK'
    BY <1>2, <2>2, <2>3, <2>4 DEF CallTools, BoundInv, HistoryTypeOK
  <2> QED BY <1>1, <1>2, <2>2, <2>3, <2>5 DEF CallTools, BoundInv, ActiveInv, LengthInv
<1>3. CASE ~(iter + 1 < MaxIterations)
  BY <1>3 DEF CallTools, EndTurn, BoundInv, HistoryTypeOK, ActiveInv, LengthInv
<1> QED BY <1>2, <1>3

LEMMA AnswerKeepsBounds ==
  ASSUME BoundInv, Answer
  PROVE  BoundInv'
<1>1. turn \in 1..MaxTurns /\ Remember("assistant", turn)
  BY DEF Answer, BoundInv, ActiveInv
<1>2. history' \in Seq(Entries) /\ Len(history') = Len(history) + 1 /\ pending' \subseteq Writes
  BY <1>1, RememberTypes DEF BoundInv
<1>3. hidden' \in 0..Len(history')
  BY <1>2, LenProperties DEF Answer, BoundInv, HistoryTypeOK
<1> QED BY <1>2, <1>3 DEF Answer, EndTurn, BoundInv, HistoryTypeOK, ActiveInv, LengthInv

LEMMA WriteKeepsBounds ==
  ASSUME BoundInv, NEW w \in pending, Write(w) \/ WriteFails(w)
  PROVE  BoundInv'
<1>1. w.entry \in Entries /\ w.entry.of \subseteq MessageIds
  BY DEF BoundInv, HistoryTypeOK, Writes, Entries
<1>2. rows' \in Seq(Entries)
  <2>1. Append(rows, w.entry) \in Seq(Entries) /\ <<w.entry>> \in Seq(Entries)
    BY <1>1, AppendProperties DEF BoundInv, HistoryTypeOK
  <2> QED BY <2>1 DEF Write, WriteFails, BoundInv, HistoryTypeOK
<1>3. lost' \subseteq MessageIds
  BY <1>1 DEF Write, WriteFails, BoundInv, HistoryTypeOK
<1> QED BY <1>2, <1>3 DEF Write, WriteFails, BoundInv, HistoryTypeOK, ActiveInv, LengthInv, turnVars

LEMMA RestartKeepsBounds ==
  ASSUME BoundInv, Restart
  PROVE  BoundInv'
<1>1. rows \in Seq(Entries) /\ Len(rows) \in Nat
  BY LenProperties DEF BoundInv, HistoryTypeOK
<1>2. history' \in Seq(Entries)
  <2>1. CASE Len(rows) > RestoreLimit
    <3>1. Len(rows) - RestoreLimit + 1 \in 1..Len(rows)+1 /\ Len(rows) \in 0..Len(rows)
      BY <1>1, <2>1
    <3> QED BY <1>1, <2>1, <3>1, Part DEF Restart, Restored
  <2> QED BY <1>1, <2>1 DEF Restart, Restored
<1>3. hidden' \in 0..Len(history')
  BY <1>2, LenProperties DEF Restart
<1>4. <<>> \in Seq(Entries)
  BY EmptySeq
<1>5. /\ phase' = "idle" /\ iter' = 0 /\ retries' = 0 /\ context' = <<>> /\ shortened' = {}
      /\ up' = TRUE /\ seen' = FALSE /\ pending' = {} /\ turn' = turn /\ rows' = rows /\ lost' = lost
  BY DEF Restart, EndTurn
<1>6. iter' \in 0..MaxIterations /\ retries' \in 0..2
  BY <1>5
<1>7. turn' \in 0..MaxTurns /\ rows' \in Seq(Entries) /\ lost' \subseteq MessageIds
  BY <1>5 DEF BoundInv, HistoryTypeOK
<1>8. HistoryTypeOK'
  BY <1>2, <1>3, <1>4, <1>5, <1>6, <1>7, Zenon DEF HistoryTypeOK
<1> QED BY <1>5, <1>8 DEF BoundInv, ActiveInv, LengthInv

LEMMA BoundInvInductive == BoundInv /\ [HistoryNext]_historyVars => BoundInv'
<1> SUFFICES ASSUME BoundInv, [HistoryNext]_historyVars PROVE BoundInv'
  OBVIOUS
<1>1. CASE \E topic \in {"same", "switch", "clean"} : StartTurn(topic)
  BY <1>1, StartTurnKeepsBounds
<1>2. CASE Summarise
  BY <1>2, SummariseKeepsBounds
<1>3. CASE KeepOrTrim
  BY <1>3, KeepOrTrimKeepsBounds
<1>4. CASE ForceCompress
  BY <1>4, ForceCompressKeepsBounds
<1>5. CASE CallTools
  BY <1>5, CallToolsKeepsBounds
<1>6. CASE Answer
  BY <1>6, AnswerKeepsBounds
<1>7. CASE TurnFails
  BY <1>7 DEF TurnFails, EndTurn, BoundInv, HistoryTypeOK, ActiveInv, LengthInv
<1>8. CASE \E w \in pending : Write(w) \/ WriteFails(w)
  BY <1>8, WriteKeepsBounds
<1>9. CASE Stop
  BY <1>9 DEF Stop, turnVars, BoundInv, HistoryTypeOK, ActiveInv, LengthInv
<1>10. CASE Restart
  BY <1>10, RestartKeepsBounds
<1>11. CASE UNCHANGED historyVars
  BY <1>11 DEF historyVars, BoundInv, HistoryTypeOK, ActiveInv, LengthInv
<1> QED BY <1>1, <1>2, <1>3, <1>4, <1>5, <1>6, <1>7, <1>8, <1>9, <1>10, <1>11 DEF HistoryNext

-----------------------------------------------------------------------------
(* Every variable keeps its type, whatever the thresholds: the engine's    *)
(* context-window retries stay within two, the iterations within their     *)
(* limit.                                                                  *)
THEOREM TypeCorrect == HistorySpec => []HistoryTypeOK
<1>1. BoundInv => HistoryTypeOK
  BY DEF BoundInv
<1> QED BY <1>1, TypeInit, BoundInvInductive, PTL DEF HistorySpec

(* The model is never called with more messages than HARD_MAX_HISTORY, and *)
(* rolling_compact never slices past the end of the history.               *)
THEOREM ContextStaysBounded == HistorySpec => []ContextBounded
<1>1. BoundInv => ContextBounded
  <2> SUFFICES ASSUME BoundInv PROVE ContextBounded
    OBVIOUS
  <2>1. phase = "compact" /\ Due => Len(context) >= SumEnd(context)
    <3> SUFFICES ASSUME phase = "compact", Due PROVE Len(context) >= SumEnd(context)
      OBVIOUS
    <3>1. context \in Seq(Entries) /\ Len(context) >= 2
      BY DueHasTwo DEF BoundInv, HistoryTypeOK
    <3> QED BY <3>1, SumEndInRange, LenProperties
  <2> QED BY <2>1 DEF BoundInv, LengthInv, ContextBounded
<1> QED BY <1>1, TypeInit, BoundInvInductive, PTL DEF HistorySpec

-----------------------------------------------------------------------------
(* One more iteration, one more call and its result.                       *)
LEMMA IterationAdds ==
  ASSUME NEW t, NEW i \in Nat
  PROVE  {t} \X {"call", "result"} \X (1..(i+1)) =
           ({t} \X {"call", "result"} \X (1..i)) \cup {<<t, "call", i+1>>, <<t, "result", i+1>>}
<1>1. 1..(i+1) = (1..i) \cup {i+1}
  OBVIOUS
<1> QED BY <1>1

LEMMA NoIteration ==
  ASSUME NEW t
  PROVE  {t} \X {"call", "result"} \X (1..0) = {}
<1>1. 1..0 = {}
  OBVIOUS
<1> QED BY <1>1

LEMMA StartTurnIsComplete ==
  ASSUME NEW topic \in {"same", "switch", "clean"}, StartTurn(topic)
  PROVE  ContextComplete'
<1>1. context' = Visible' /\ iter' = 0
  BY DEF StartTurn, Visible
<1>2. {turn'} \X {"call", "result"} \X (1..iter') = {}
  BY <1>1, NoIteration
<1> QED BY <1>1, <1>2 DEF ContextComplete

LEMMA CallToolsIsComplete ==
  ASSUME BoundInv, ContextComplete, CallTools
  PROVE  ContextComplete'
<1>1. CASE iter + 1 < MaxIterations
  <2> DEFINE p == <<Message("call", turn, iter + 1), Message("result", turn, iter + 1)>>
  <2>1. /\ context \in Seq(Entries) /\ turn \in 1..MaxTurns /\ iter \in Nat
        /\ iter + 1 \in 1..MaxIterations
    BY <1>1 DEF CallTools, BoundInv, HistoryTypeOK, ActiveInv
  <2>2. p \in Seq(Entries) /\ Covered(p) = {<<turn, "call", iter + 1>>, <<turn, "result", iter + 1>>}
    BY <2>1, ToolMessages, Zenon
  <2>3. context' = context \o p /\ iter' = iter + 1 /\ shortened' = shortened /\ turn' = turn /\ phase # "idle"
    BY <1>1 DEF CallTools
  <2>4. Visible' = Visible
    BY DEF CallTools, Visible
  <2> HIDE DEF p
  <2>5. Covered(context') = Covered(context) \cup Covered(p)
    BY <2>1, <2>2, <2>3, CoveredConcat
  <2>6. {turn} \X {"call", "result"} \X (1..(iter + 1)) =
          ({turn} \X {"call", "result"} \X (1..iter)) \cup {<<turn, "call", iter + 1>>, <<turn, "result", iter + 1>>}
    BY <2>1, IterationAdds
  <2>7. ASSUME shortened \subseteq {"summary"}
        PROVE  Covered(context') = Covered(Visible) \cup ({turn} \X {"call", "result"} \X (1..(iter + 1)))
    <3>1. Covered(context) = Covered(Visible) \cup ({turn} \X {"call", "result"} \X (1..iter))
      BY <2>3, <2>7 DEF ContextComplete
    <3> QED BY <3>1, <2>2, <2>5, <2>6, Zenon
  <2> QED BY <2>3, <2>4, <2>7 DEF ContextComplete
<1>2. CASE ~(iter + 1 < MaxIterations)
  BY <1>2 DEF CallTools, EndTurn, ContextComplete
<1> QED BY <1>1, <1>2

(* Steps that leave the context and what it is made from alone.            *)
LEMMA ElsewhereIsComplete ==
  ASSUME ContextComplete, UNCHANGED <<phase, iter, context, shortened, turn, history, hidden>>
  PROVE  ContextComplete'
<1>1. Visible' = Visible
  BY DEF Visible
<1> QED BY <1>1 DEF ContextComplete

LEMMA CompleteInductive == BoundInv /\ ContextComplete /\ [HistoryNext]_historyVars => ContextComplete'
<1> SUFFICES ASSUME BoundInv, ContextComplete, [HistoryNext]_historyVars PROVE ContextComplete'
  OBVIOUS
<1>1. CASE \E topic \in {"same", "switch", "clean"} : StartTurn(topic)
  BY <1>1, StartTurnIsComplete
<1>2. CASE Summarise
  <2>1. Covered(context') = Covered(context)
    BY <1>2, SummariseKeepsBounds
  <2>2. Visible' = Visible /\ turn' = turn /\ iter' = iter /\ phase # "idle"
        /\ shortened' = shortened \cup {"summary"}
    BY <1>2 DEF Summarise, Visible
  <2> QED BY <2>1, <2>2 DEF ContextComplete
<1>3. CASE KeepOrTrim
  <2>1. context \in Seq(Entries) /\ Len(context) >= 1
    BY <1>3 DEF KeepOrTrim, BoundInv, HistoryTypeOK, LengthInv
  <2>2. CASE Len(context) > HardMax
    <3>1. "trim" \in shortened'
      BY <1>3, <2>2 DEF KeepOrTrim
    <3> QED BY <3>1 DEF ContextComplete
  <2>3. CASE ~(Len(context) > HardMax)
    <3>1. context' = context /\ shortened' = shortened
      BY <1>3, <2>3 DEF KeepOrTrim, Trim
    <3>2. Visible' = Visible /\ turn' = turn /\ iter' = iter /\ phase # "idle"
      BY <1>3 DEF KeepOrTrim, Visible
    <3> QED BY <3>1, <3>2 DEF ContextComplete
  <2> QED BY <2>2, <2>3
<1>4. CASE ForceCompress
  <2>1. "force" \in shortened'
    BY <1>4 DEF ForceCompress
  <2> QED BY <2>1 DEF ContextComplete
<1>5. CASE CallTools
  BY <1>5, CallToolsIsComplete
<1>6. CASE Answer \/ TurnFails \/ Restart
  <2>1. phase' = "idle"
    BY <1>6 DEF Answer, TurnFails, Restart, EndTurn
  <2> QED BY <2>1 DEF ContextComplete
<1>7. CASE \E w \in pending : Write(w) \/ WriteFails(w)
  BY <1>7, ElsewhereIsComplete DEF Write, WriteFails, turnVars
<1>8. CASE Stop
  BY <1>8, ElsewhereIsComplete DEF Stop, turnVars
<1>9. CASE UNCHANGED historyVars
  BY <1>9, ElsewhereIsComplete DEF historyVars
<1> QED BY <1>1, <1>2, <1>3, <1>4, <1>5, <1>6, <1>7, <1>8, <1>9 DEF HistoryNext

(* However often a turn is summarised, the model is called with a context  *)
(* that stands for the whole visible conversation and everything the       *)
(* turn's tools did, unless it was trimmed or compressed by force.         *)
THEOREM SummariesForgetNothing == HistorySpec => []ContextComplete
<1>1. HistoryInit => ContextComplete
  BY DEF HistoryInit, ContextComplete
<1> QED BY <1>1, TypeInit, BoundInvInductive, CompleteInductive, PTL DEF HistorySpec

-----------------------------------------------------------------------------
(* The store.  What the engine may have said so far: a message of every     *)
(* turn that is over, and the question of the one in progress.              *)
Past == ((1..turn) \X {"user", "assistant"} \X {0})
          \ (IF phase = "idle" THEN {} ELSE {<<turn, "assistant", 0>>})

(* An entry is a summary or one message of the past. *)
Single(e) == e.kind # "summary" => \E x \in Past : e.of = {x}

(* A message is written at most once: what still has to be appended is not  *)
(* among the rows, and nothing is appended twice.                           *)
StoreInv ==
  /\ \A k \in DOMAIN history : Single(history[k])
  /\ \A k \in DOMAIN rows : Single(rows[k])
  /\ \A w \in pending : (w.op = "append" <=> w.entry.kind # "summary") /\ Single(w.entry)
  /\ NothingTwice
  /\ \A w \in Appending : \A k \in DOMAIN rows : rows[k].kind # "summary" => w.entry.of \cap rows[k].of = {}
  /\ \A v, w \in Appending : v.entry.of \cap w.entry.of # {} => v = w
  /\ StoreRemembers

LEMMA SingleGrows ==
  ASSUME Past \subseteq Past', NEW e, Single(e) PROVE (e.kind # "summary" => \E x \in Past' : e.of = {x})
BY DEF Single

(* StoreRemembers, message by message. *)
Remembered(x) == x \in Covered(rows) \/ x \in lost \/ \E w \in Appending : x \in w.entry.of

LEMMA RemembersEach ==
  StoreRemembers <=> (up /\ ~SummaryWritten => \A x \in Covered(history) : Remembered(x))
BY DEF StoreRemembers, Remembered

LEMMA RemembersEachNext ==
  StoreRemembers' <=> (up' /\ ~SummaryWritten' => \A x \in Covered(history') : Remembered(x)')
BY DEF StoreRemembers, Remembered

LEMMA Appended ==
  ASSUME NEW q \in Seq(Entries), NEW e \in Entries
  PROVE  /\ DOMAIN Append(q, e) = DOMAIN q \cup {Len(q) + 1} /\ Len(q) + 1 \notin DOMAIN q
         /\ \A k \in DOMAIN q : Append(q, e)[k] = q[k]
         /\ Append(q, e)[Len(q) + 1] = e
         /\ Covered(Append(q, e)) = Covered(q) \cup e.of
<1>1. /\ DOMAIN Append(q, e) = DOMAIN q \cup {Len(q) + 1} /\ Len(q) + 1 \notin DOMAIN q
      /\ \A k \in DOMAIN q : Append(q, e)[k] = q[k]
      /\ Append(q, e)[Len(q) + 1] = e
  OBVIOUS
<1>2. Covered(Append(q, e)) = Covered(q) \cup e.of
  <2> DEFINE r == Append(q, e)
  <2>1. DOMAIN r = DOMAIN q \cup {Len(q) + 1} /\ (\A k \in DOMAIN q : r[k] = q[k]) /\ r[Len(q) + 1] = e
    BY <1>1
  <2> HIDE DEF r
  <2>2. Covered(r) = Covered(q) \cup e.of
    BY <2>1 DEF Covered
  <2> QED BY <2>2 DEF r
<1> QED BY <1>1, <1>2

LEMMA AppendedOnce ==
  ASSUME NEW q \in Seq(Entries), NEW e \in Entries, ~Twice(q),
         e.kind # "summary" => \A k \in DOMAIN q : q[k].kind # "summary" => e.of \cap q[k].of = {}
  PROVE  ~Twice(Append(q, e))
<1> DEFINE r == Append(q, e)
<1>1. /\ DOMAIN r = DOMAIN q \cup {Len(q) + 1} /\ Len(q) + 1 \notin DOMAIN q
      /\ (\A k \in DOMAIN q : r[k] = q[k]) /\ r[Len(q) + 1] = e
  BY Appended
<1> HIDE DEF r
<1>2. ~Twice(r)
  BY <1>1 DEF Twice
<1> QED BY <1>2 DEF r

(* A step that says nothing new and stores nothing. *)
LEMMA StoreQuiet ==
  ASSUME StoreInv, Past \subseteq Past', UNCHANGED <<history, rows, lost>>, up' => up,
         pending \subseteq pending',
         \A w \in pending' \ pending : w.op # "append" /\ w.entry.kind = "summary"
  PROVE  StoreInv'
<1>1. Appending' = Appending
  BY DEF Appending
<1>2. StoreRemembers'
  BY <1>1 DEF StoreInv, StoreRemembers, SummaryWritten
<1>3. NothingTwice'
  BY DEF StoreInv, NothingTwice
<1>4. \A w \in pending' : (w.op = "append" <=> w.entry.kind # "summary") /\ Single(w.entry)'
  BY DEF StoreInv, Single
<1>5. /\ \A k \in DOMAIN history' : Single(history[k])'
      /\ \A k \in DOMAIN rows' : Single(rows[k])'
  BY DEF StoreInv, Single
<1> QED BY <1>1, <1>2, <1>3, <1>4, <1>5 DEF StoreInv

(* push_history of a message that has not been said yet. *)
LEMMA RememberStores ==
  ASSUME BoundInv, StoreInv, up, up', UNCHANGED <<rows, lost>>,
         NEW kind \in {"user", "assistant"}, NEW t \in 1..MaxTurns, Remember(kind, t),
         Past \subseteq Past', <<t, kind, 0>> \notin Past, <<t, kind, 0>> \in Past'
  PROVE  StoreInv'
<1> DEFINE e == Message(kind, t, 0)
           new == [op |-> "append", entry |-> e, at |-> <<t, 0>>]
<1>1. e \in Entries /\ e.kind # "summary" /\ e.of = {<<t, kind, 0>>}
  BY MessageIsEntry DEF Message
<1>2. /\ history' = Append(history, e) /\ pending' = pending \cup {new}
      /\ history \in Seq(Entries)
  BY DEF Remember, BoundInv, HistoryTypeOK
<1>3. new.op = "append" /\ new.entry = e
  OBVIOUS
<1> HIDE DEF e, new
<1>4. /\ DOMAIN history' = DOMAIN history \cup {Len(history) + 1}
      /\ \A k \in DOMAIN history : history'[k] = history[k]
      /\ history'[Len(history) + 1] = e
      /\ Covered(history') = Covered(history) \cup e.of
  BY <1>1, <1>2, Appended
<1>5. \A x : Single(x) /\ x.kind # "summary" => e.of \cap x.of = {}
  BY <1>1 DEF Single
<1>6. ~Twice(history')
  <2>1. \A k \in DOMAIN history : history[k].kind # "summary" => e.of \cap history[k].of = {}
    BY <1>5 DEF StoreInv
  <2> QED BY <1>1, <1>2, <2>1, AppendedOnce DEF StoreInv, NothingTwice
<1>7. Appending' = Appending \cup {new}
  BY <1>2, <1>3 DEF Appending
<1>8. Single(e)'
  BY <1>1 DEF Single
<1>9. \A x : Single(x) => Single(x)'
  BY DEF Single
<1>10. \A k \in DOMAIN history' : Single(history[k])'
  <2> SUFFICES ASSUME NEW k \in DOMAIN history' PROVE Single(history[k])'
    OBVIOUS
  <2>1. CASE k \in DOMAIN history
    <3>1. Single(history[k]) /\ history'[k] = history[k]
      BY <1>4, <2>1 DEF StoreInv
    <3> QED BY <3>1 DEF Single
  <2>2. CASE k = Len(history) + 1
    <3>1. history'[k] = e
      BY <1>4, <2>2
    <3> QED BY <3>1, <1>1 DEF Single
  <2> QED BY <1>4, <2>1, <2>2
<1>11. \A k \in DOMAIN rows' : Single(rows[k])'
  BY DEF StoreInv, Single
<1>12. \A w \in pending' : (w.op = "append" <=> w.entry.kind # "summary") /\ Single(w.entry)'
  <2> SUFFICES ASSUME NEW w \in pending'
               PROVE  (w.op = "append" <=> w.entry.kind # "summary") /\ Single(w.entry)'
    OBVIOUS
  <2>1. CASE w \in pending
    BY <2>1 DEF StoreInv, Single
  <2>2. CASE w = new
    BY <1>1, <1>3, <2>2 DEF Single
  <2> QED BY <1>2, <2>1, <2>2
<1>13. \A w \in Appending' : \A k \in DOMAIN rows' :
         rows'[k].kind # "summary" => w.entry.of \cap rows'[k].of = {}
  <2>1. \A k \in DOMAIN rows : rows[k].kind # "summary" => new.entry.of \cap rows[k].of = {}
    BY <1>3, <1>5 DEF StoreInv
  <2> QED BY <1>7, <2>1 DEF StoreInv
<1>14. \A v, w \in Appending' : v.entry.of \cap w.entry.of # {} => v = w
  <2>1. \A w \in Appending : new.entry.of \cap w.entry.of = {}
    BY <1>3, <1>5 DEF StoreInv, Appending
  <2>2. \A w \in Appending : w.entry.of \cap new.entry.of = {}
    BY <2>1
  <2> QED BY <1>7, <2>1, <2>2 DEF StoreInv
<1>15. StoreRemembers'
  <2>1. \A x : Remembered(x) \/ x \in e.of => Remembered(x)'
    BY <1>3, <1>7 DEF Remembered
  <2>2. SummaryWritten' <=> SummaryWritten
    BY DEF SummaryWritten
  <2> QED BY <1>4, <2>1, <2>2, RemembersEach, RemembersEachNext DEF StoreInv
<1> QED BY <1>6, <1>10, <1>11, <1>12, <1>13, <1>14, <1>15 DEF StoreInv, NothingTwice

LEMMA WriteStores ==
  ASSUME BoundInv, StoreInv, NEW w \in pending, Write(w) PROVE StoreInv'
<1>1. /\ pending' = pending \ {w} /\ Past' = Past /\ up /\ up'
      /\ UNCHANGED <<history, lost>>
  BY DEF Write, turnVars, Past
<1>2. w.entry \in Entries /\ Single(w.entry) /\ rows \in Seq(Entries)
  BY DEF BoundInv, HistoryTypeOK, Writes, StoreInv
<1>3. ~Twice(history') /\ (\A k \in DOMAIN history' : Single(history[k])')
  BY <1>1 DEF StoreInv, NothingTwice, Single
<1>4. \A v \in pending' : (v.op = "append" <=> v.entry.kind # "summary") /\ Single(v.entry)'
  BY <1>1 DEF StoreInv, Single
<1>5. CASE w.op = "append"
  <2>1. rows' = Append(rows, w.entry) /\ w \in Appending /\ w.entry.kind # "summary"
    BY <1>5 DEF Write, Appending, StoreInv
  <2>2. /\ DOMAIN rows' = DOMAIN rows \cup {Len(rows) + 1}
        /\ \A k \in DOMAIN rows : rows'[k] = rows[k]
        /\ rows'[Len(rows) + 1] = w.entry
        /\ Covered(rows') = Covered(rows) \cup w.entry.of
    BY <1>2, <2>1, Appended
  <2>3. ~Twice(rows')
    BY <1>2, <2>1, AppendedOnce DEF StoreInv, NothingTwice
  <2>4. \A k \in DOMAIN rows' : Single(rows[k])'
    BY <1>1, <1>2, <2>2 DEF StoreInv, Single
  <2>5. Appending' = Appending \ {w}
    BY <1>1 DEF Appending
  <2>6. \A v \in Appending' : \A k \in DOMAIN rows' :
          rows'[k].kind # "summary" => v.entry.of \cap rows'[k].of = {}
    <3>1. \A v \in Appending' : v.entry.of \cap w.entry.of = {}
      BY <2>1, <2>5 DEF StoreInv
    <3> QED BY <2>2, <2>5, <3>1 DEF StoreInv
  <2>7. StoreRemembers'
    <3>1. \A x : Remembered(x) => Remembered(x)'
      BY <1>1, <2>2, <2>5 DEF Remembered
    <3>2. SummaryWritten => SummaryWritten'
      BY <2>2 DEF SummaryWritten
    <3> QED BY <1>1, <3>1, <3>2, RemembersEach, RemembersEachNext DEF StoreInv
  <2> QED BY <1>3, <1>4, <2>3, <2>4, <2>5, <2>6, <2>7 DEF StoreInv, NothingTwice
<1>6. CASE w.op # "append"
  <2>1. rows' = <<w.entry>> /\ w.entry.kind = "summary"
    BY <1>6 DEF Write, StoreInv
  <2>2. DOMAIN rows' = {1} /\ rows'[1].kind = "summary"
    BY <2>1
  <2>3. SummaryWritten' /\ ~Twice(rows') /\ (\A k \in DOMAIN rows' : Single(rows[k])')
    BY <2>2 DEF SummaryWritten, Twice, Single
  <2>4. Appending' \subseteq Appending
    BY <1>1 DEF Appending
  <2> QED BY <1>3, <1>4, <2>2, <2>3, <2>4 DEF StoreInv, NothingTwice, StoreRemembers
<1> QED BY <1>5, <1>6

LEMMA WriteFailsStores ==
  ASSUME StoreInv, NEW w \in pending, WriteFails(w) PROVE StoreInv'
<1>1. /\ pending' = pending \ {w} /\ Past' = Past /\ up /\ up'
      /\ UNCHANGED <<history, rows>>
      /\ lost' = IF w.op = "append" THEN lost \cup w.entry.of ELSE lost
  BY DEF WriteFails, turnVars, Past
<1>2. /\ \A k \in DOMAIN history' : Single(history[k])'
      /\ \A k \in DOMAIN rows' : Single(rows[k])'
      /\ \A v \in pending' : (v.op = "append" <=> v.entry.kind # "summary") /\ Single(v.entry)'
  BY <1>1 DEF StoreInv, Single
<1>3. Appending' = Appending \ {w} /\ (w.op # "append" => Appending' = Appending)
  BY <1>1 DEF Appending
<1>4. StoreRemembers'
  <2>1. \A x : Remembered(x) => Remembered(x)'
    BY <1>1, <1>3 DEF Remembered
  <2>2. SummaryWritten' <=> SummaryWritten
    BY <1>1 DEF SummaryWritten
  <2> QED BY <1>1, <2>1, <2>2, RemembersEach, RemembersEachNext DEF StoreInv
<1> QED BY <1>1, <1>2, <1>3, <1>4 DEF StoreInv, NothingTwice

(* The engine after a restart knows a part of the rows. *)
LEMMA RestartStores ==
  ASSUME BoundInv, StoreInv, Restart PROVE StoreInv'
<1>1. /\ pending' = {} /\ rows' = rows /\ turn' = turn /\ phase' = "idle" /\ history' = Restored
      /\ rows \in Seq(Entries) /\ Len(rows) \in Nat /\ lost' = lost
  BY DEF Restart, EndTurn, BoundInv, HistoryTypeOK
<1>2. Past \subseteq Past'
  BY <1>1 DEF Past
<1>3. PICK d \in Nat : \A k \in DOMAIN history' : k + d \in DOMAIN rows /\ history'[k] = rows[k + d] /\ k \in Nat
  <2>1. CASE Len(rows) > RestoreLimit
    <3> DEFINE d == Len(rows) - RestoreLimit
    <3>1. d \in Nat /\ d + 1 \in 1..Len(rows)+1 /\ Len(rows) \in 0..Len(rows)
      BY <1>1, <2>1
    <3>2. history' = SubSeq(rows, d + 1, Len(rows))
      BY <1>1, <2>1 DEF Restored
    <3> HIDE DEF d
    <3>3. /\ Len(history') = IF d + 1 <= Len(rows) THEN Len(rows) - (d + 1) + 1 ELSE 0
          /\ \A i \in 1..(Len(rows) - (d + 1) + 1) : history'[i] = rows[d + 1 + i - 1]
          /\ history' \in Seq(Entries)
      BY <1>1, <3>1, <3>2, Part
    <3>4. DOMAIN history' = 1..Len(history')
      BY <3>3
    <3>5. \A k \in DOMAIN history' : k + d \in DOMAIN rows /\ history'[k] = rows[k + d] /\ k \in Nat
      BY <1>1, <3>1, <3>3, <3>4
    <3> QED BY <3>1, <3>5
  <2>2. CASE ~(Len(rows) > RestoreLimit)
    <3>1. history' = rows
      BY <1>1, <2>2 DEF Restored
    <3>2. \A k \in DOMAIN history' : k + 0 \in DOMAIN rows /\ history'[k] = rows[k + 0] /\ k \in Nat
      BY <1>1, <3>1
    <3> QED BY <3>2
  <2> QED BY <2>1, <2>2
<1>4. ~Twice(history')
  <2> SUFFICES ASSUME NEW j \in DOMAIN history', NEW k \in DOMAIN history', j # k,
                      history'[j].kind # "summary", history'[k].kind # "summary",
                      history'[j].of \cap history'[k].of # {}
               PROVE  FALSE
    BY DEF Twice
  <2>1. j + d # k + d /\ j + d \in DOMAIN rows /\ k + d \in DOMAIN rows
    BY <1>3
  <2> QED BY <1>3, <2>1 DEF StoreInv, NothingTwice, Twice
<1>5. \A k \in DOMAIN history' : Single(history[k])'
  BY <1>2, <1>3 DEF StoreInv, Single
<1>6. \A k \in DOMAIN rows' : Single(rows[k])'
  BY <1>1, <1>2 DEF StoreInv, Single
<1>7. Covered(history') \subseteq Covered(rows')
  BY <1>1, <1>3 DEF Covered
<1>8. Appending' = {}
  BY <1>1 DEF Appending
<1> QED BY <1>1, <1>4, <1>5, <1>6, <1>7, <1>8 DEF StoreInv, NothingTwice, StoreRemembers

LEMMA StoreInductive == BoundInv /\ StoreInv /\ [HistoryNext]_historyVars => StoreInv'
<1> SUFFICES ASSUME BoundInv, StoreInv, [HistoryNext]_historyVars PROVE StoreInv'
  OBVIOUS
<1> USE DEF turnVars
<1>0. turn \in 0..MaxTurns /\ (phase # "idle" => turn \in 1..MaxTurns)
  BY DEF BoundInv, HistoryTypeOK, ActiveInv
<1>1. CASE \E topic \in {"same", "switch", "clean"} : StartTurn(topic)
  <2>1. /\ phase = "idle" /\ phase' # "idle" /\ turn' = turn + 1 /\ turn + 1 \in 1..MaxTurns
        /\ Remember("user", turn + 1) /\ up /\ up' /\ UNCHANGED <<rows, lost>>
    BY <1>0, <1>1 DEF StartTurn
  <2>2. Past \subseteq Past' /\ <<turn + 1, "user", 0>> \notin Past /\ <<turn + 1, "user", 0>> \in Past'
    BY <1>0, <2>1 DEF Past
  <2> QED BY <2>1, <2>2, RememberStores
<1>2. CASE Summarise
  <2>1. Past \subseteq Past' /\ UNCHANGED <<history, rows, lost, up>>
    BY <1>2 DEF Summarise, Past
  <2> DEFINE w == [op |-> "compact", entry |-> Digest(context), at |-> <<turn, iter>>]
  <2>2. w.op # "append" /\ w.entry.kind = "summary"
    BY DEF Digest
  <2>3. pending' = pending \/ pending' = pending \cup {w}
    BY <1>2 DEF Summarise
  <2> HIDE DEF w
  <2>4. pending \subseteq pending' /\ \A v \in pending' \ pending : v = w
    BY <2>3
  <2> QED BY <2>1, <2>2, <2>4, StoreQuiet
<1>3. CASE KeepOrTrim \/ ForceCompress \/ CallTools \/ TurnFails \/ Stop \/ UNCHANGED historyVars
  <2>1. /\ turn' = turn /\ (phase = "idle" => phase' = "idle")
        /\ UNCHANGED <<history, rows, lost, pending>> /\ (up' => up)
    BY <1>3 DEF KeepOrTrim, ForceCompress, CallTools, TurnFails, Stop, EndTurn, historyVars
  <2>2. Past \subseteq Past'
    BY <2>1 DEF Past
  <2> QED BY <2>1, <2>2, StoreQuiet
<1>4. CASE Answer
  <2>1. /\ phase # "idle" /\ phase' = "idle" /\ turn' = turn /\ turn \in 1..MaxTurns
        /\ Remember("assistant", turn) /\ up /\ up' /\ UNCHANGED <<rows, lost>>
    BY <1>0, <1>4 DEF Answer, EndTurn
  <2>2. Past \subseteq Past' /\ <<turn, "assistant", 0>> \notin Past /\ <<turn, "assistant", 0>> \in Past'
    BY <2>1 DEF Past
  <2> QED BY <2>1, <2>2, RememberStores
<1>5. CASE \E w \in pending : Write(w) \/ WriteFails(w)
  BY <1>5, WriteStores, WriteFailsStores
<1>6. CASE Restart
  BY <1>6, RestartStores
<1> QED BY <1>1, <1>2, <1>3, <1>4, <1>5, <1>6 DEF HistoryNext

(* In whatever order the detached writes of session_store.rs are done, fail *)
(* or are cut off by a restart, neither the engine nor the store has a      *)
(* message twice, and as long as no compaction was written no message is    *)
(* missing from the rows that was not reported lost (StoreIsTrue).          *)
THEOREM StoreForgetsNothing == HistorySpec => []StoreIsTrue
<1>1. HistoryInit => StoreInv
  BY DEF HistoryInit, StoreInv, NothingTwice, Twice, StoreRemembers, Covered, Appending
<1>2. BoundInv /\ StoreInv => StoreIsTrue
  BY DEF BoundInv, StoreInv, StoreIsTrue
<1> QED BY <1>1, <1>2, TypeInit, BoundInvInductive, StoreInductive, PTL DEF HistorySpec

HIDE HistoryAssumption

-----------------------------------------------------------------------------
(* The files of the workspace.                                             *)
FilePieces == FileCalls \X Nat

WorkTypes ==
  /\ running \in [FileCalls -> {"new", "begun", "emptied", "done", "gone"}]
  /\ toldOf \in [FileCalls -> {"none", "ok", "error"}]
  /\ handed \in [FileCalls -> Nat] /\ landed \in [FileCalls -> SUBSET Nat]
  /\ fileText \in Seq(FilePieces) /\ texts \in [Of("read") -> Seq(FilePieces)]
  /\ touched \subseteq FileCalls

(* A call has one piece under way at most.                                 *)
CallAt(c) ==
    /\ landed[c] \subseteq 1..handed[c] /\ handed[c] <= Pieces[c]
    /\ \A k \in 1..handed[c] : k < handed[c] => k \in landed[c]
    /\ running[c] = "new" => handed[c] = 0
    /\ running[c] = "emptied" => Does[c] = "write"
    /\ toldOf[c] # "none" => running[c] = "done"
    /\ Does[c] \in {"read", "write"} => handed[c] = 0
    /\ Does[c] = "append" => /\ running[c] = "begun" => handed[c] < Pieces[c]
                             /\ toldOf[c] = "ok" => handed[c] = Pieces[c]
    /\ Does[c] = "shell" /\ running[c] # "new" => handed[c] = 1

CallInv == \A c \in FileCalls : CallAt(c)

(* What the file holds has been written. *)
WrittenInv ==
  \A i \in DOMAIN fileText :
    LET c == fileText[i][1]
    IN \/ Does[c] \in {"append", "shell"} /\ fileText[i][2] \in landed[c]
       \/ Does[c] = "write" /\ running[c] = "done"

(* Whom a write under way may disturb is known. *)
AnewInv ==
  \A w \in Under("write"), c \in FileCalls : c # w /\ running[c] # "new" => c \in touched

LandedInv ==
  \A c \in Of("append") \cup Of("shell") :
    c \notin touched =>
      \A k \in landed[c] : <<c, k>> \in missed \/ \E i \in DOMAIN fileText : fileText[i] = <<c, k>>

HeadInv ==
  \A c \in Of("write") :
    toldOf[c] = "ok" /\ c \notin touched =>
      Pieces[c] <= Len(fileText) /\ \A i \in 1..Pieces[c] : fileText[i] = <<c, i>>

WorkInv ==
  /\ WorkTypes /\ CallInv /\ WrittenInv /\ AnewInv /\ LandedInv /\ HeadInv
  /\ PiecesInOrder

LEMMA PiecesAreCounted ==
  \A c \in FileCalls :
    /\ Pieces[c] \in Nat /\ 1 <= Pieces[c] /\ Pieces[c] <= MaxPieces
    /\ Does[c] = "shell" => Pieces[c] = 1
<1>1. MaxPieces \in Nat /\ \A c \in FileCalls : Pieces[c] \in 1..MaxPieces
  BY WorkspaceAssumption
<1>2. \A c \in FileCalls : Does[c] = "shell" => Pieces[c] = 1
  BY WorkspaceAssumption
<1>3. \A p \in 1..MaxPieces : p \in Nat /\ 1 <= p /\ p <= MaxPieces
  BY <1>1
<1> QED BY <1>1, <1>2, <1>3

LEMMA NothingIsOrderly == Orderly(<<>>)
<1>1. DOMAIN <<>> = {}
  OBVIOUS
<1> QED BY <1>1 DEF Orderly

LEMMA WorkInitHolds == WorkspaceInit => WorkInv
<1> SUFFICES ASSUME WorkspaceInit PROVE WorkInv
  OBVIOUS
<1> USE DEF WorkspaceInit
<1>1. WorkTypes
  BY DEF WorkTypes, Of
<1>2. ASSUME NEW c \in FileCalls PROVE CallAt(c)
  <2>1. handed[c] = 0 /\ landed[c] = {} /\ running[c] = "new" /\ toldOf[c] = "none"
    OBVIOUS
  <2> QED BY <2>1, PiecesAreCounted DEF CallAt
<1>3. DOMAIN fileText = {}
  <2>1. DOMAIN <<>> = {}
    OBVIOUS
  <2> QED BY <2>1
<1>4. WrittenInv /\ PiecesInOrder
  BY <1>3, NothingIsOrderly DEF WrittenInv, PiecesInOrder, Of
<1>5. AnewInv
  BY DEF AnewInv, Under, Of
<1>6. LandedInv
  BY DEF LandedInv, Of
<1>7. HeadInv
  BY DEF HeadInv, Of
<1> QED BY <1>1, <1>2, <1>4, <1>5, <1>6, <1>7 DEF WorkInv, CallInv

LEMMA BeginCallKeeps ==
  ASSUME WorkInv, NEW c \in FileCalls, BeginCall(c)
  PROVE  WorkInv'
<1> USE DEF WorkInv
<1>1. WorkTypes'
  BY DEF WorkTypes, BeginCall, Begun, Of
<1>2. ASSUME NEW d \in FileCalls PROVE CallAt(d)'
  <2>1. CASE d = c
    <3>1. CallAt(c) /\ running[c] = "new" /\ handed[c] = 0 /\ landed[c] = {} /\ toldOf[c] = "none"
      BY DEF CallInv, CallAt, BeginCall, WorkTypes
    <3>2. /\ running'[c] = "begun" /\ toldOf'[c] = "none" /\ landed'[c] = {}
          /\ handed'[c] = IF Does[c] = "shell" THEN 1 ELSE 0
      BY <3>1 DEF BeginCall, WorkTypes
    <3> QED BY <2>1, <3>2, PiecesAreCounted DEF CallAt
  <2>2. CASE d # c
    BY <2>2 DEF CallInv, CallAt, WorkTypes, BeginCall
  <2> QED BY <2>1, <2>2
<1>3. WrittenInv'
  BY DEF WrittenInv, WorkTypes, BeginCall
<1>4. AnewInv'
  BY DEF AnewInv, WorkTypes, BeginCall, Under, Of, Begun
<1>5. LandedInv'
  BY DEF LandedInv, WorkTypes, BeginCall, Of
<1>6. HeadInv'
  BY DEF HeadInv, WorkTypes, BeginCall, Of
<1>7. PiecesInOrder'
  BY DEF PiecesInOrder, BeginCall, Of, Orderly
<1> QED BY <1>1, <1>2, <1>3, <1>4, <1>5, <1>6, <1>7 DEF CallInv


(* Steps that leave the file and what is under way to others alone.        *)
LEMMA ReadFileKeeps ==
  ASSUME WorkInv, NEW c \in FileCalls, ReadFile(c)
  PROVE  WorkInv'
<1> USE DEF WorkInv
<1>1. WorkTypes'
  BY DEF WorkTypes, ReadFile, Told, Of
<1>2. ASSUME NEW d \in FileCalls PROVE CallAt(d)'
  <2>1. CASE d = c
    BY <2>1 DEF CallInv, CallAt, WorkTypes, ReadFile, Told
  <2>2. CASE d # c
    BY <2>2 DEF CallInv, CallAt, WorkTypes, ReadFile, Told
  <2> QED BY <2>1, <2>2
<1>3. WrittenInv'
  BY DEF WrittenInv, WorkTypes, ReadFile, Told
<1>4. AnewInv'
  BY DEF AnewInv, WorkTypes, ReadFile, Told, Under, Of
<1>5. LandedInv'
  BY DEF LandedInv, WorkTypes, ReadFile, Told, Of
<1>6. HeadInv'
  BY DEF HeadInv, WorkTypes, ReadFile, Told, Of
<1>7. PiecesInOrder'
  BY DEF PiecesInOrder, WorkTypes, ReadFile, Told, Of
<1> QED BY <1>1, <1>2, <1>3, <1>4, <1>5, <1>6, <1>7 DEF CallInv

LEMMA WriteAnewFailsKeeps ==
  ASSUME WorkInv, NEW c \in FileCalls, WriteAnewFails(c)
  PROVE  WorkInv'
<1> USE DEF WorkInv
<1>1. WorkTypes'
  BY DEF WorkTypes, WriteAnewFails, Told
<1>2. ASSUME NEW d \in FileCalls PROVE CallAt(d)'
  <2>1. CASE d = c
    BY <2>1 DEF CallInv, CallAt, WorkTypes, WriteAnewFails, Told
  <2>2. CASE d # c
    BY <2>2 DEF CallInv, CallAt, WorkTypes, WriteAnewFails, Told
  <2> QED BY <2>1, <2>2
<1>3. WrittenInv'
  BY DEF WrittenInv, WorkTypes, WriteAnewFails, Told
<1>4. AnewInv'
  BY DEF AnewInv, WorkTypes, WriteAnewFails, Told, Under, Of
<1>5. LandedInv'
  BY DEF LandedInv, WorkTypes, WriteAnewFails, Told, Of
<1>6. HeadInv'
  BY DEF HeadInv, WorkTypes, WriteAnewFails, Told, Of
<1>7. PiecesInOrder'
  BY DEF PiecesInOrder, WorkTypes, WriteAnewFails, Told, Of
<1> QED BY <1>1, <1>2, <1>3, <1>4, <1>5, <1>6, <1>7 DEF CallInv

LEMMA HandOnKeeps ==
  ASSUME WorkInv, NEW c \in FileCalls, HandOn(c)
  PROVE  WorkInv'
<1> USE DEF WorkInv
<1>0. PICK step \in {"begun", "done"}, result \in {"none", "ok", "error"}, n \in Nat :
        /\ running' = [running EXCEPT ![c] = step] /\ toldOf' = [toldOf EXCEPT ![c] = result]
        /\ handed' = [handed EXCEPT ![c] = n]
  <2>1. running[c] = "begun" /\ toldOf[c] \in {"none", "ok", "error"} /\ handed[c] \in Nat
    BY DEF WorkTypes, HandOn
  <2>2. /\ running = [running EXCEPT ![c] = "begun"] /\ toldOf = [toldOf EXCEPT ![c] = toldOf[c]]
        /\ handed = [handed EXCEPT ![c] = handed[c]]
    BY <2>1 DEF WorkTypes
  <2> QED BY <2>1, <2>2 DEF HandOn, Told
<1>1. WorkTypes'
  BY <1>0 DEF WorkTypes, HandOn
<1>2. ASSUME NEW d \in FileCalls PROVE CallAt(d)'
  <2>1. CASE d = c
    <3>1. CallAt(c) /\ handed[c] \in Nat /\ Pieces[c] \in Nat
      BY PiecesAreCounted DEF CallInv, WorkTypes
    <3>2. landed[c] = 1..handed[c] /\ landed'[c] = landed[c] /\ handed[c] < Pieces[c]
      BY <3>1 DEF HandOn, InFlight, CallAt
    <3>3. handed'[c] \in {handed[c], handed[c] + 1}
      BY <3>1 DEF HandOn, WorkTypes
    <3>4. landed'[c] \subseteq 1..handed'[c] /\ handed'[c] <= Pieces[c]
      BY <3>1, <3>2, <3>3
    <3>5. \A k \in 1..handed'[c] : k < handed'[c] => k \in landed'[c]
      BY <3>1, <3>2, <3>3
    <3>6. /\ running[c] = "begun" /\ Does[c] = "append" /\ toldOf[c] = "none"
          /\ \/ running'[c] = "done" /\ toldOf'[c] = "error"
             \/ running'[c] = "done" /\ toldOf'[c] = "ok" /\ handed'[c] = Pieces[c]
             \/ running'[c] = "begun" /\ toldOf'[c] = "none" /\ handed'[c] = handed[c] + 1 /\ handed[c] + 1 # Pieces[c]
      <4>1. running[c] = "begun" /\ Does[c] = "append" /\ toldOf[c] = "none"
        BY <3>1 DEF HandOn, CallAt, WorkTypes
      <4> QED BY <4>1, <3>1 DEF HandOn, WorkTypes, Told
    <3> QED BY <2>1, <3>1, <3>2, <3>4, <3>5, <3>6 DEF CallAt
  <2>2. CASE d # c
    <3>1. /\ CallAt(d) /\ handed'[d] = handed[d] /\ landed'[d] = landed[d]
          /\ running'[d] = running[d] /\ toldOf'[d] = toldOf[d]
      BY <2>2 DEF CallInv, WorkTypes, HandOn, Told
    <3> QED BY <3>1 DEF CallAt
  <2> QED BY <2>1, <2>2
<1>3. WrittenInv'
  <2>1. Does[c] = "append" /\ UNCHANGED <<fileText, landed>> /\ \A d \in FileCalls : d # c => running'[d] = running[d]
    BY <1>0 DEF HandOn, WorkTypes
  <2> QED BY <2>1 DEF WrittenInv, WorkTypes, FilePieces
<1>4. AnewInv'
  BY DEF AnewInv, WorkTypes, HandOn, Told, Under, Of
<1>5. LandedInv'
  BY DEF LandedInv, WorkTypes, HandOn, Told, Of
<1>6. HeadInv'
  <2>1. Does[c] = "append" /\ \A w \in Of("write") : toldOf'[w] = toldOf[w]
    BY DEF HandOn, Told, Of, WorkTypes
  <2> QED BY <2>1 DEF HeadInv, HandOn
<1>7. PiecesInOrder'
  BY DEF PiecesInOrder, WorkTypes, HandOn, Told, Of
<1> QED BY <1>1, <1>2, <1>3, <1>4, <1>5, <1>6, <1>7 DEF CallInv

(* A call that has no piece under way ends, or a command runs on.          *)
LEMMA ShellKeeps ==
  ASSUME WorkInv, NEW c \in FileCalls, ShellReturns(c) \/ ShellTimesOut(c)
  PROVE  WorkInv'
<1> USE DEF WorkInv
<1>1. PICK result \in {"ok", "error"} :
        /\ Does[c] = "shell" /\ running[c] = "begun" /\ Told(c, result)
        /\ UNCHANGED <<fileText, handed, landed, missed, texts, touched, troubles>>
  BY DEF ShellReturns, ShellTimesOut
<1>2. WorkTypes'
  BY <1>1 DEF WorkTypes, Told
<1>3. ASSUME NEW d \in FileCalls PROVE CallAt(d)'
  <2>1. CASE d = c
    BY <1>1, <2>1 DEF CallInv, CallAt, WorkTypes, Told
  <2>2. CASE d # c
    BY <1>1, <2>2 DEF CallInv, CallAt, WorkTypes, Told
  <2> QED BY <2>1, <2>2
<1>4. WrittenInv'
  BY <1>1 DEF WrittenInv, WorkTypes, Told
<1>5. AnewInv'
  BY <1>1 DEF AnewInv, WorkTypes, Told, Under, Of
<1>6. LandedInv'
  BY <1>1 DEF LandedInv, WorkTypes, Told, Of
<1>7. HeadInv'
  <2>1. \A w \in Of("write") : toldOf'[w] = toldOf[w]
    BY <1>1 DEF Told, Of, WorkTypes
  <2> QED BY <1>1, <2>1 DEF HeadInv
<1>8. PiecesInOrder'
  BY <1>1 DEF PiecesInOrder, WorkTypes, Told, Of
<1> QED BY <1>2, <1>3, <1>4, <1>5, <1>6, <1>7, <1>8 DEF CallInv

LEMMA LandFailsKeeps ==
  ASSUME WorkInv, NEW c \in FileCalls, NEW i \in InFlight(c), LandFails(c, i)
  PROVE  WorkInv'
<1> USE DEF WorkInv
<1>1. i \in 1..handed[c] /\ handed[c] \in Nat /\ landed'[c] = landed[c] \cup {i} /\ \A d \in FileCalls : landed[d] \subseteq landed'[d] /\ (d # c => landed'[d] = landed[d])
  BY DEF LandFails, InFlight, WorkTypes
<1>2. WorkTypes'
  BY <1>1 DEF WorkTypes, LandFails
<1>3. ASSUME NEW d \in FileCalls PROVE CallAt(d)'
  BY <1>1 DEF CallInv, CallAt, WorkTypes, LandFails
<1>4. WrittenInv'
  BY <1>1 DEF WrittenInv, WorkTypes, LandFails, FilePieces
<1>5. AnewInv'
  BY DEF AnewInv, WorkTypes, LandFails, Under, Of
<1>6. LandedInv'
  BY <1>1 DEF LandedInv, WorkTypes, LandFails, Of
<1>7. HeadInv'
  BY DEF HeadInv, LandFails, Of
<1>8. PiecesInOrder'
  BY DEF PiecesInOrder, LandFails, Of
<1> QED BY <1>2, <1>3, <1>4, <1>5, <1>6, <1>7, <1>8 DEF CallInv

(* The file is emptied: whoever began before knows that he was disturbed.  *)
LEMMA EmptyFileKeeps ==
  ASSUME WorkInv, NEW c \in FileCalls, EmptyFile(c)
  PROVE  WorkInv'
<1> USE DEF WorkInv
<1>1. WorkTypes'
  BY EmptySeq DEF WorkTypes, EmptyFile
<1>2. ASSUME NEW d \in FileCalls PROVE CallAt(d)'
  <2>1. CASE d = c
    BY <2>1 DEF CallInv, CallAt, WorkTypes, EmptyFile
  <2>2. CASE d # c
    BY <2>2 DEF CallInv, CallAt, WorkTypes, EmptyFile
  <2> QED BY <2>1, <2>2
<1>3. fileText' = <<>> /\ DOMAIN <<>> = {}
  BY DEF EmptyFile
<1>4. WrittenInv'
  BY <1>3 DEF WrittenInv
<1>5. AnewInv'
  BY DEF AnewInv, WorkTypes, EmptyFile, Under, Of
<1>6. \A d \in FileCalls : d # c /\ running[d] # "new" => d \in touched
  BY DEF AnewInv, EmptyFile, Under, Of
<1>7. LandedInv'
  <2>1. ASSUME NEW d \in Of("append") \cup Of("shell"), d \notin touched PROVE landed'[d] = {}
    <3>1. d \in FileCalls /\ d # c /\ running[d] = "new" /\ landed'[d] = landed[d]
      BY <1>6, <2>1 DEF EmptyFile, Of
    <3> QED BY <3>1 DEF CallInv, CallAt
  <2> QED BY <2>1 DEF LandedInv, EmptyFile, Of
<1>8. HeadInv'
  <2>1. ASSUME NEW d \in Of("write"), d \notin touched PROVE toldOf'[d] = "none"
    <3>1. d \in FileCalls /\ (d = c \/ running[d] = "new") /\ toldOf'[d] = toldOf[d]
      BY <1>6, <2>1 DEF EmptyFile, Of
    <3> QED BY <3>1 DEF CallInv, CallAt, EmptyFile, WorkTypes
  <2> QED BY <2>1 DEF HeadInv, EmptyFile, Of
<1>9. PiecesInOrder'
  BY <1>3, NothingIsOrderly DEF PiecesInOrder, EmptyFile, Of
<1> QED BY <1>1, <1>2, <1>4, <1>5, <1>7, <1>8, <1>9 DEF CallInv

(* What is written from the beginning, and what the file holds after it.   *)
LEMMA OverBegins ==
  ASSUME NEW c \in FileCalls, NEW old \in Seq(FilePieces)
  PROVE  /\ Over(TextOf(c), old) \in Seq(FilePieces)
         /\ Pieces[c] <= Len(Over(TextOf(c), old))
         /\ \A i \in DOMAIN Over(TextOf(c), old) :
              /\ i <= Pieces[c] => Over(TextOf(c), old)[i] = <<c, i>>
              /\ i > Pieces[c] => i \in DOMAIN old /\ Over(TextOf(c), old)[i] = old[i]
<1> DEFINE n == Pieces[c]  text == TextOf(c)
           m == IF Len(old) > n THEN Len(old) ELSE n
<1>1. n \in Nat /\ Len(old) \in Nat /\ m \in Nat /\ n <= m /\ Len(old) <= m
  BY PiecesAreCounted
<1>2. text = [i \in 1..n |-> <<c, i>>]
  BY DEF TextOf
<1>3. text \in Seq(FilePieces) /\ Len(text) = n
  <2>1. \A i \in 1..n : <<c, i>> \in FilePieces
    BY <1>1 DEF FilePieces
  <2> QED BY <1>1, <1>2, <2>1
<1>4. Over(text, old) = [i \in 1..m |-> IF i <= n THEN text[i] ELSE old[i]]
  BY <1>3 DEF Over
<1>5. \A i \in 1..m : /\ i <= n => text[i] = <<c, i>> /\ <<c, i>> \in FilePieces
                      /\ i > n => i \in 1..Len(old) /\ i \in DOMAIN old /\ old[i] \in FilePieces
  BY <1>1, <1>2 DEF FilePieces
<1> HIDE DEF n, m, text
<1>6. PICK f : f = Over(text, old)
  OBVIOUS
<1>6a. f = [i \in 1..m |-> IF i <= n THEN text[i] ELSE old[i]]
  BY <1>4, <1>6
<1>6b. \A i \in 1..m : i <= n \/ i > n
  BY <1>1
<1>6c. ASSUME NEW i \in 1..m
       PROVE  /\ f[i] \in FilePieces
              /\ i <= n => f[i] = <<c, i>>
              /\ i > n => i \in DOMAIN old /\ f[i] = old[i]
  <2>1. f[i] = IF i <= n THEN text[i] ELSE old[i]
    BY <1>6a
  <2>2. CASE i <= n
    <3>1. ~(i > n)
      BY <1>1, <2>2
    <3> QED BY <1>5, <2>1, <2>2, <3>1
  <2>3. CASE i > n
    <3>1. ~(i <= n)
      BY <1>1, <2>3
    <3> QED BY <1>5, <2>1, <2>3, <3>1
  <2> QED BY <1>6b, <2>2, <2>3
<1>7. f \in [1..m -> FilePieces]
  BY <1>6a, <1>6c
<1>8. f \in Seq(FilePieces) /\ Len(f) = m /\ DOMAIN f = 1..m
  BY <1>1, <1>7
<1> QED BY <1>1, <1>6, <1>6c, <1>8 DEF n, text

LEMMA WriteAnewKeeps ==
  ASSUME WorkInv, NEW c \in FileCalls, WriteAnew(c)
  PROVE  WorkInv'
<1> USE DEF WorkInv
<1>1. fileText \in Seq(FilePieces) /\ fileText' = Over(TextOf(c), fileText) /\ Does[c] = "write"
  BY DEF WorkTypes, WriteAnew
<1>2. /\ fileText' \in Seq(FilePieces) /\ Pieces[c] <= Len(fileText')
      /\ \A i \in DOMAIN fileText' :
           /\ i <= Pieces[c] => fileText'[i] = <<c, i>>
           /\ i > Pieces[c] => i \in DOMAIN fileText /\ fileText'[i] = fileText[i]
  BY <1>1, OverBegins
<1>3. WorkTypes'
  BY <1>2 DEF WorkTypes, WriteAnew, Told
<1>4. ASSUME NEW d \in FileCalls PROVE CallAt(d)'
  <2>1. CASE d = c
    BY <2>1 DEF CallInv, CallAt, WorkTypes, WriteAnew, Told
  <2>2. CASE d # c
    BY <2>2 DEF CallInv, CallAt, WorkTypes, WriteAnew, Told
  <2> QED BY <2>1, <2>2
<1>5. /\ running'[c] = "done" /\ running[c] = "emptied" /\ UNCHANGED <<landed, missed, touched>>
      /\ \A d \in FileCalls : d # c => running'[d] = running[d] /\ toldOf'[d] = toldOf[d]
  BY DEF WriteAnew, Told, WorkTypes
<1>6. DOMAIN fileText' \subseteq Nat /\ DOMAIN fileText \subseteq Nat /\ Pieces[c] \in Nat
  BY <1>1, <1>2, PiecesAreCounted
<1>7. ASSUME NEW i \in DOMAIN fileText' PROVE i <= Pieces[c] \/ i > Pieces[c]
  BY <1>6
<1>8. WrittenInv'
  <2> SUFFICES ASSUME NEW i \in DOMAIN fileText'
               PROVE  \/ Does[fileText'[i][1]] \in {"append", "shell"} /\ fileText'[i][2] \in landed[fileText'[i][1]]
                      \/ Does[fileText'[i][1]] = "write" /\ running'[fileText'[i][1]] = "done"
    BY <1>5 DEF WrittenInv
  <2>1. CASE i <= Pieces[c]
    BY <1>1, <1>2, <1>5, <2>1
  <2>2. CASE i > Pieces[c]
    <3>1. i \in DOMAIN fileText /\ fileText'[i] = fileText[i] /\ fileText[i] \in FilePieces
      BY <1>1, <1>2, <2>2
    <3>2. fileText[i][1] \in FileCalls
      BY <3>1 DEF FilePieces
    <3> QED BY <1>5, <3>1, <3>2 DEF WrittenInv
  <2> QED BY <1>7, <2>1, <2>2
<1>9. AnewInv'
  BY DEF AnewInv, WorkTypes, WriteAnew, Told, Under, Of
<1>10. \A d \in FileCalls : d # c /\ running[d] # "new" => d \in touched
  BY DEF AnewInv, WriteAnew, Under, Of
<1>11. LandedInv'
  <2>1. ASSUME NEW d \in Of("append") \cup Of("shell"), d \notin touched PROVE landed'[d] = {}
    <3>1. d \in FileCalls /\ d # c /\ running[d] = "new" /\ landed'[d] = landed[d]
      BY <1>1, <1>5, <1>10, <2>1 DEF Of
    <3> QED BY <3>1 DEF CallInv, CallAt
  <2> QED BY <1>5, <2>1 DEF LandedInv, Of
<1>12. HeadInv'
  <2> SUFFICES ASSUME NEW d \in Of("write"), toldOf'[d] = "ok", d \notin touched
               PROVE  Pieces[d] <= Len(fileText') /\ \A i \in 1..Pieces[d] : fileText'[i] = <<d, i>>
    BY <1>5 DEF HeadInv
  <2>1. d = c
    <3>1. d # c => running[d] = "new" /\ toldOf[d] = "ok"
      BY <1>5, <1>10 DEF Of
    <3> QED BY <3>1 DEF CallInv, CallAt, Of
  <2>2. Len(fileText') \in Nat /\ DOMAIN fileText' = 1..Len(fileText')
    BY <1>2
  <2> QED BY <1>2, <1>6, <2>1, <2>2
<1>13. Orderly(fileText')
  <2> SUFFICES ASSUME NEW i \in DOMAIN fileText', NEW j \in DOMAIN fileText', i < j,
                      fileText'[i][1] = fileText'[j][1]
               PROVE  fileText'[i][2] < fileText'[j][2]
    BY DEF Orderly
  <2>1. i \in Nat /\ j \in Nat
    BY <1>6
  <2>2. CASE j <= Pieces[c]
    BY <1>2, <1>6, <2>1, <2>2
  <2>3. CASE j > Pieces[c]
    <3>1. j \in DOMAIN fileText /\ fileText'[j] = fileText[j] /\ fileText[j][1] \in FileCalls
      BY <1>1, <1>2, <2>3 DEF FilePieces
    <3>2. fileText[j][1] # c
      BY <1>1, <1>5, <3>1 DEF WrittenInv
    <3>3. i > Pieces[c]
      BY <1>2, <1>7, <3>1, <3>2
    <3>4. i \in DOMAIN fileText /\ fileText'[i] = fileText[i]
      BY <1>2, <3>3
    <3> QED BY <3>1, <3>4 DEF PiecesInOrder, Orderly
  <2> QED BY <1>7, <2>2, <2>3
<1>14. PiecesInOrder'
  BY <1>13 DEF PiecesInOrder, WriteAnew, Of, Orderly
<1> QED BY <1>3, <1>4, <1>8, <1>9, <1>11, <1>12, <1>14 DEF CallInv

(* A piece that lands is the last of its call.                             *)
LEMMA LandKeeps ==
  ASSUME WorkInv, NEW c \in FileCalls, NEW k \in InFlight(c), Land(c, k)
  PROVE  WorkInv'
<1> USE DEF WorkInv
<1>1. /\ k \in 1..handed[c] /\ k \notin landed[c] /\ handed[c] \in Nat /\ k \in Nat
      /\ landed'[c] = landed[c] \cup {k}
      /\ \A d \in FileCalls : landed[d] \subseteq landed'[d] /\ (d # c => landed'[d] = landed[d])
  BY DEF Land, InFlight, WorkTypes
<1>2. CallAt(c) /\ Does[c] \in {"read", "write", "append", "shell"}
  BY WorkspaceAssumption DEF CallInv
<1>3. k = handed[c] /\ Does[c] \in {"append", "shell"}
  BY <1>1, <1>2 DEF CallAt
<1> DEFINE n == Len(fileText)
<1>4. <<c, k>> \in FilePieces /\ fileText \in Seq(FilePieces) /\ fileText' = Append(fileText, <<c, k>>)
  BY <1>1 DEF FilePieces, WorkTypes, Land
<1>5. /\ fileText' \in Seq(FilePieces) /\ n \in Nat /\ Len(fileText') = n + 1
      /\ DOMAIN fileText = 1..n /\ DOMAIN fileText' = 1..(n + 1)
      /\ fileText'[n + 1] = <<c, k>> /\ \A i \in 1..n : fileText'[i] = fileText[i]
  BY <1>4
<1> HIDE DEF n
<1>6. WorkTypes'
  BY <1>1, <1>5 DEF WorkTypes, Land
<1>7. ASSUME NEW d \in FileCalls PROVE CallAt(d)'
  BY <1>1 DEF CallInv, CallAt, WorkTypes, Land
<1>8. \A i \in 1..n : fileText[i] \in FilePieces /\ fileText[i][1] \in FileCalls
  BY <1>4, <1>5 DEF FilePieces
<1>9. \A i \in 1..(n + 1) : i \in 1..n \/ i = n + 1
  BY <1>5
<1>10. WrittenInv'
  <2> SUFFICES ASSUME NEW i \in DOMAIN fileText'
               PROVE  \/ Does[fileText'[i][1]] \in {"append", "shell"} /\ fileText'[i][2] \in landed'[fileText'[i][1]]
                      \/ Does[fileText'[i][1]] = "write" /\ running'[fileText'[i][1]] = "done"
    BY DEF WrittenInv
  <2>1. CASE i = n + 1
    BY <1>1, <1>3, <1>5, <2>1
  <2>2. CASE i \in 1..n
    BY <1>1, <1>5, <1>8, <2>2 DEF WrittenInv, Land
  <2> QED BY <1>5, <1>9, <2>1, <2>2
<1>11. AnewInv'
  BY DEF AnewInv, WorkTypes, Land, Under, Of
<1>12. LandedInv'
  <2> SUFFICES ASSUME NEW d \in Of("append") \cup Of("shell"), d \notin touched, NEW l \in landed'[d]
               PROVE  <<d, l>> \in missed \/ \E i \in DOMAIN fileText' : fileText'[i] = <<d, l>>
    BY DEF LandedInv, Land, Of
  <2>1. CASE d = c /\ l = k
    BY <1>5, <2>1
  <2>2. CASE l \in landed[d]
    <3>1. <<d, l>> \in missed \/ \E i \in DOMAIN fileText : fileText[i] = <<d, l>>
      BY <2>2 DEF LandedInv
    <3> QED BY <1>5, <3>1
  <2> QED BY <1>1, <2>1, <2>2 DEF Of
<1>13. HeadInv'
  <2> SUFFICES ASSUME NEW d \in Of("write"), toldOf[d] = "ok", d \notin touched
               PROVE  Pieces[d] <= Len(fileText') /\ \A i \in 1..Pieces[d] : fileText'[i] = <<d, i>>
    BY DEF HeadInv, Land, Of
  <2>1. Pieces[d] <= n /\ \A i \in 1..Pieces[d] : fileText[i] = <<d, i>>
    BY DEF HeadInv, n
  <2>2. Pieces[d] \in Nat
    BY PiecesAreCounted DEF Of
  <2> QED BY <1>5, <2>1, <2>2
<1>14. Orderly(fileText')
  <2> SUFFICES ASSUME NEW i \in DOMAIN fileText', NEW j \in DOMAIN fileText', i < j,
                      fileText'[i][1] = fileText'[j][1]
               PROVE  fileText'[i][2] < fileText'[j][2]
    BY DEF Orderly
  <2>1. i \in 1..n /\ fileText'[i] = fileText[i]
    BY <1>5
  <2>2. CASE j \in 1..n
    BY <1>5, <2>1, <2>2 DEF PiecesInOrder, Orderly
  <2>3. CASE j = n + 1
    <3>1. fileText[i][1] = c /\ fileText'[j][2] = k
      BY <1>5, <2>1, <2>3
    <3>2. fileText[i][2] \in landed[c]
      BY <1>3, <1>5, <2>1, <3>1 DEF WrittenInv
    <3> QED BY <1>1, <1>2, <1>3, <2>1, <3>1, <3>2 DEF CallAt
  <2> QED BY <1>5, <1>9, <2>2, <2>3
<1>15. PiecesInOrder'
  BY <1>14 DEF PiecesInOrder, Land, Of, Orderly
<1> QED BY <1>6, <1>7, <1>10, <1>11, <1>12, <1>13, <1>15 DEF CallInv

LEMMA ExitsKeeps == ASSUME WorkInv, Exits PROVE WorkInv'
<1> USE DEF WorkInv
<1>1. /\ UNCHANGED <<fileText, toldOf, handed, texts, touched>>
      /\ \A c \in FileCalls : /\ IF running[c] \in {"begun", "emptied"} THEN running'[c] = "gone" ELSE running'[c] = running[c]
                              /\ handed[c] \in Nat
                              /\ landed'[c] = IF Does[c] = "shell" THEN landed[c] ELSE 1..handed[c]
  BY DEF Exits, WorkTypes
<1>2. WorkTypes'
  BY DEF WorkTypes, Exits
<1>3. ASSUME NEW d \in FileCalls PROVE CallAt(d)' /\ landed[d] \subseteq landed'[d]
  <2>1. CallAt(d) /\ running[d] \in {"new", "begun", "emptied", "done", "gone"}
    BY DEF CallInv, WorkTypes
  <2>2. landed[d] \subseteq landed'[d] /\ landed'[d] \subseteq 1..handed[d]
    BY <1>1, <2>1 DEF CallAt
  <2> QED BY <1>1, <2>1, <2>2 DEF CallAt
<1>4. WrittenInv'
  <2>1. \A i \in DOMAIN fileText : fileText[i][1] \in FileCalls
    BY DEF WorkTypes, FilePieces
  <2> QED BY <1>1, <1>3, <2>1 DEF WrittenInv
<1>5. AnewInv'
  <2>1. Under("write")' = {}
    BY <1>1 DEF Under, Of, WorkTypes
  <2> QED BY <2>1 DEF AnewInv
<1>6. LandedInv'
  <2> SUFFICES ASSUME NEW d \in Of("append") \cup Of("shell"), d \notin touched, NEW k \in landed'[d]
               PROVE  <<d, k>> \in missed' \/ \E i \in DOMAIN fileText : fileText[i] = <<d, k>>
    BY <1>1 DEF LandedInv, Of
  <2>1. CASE k \in landed[d]
    BY <2>1 DEF LandedInv, Exits
  <2>2. CASE k \notin landed[d]
    <3>1. d \in Of("append") /\ d \in FileCalls /\ k \in 1..handed[d]
      BY <1>1, <2>2 DEF Of
    <3>2. handed[d] <= Pieces[d] /\ handed[d] \in Nat /\ Pieces[d] \in Nat /\ Pieces[d] <= MaxPieces /\ MaxPieces \in Nat
      BY <1>1, <3>1, PiecesAreCounted, WorkspaceAssumption DEF CallInv, CallAt
    <3>3. k \in 1..MaxPieces /\ k \in InFlight(d)
      BY <2>2, <3>1, <3>2 DEF InFlight
    <3>4. <<d, k>> \in {p \in Of("append") \X (1..MaxPieces) : p[2] \in InFlight(p[1])}
      BY <3>1, <3>3
    <3> QED BY <3>4 DEF Exits
  <2> QED BY <2>1, <2>2
<1>7. HeadInv' /\ PiecesInOrder'
  BY <1>1 DEF HeadInv, PiecesInOrder, Of, Orderly
<1> QED BY <1>2, <1>3, <1>4, <1>5, <1>6, <1>7 DEF CallInv

LEMMA WorkspaceStepKeeps == WorkInv /\ [WorkspaceNext]_workspaceVars => WorkInv'
<1> SUFFICES ASSUME WorkInv, [WorkspaceNext]_workspaceVars PROVE WorkInv'
  OBVIOUS
<1>1. CASE UNCHANGED workspaceVars
  BY <1>1 DEF workspaceVars, WorkInv, WorkTypes, CallInv, CallAt, WrittenInv, AnewInv, Under, LandedInv, HeadInv, PiecesInOrder, Orderly
<1>2. CASE WorkspaceNext
  BY <1>2, BeginCallKeeps, ReadFileKeeps, EmptyFileKeeps, WriteAnewKeeps, WriteAnewFailsKeeps, HandOnKeeps,
     LandKeeps, LandFailsKeeps, ShellKeeps, ExitsKeeps DEF WorkspaceNext
<1> QED BY <1>1, <1>2

(* What was landed and is still there is what was said.                    *)
LEMMA WorkInvSuffices == WorkInv => PiecesInOrder /\ SaidIsDone /\ WrittenIsRead
<1> SUFFICES ASSUME WorkInv PROVE PiecesInOrder /\ SaidIsDone /\ WrittenIsRead
  OBVIOUS
<1> USE DEF WorkInv
<1>1. SaidIsDone
  <2> SUFFICES ASSUME NEW c \in Of("append") \cup Of("shell"), toldOf[c] = "ok", c \notin touched, InFlight(c) = {},
                      NEW i \in 1..Pieces[c], <<c, i>> \notin missed
               PROVE  \E j \in DOMAIN fileText : fileText[j] = <<c, i>>
    BY DEF SaidIsDone, TextOf
  <2>1. c \in FileCalls /\ CallAt(c) /\ Does[c] \in {"append", "shell"} /\ handed[c] \in Nat /\ running[c] = "done"
    BY DEF CallInv, CallAt, WorkTypes, Of
  <2>2. handed[c] = Pieces[c]
    BY <2>1, PiecesAreCounted DEF CallAt
  <2>3. i \in landed[c]
    BY <2>2 DEF InFlight
  <2> QED BY <2>3 DEF LandedInv
<1>2. WrittenIsRead
  <2> SUFFICES ASSUME NEW c \in Of("write"), toldOf[c] = "ok", c \notin touched
               PROVE  Len(fileText) >= Pieces[c] /\ SubSeq(fileText, 1, Pieces[c]) = TextOf(c)
    BY DEF WrittenIsRead
  <2> DEFINE n == Pieces[c]  start == SubSeq(fileText, 1, n)  text == TextOf(c)
  <2>1. c \in FileCalls /\ n \in Nat /\ n <= Len(fileText) /\ \A i \in 1..n : fileText[i] = <<c, i>>
    BY PiecesAreCounted DEF HeadInv, Of
  <2>2. fileText \in Seq(FilePieces) /\ Len(fileText) \in Nat /\ \A i \in 1..n : <<c, i>> \in FilePieces
    BY <2>1 DEF WorkTypes, FilePieces
  <2>3. start = [i \in 1..n |-> fileText[i]]
    BY <2>1, <2>2
  <2>4. text = [i \in 1..n |-> <<c, i>>]
    BY DEF TextOf
  <2> QED BY <2>1, <2>2, <2>3, <2>4
<1> QED BY <1>1, <1>2

(* Whatever calls overlap, the pieces of each come in order, what was said *)
(* to be done is done, and a file written anew begins with what was        *)
(* written: the part of FilesHold about file_read, file_write and shell.   *)
THEOREM WorkspaceHolds == WorkspaceSpec => [](PiecesInOrder /\ SaidIsDone /\ WrittenIsRead)
<1>1. WorkspaceInit => WorkInv
  BY WorkInitHolds
<1>2. WorkInv /\ [WorkspaceNext]_workspaceVars => WorkInv'
  BY WorkspaceStepKeeps
<1>3. WorkInv => PiecesInOrder /\ SaidIsDone /\ WrittenIsRead
  BY WorkInvSuffices
<1> QED BY <1>1, <1>2, <1>3, PTL DEF WorkspaceSpec

-----------------------------------------------------------------------------
(* Skills.                                                                 *)
Steps == {"none", "fetch", "copy", "remove", "write", "md", "toml"}
Contents == {"absent", "empty", "part", "whole"}
SkillEntries == [dir : SkillNames, name : Nat, text : {"empty", "part", "whole"}]

SkillTypes ==
  /\ command \in [Terminals -> [step : Steps, skill : SkillNames \cup {0}, left : SUBSET {"md", "toml"}, alone : BOOLEAN]]
  /\ skillFiles \in [SkillNames -> [{"md", "toml"} -> Contents]]
  /\ \A t \in Terminals : command[t].step = "none" <=> command[t].skill = 0
  /\ skillDirs \subseteq SkillNames /\ toLoad \subseteq SkillNames /\ installed \subseteq SkillNames

Written(s, f) == skillFiles[s][f] = "whole" \/ (f = "toml" /\ skillFiles[s][f] = "absent")

(* Without its directory a skill has no files.                             *)
DirInv == \A s \in SkillNames \ skillDirs : \A f \in {"md", "toml"} : skillFiles[s][f] = "absent"

(* Who has had a skill for himself has written all that he is done with.   *)
AloneAt(t, c) ==
  c.alone /\ c.skill # 0 =>
    /\ \A u \in Terminals \ {t} : command[u].skill # c.skill
    /\ c.step \in {"fetch", "copy"} => c.skill \notin skillDirs
    /\ c.step \in {"write", "md", "toml"} =>
         c.skill \in skillDirs /\ \A f \in {"md", "toml"} \ c.left : Written(c.skill, f)
    /\ c.step \in {"md", "toml"} => c.step \in c.left /\ skillFiles[c.skill][c.step] \in {"empty", "part"}

AloneInv == \A t \in Terminals : AloneAt(t, command[t])

InstalledInv ==
  \A s \in installed :
    /\ s \in skillDirs /\ \A t \in Terminals : command[t].skill # s
    /\ \A f \in {"md", "toml"} : Written(s, f)

ReadInv ==
  /\ sureOf \subseteq installed
  /\ \A s \in sureOf : s \in toLoad \/ \E e \in loadedSkills : e.dir = s /\ e.text = "whole"
  /\ turnLoads = "has read" => toLoad = {}

PromptInv ==
  /\ loadedSkills \subseteq SkillEntries /\ IsFiniteSet(loadedSkills)
  /\ turnLoads = "has read" => \E list \in InOrderOfNames(loadedSkills) : skillPrompt = FirstThatFit(list)

SkillsInv == SkillTypes /\ DirInv /\ AloneInv /\ InstalledInv /\ ReadInv /\ PromptInv

CommandType == [step : Steps, skill : SkillNames \cup {0}, left : SUBSET {"md", "toml"}, alone : BOOLEAN]

LEMMA NoCommandIsOne == NoCommand \in CommandType /\ NoCommand.step = "none" /\ NoCommand.skill = 0 /\ NoCommand.left = {} /\ NoCommand.alone = TRUE
BY DEF NoCommand, CommandType, Steps

LEMMA NamesArePositive == 0 \notin SkillNames /\ SkillNames \subseteq Nat
BY SkillsAssumption

LEMMA SkillsInitHolds == SkillsInit => SkillsInv
<1> SUFFICES ASSUME SkillsInit PROVE SkillsInv
  OBVIOUS
<1> USE DEF SkillsInit
<1>1. SkillTypes
  <2>1. command \in [Terminals -> CommandType] /\ \A t \in Terminals : command[t].step = "none" <=> command[t].skill = 0
    BY NoCommandIsOne
  <2> QED BY <2>1 DEF SkillTypes, CommandType, Contents
<1>2. DirInv
  BY DEF DirInv
<1>3. AloneInv
  <2>1. \A t \in Terminals : command[t] = NoCommand /\ NoCommand.skill = 0
    BY NoCommandIsOne
  <2> QED BY <2>1 DEF AloneInv, AloneAt
<1>4. InstalledInv /\ ReadInv
  BY DEF InstalledInv, ReadInv
<1>5. PromptInv
  BY FS_EmptySet DEF PromptInv
<1> QED BY <1>1, <1>2, <1>3, <1>4, <1>5 DEF SkillsInv

(* A terminal goes on, or is done.                                         *)
LEMMA GoesTo ==
  ASSUME SkillTypes, NEW t \in Terminals, NEW step \in Steps, NEW left \in SUBSET {"md", "toml"}, Goes(t, step, left)
  PROVE  /\ command' \in [Terminals -> CommandType]
         /\ command'[t].step = step /\ command'[t].left = left
         /\ command'[t].skill = command[t].skill /\ command'[t].alone = command[t].alone
         /\ \A u \in Terminals \ {t} : command'[u] = command[u]
<1>1. command \in [Terminals -> CommandType]
  BY DEF SkillTypes, CommandType
<1>2. PICK c \in CommandType : c = command[t]
  BY <1>1
<1>3. command' = [command EXCEPT ![t] = [[c EXCEPT !.step = step] EXCEPT !.left = left]]
  BY <1>1, <1>2 DEF Goes
<1>4. /\ [[c EXCEPT !.step = step] EXCEPT !.left = left] \in CommandType
      /\ [[c EXCEPT !.step = step] EXCEPT !.left = left].step = step
      /\ [[c EXCEPT !.step = step] EXCEPT !.left = left].left = left
      /\ [[c EXCEPT !.step = step] EXCEPT !.left = left].skill = c.skill
      /\ [[c EXCEPT !.step = step] EXCEPT !.left = left].alone = c.alone
  BY DEF CommandType
<1> QED BY <1>1, <1>2, <1>3, <1>4

LEMMA GoesToNothing ==
  ASSUME SkillTypes, NEW t \in Terminals, Finishes(t)
  PROVE  /\ command' \in [Terminals -> CommandType]
         /\ command'[t] = NoCommand
         /\ \A u \in Terminals \ {t} : command'[u] = command[u]
<1>1. command \in [Terminals -> CommandType]
  BY DEF SkillTypes, CommandType
<1> QED BY <1>1, NoCommandIsOne DEF Finishes

(* What a terminal does to its own skill concerns nobody who has another   *)
(* one for himself, and no skill that is installed.                        *)
LEMMA TerminalKeeps ==
  ASSUME SkillsInv, NEW t \in Terminals,
         command' \in [Terminals -> CommandType],
         command'[t].step = "none" <=> command'[t].skill = 0,
         skillFiles' \in [SkillNames -> [{"md", "toml"} -> Contents]], skillDirs' \subseteq SkillNames,
         \A u \in Terminals \ {t} : command'[u] = command[u],
         command'[t].skill \in {command[t].skill, 0},
         \A s \in SkillNames : s # command[t].skill =>
           (s \in skillDirs' <=> s \in skillDirs) /\ skillFiles'[s] = skillFiles[s],
         command[t].skill \in SkillNames /\ command[t].skill \notin skillDirs' =>
           \A f \in {"md", "toml"} : skillFiles'[command[t].skill][f] = "absent",
         AloneAt(t, command[t])',
         UNCHANGED <<readerVars, installed, sureOf>>
  PROVE  SkillsInv'
<1> USE DEF SkillsInv
<1>0. command \in [Terminals -> CommandType] /\ \A u \in Terminals : command[u].skill \in SkillNames \cup {0}
  BY DEF SkillTypes, CommandType
<1>1. SkillTypes'
  BY DEF SkillTypes, readerVars, CommandType
<1>2. DirInv'
  <2> SUFFICES ASSUME NEW s \in SkillNames, s \notin skillDirs', NEW f \in {"md", "toml"}
               PROVE  skillFiles'[s][f] = "absent"
    BY DEF DirInv
  <2>1. CASE s = command[t].skill
    BY <2>1
  <2>2. CASE s # command[t].skill
    BY <2>2 DEF DirInv
  <2> QED BY <2>1, <2>2
<1>3. AloneInv'
  <2>1. ASSUME NEW u \in Terminals, u # t PROVE AloneAt(u, command[u])'
    <3>1. AloneAt(u, command[u]) /\ command'[u] = command[u]
      BY <2>1 DEF AloneInv
    <3> SUFFICES ASSUME command[u].alone, command[u].skill # 0
                 PROVE  AloneAt(u, command[u])'
      BY <3>1 DEF AloneAt
    <3> DEFINE s == command[u].skill
    <3>2. s \in SkillNames /\ s # command[t].skill /\ s # command'[t].skill
      BY <1>0, <2>1, <3>1 DEF AloneAt
    <3>3. (s \in skillDirs' <=> s \in skillDirs) /\ skillFiles'[s] = skillFiles[s]
      BY <3>2
    <3>4. \A v \in Terminals \ {u} : command'[v].skill # s
      BY <2>1, <3>1, <3>2 DEF AloneAt
    <3> QED BY <3>1, <3>3, <3>4 DEF AloneAt, Written
  <2> QED BY <2>1 DEF AloneInv
<1>4. InstalledInv'
  <2> SUFFICES ASSUME NEW s \in installed
               PROVE  /\ s \in skillDirs' /\ \A u \in Terminals : command'[u].skill # s
                      /\ \A f \in {"md", "toml"} : Written(s, f)'
    BY DEF InstalledInv
  <2>1. s \in SkillNames /\ s # 0 /\ s # command[t].skill
    BY NamesArePositive DEF SkillTypes, InstalledInv
  <2> QED BY <2>1 DEF InstalledInv, Written
<1>5. ReadInv' /\ PromptInv'
  BY DEF ReadInv, PromptInv, readerVars
<1> QED BY <1>1, <1>2, <1>3, <1>4, <1>5

LEMMA SkillFileIs ==
  ASSUME SkillTypes, NEW s \in SkillNames, NEW f \in {"md", "toml"}, NEW how \in Contents, Content(s, f, how)
  PROVE  /\ skillFiles' \in [SkillNames -> [{"md", "toml"} -> Contents]]
         /\ skillFiles'[s][f] = how
         /\ \A g \in {"md", "toml"} : g # f => skillFiles'[s][g] = skillFiles[s][g]
         /\ \A r \in SkillNames : r # s => skillFiles'[r] = skillFiles[r]
<1>1. skillFiles \in [SkillNames -> [{"md", "toml"} -> Contents]]
  BY DEF SkillTypes
<1>2. PICK files \in [{"md", "toml"} -> Contents] : files = skillFiles[s]
  BY <1>1
<1>3. skillFiles' = [skillFiles EXCEPT ![s] = [files EXCEPT ![f] = how]]
  BY <1>1, <1>2 DEF Content
<1> QED BY <1>1, <1>2, <1>3

(* Who works works on a skill.                                             *)
LEMMA WorksOn ==
  ASSUME SkillsInv, NEW t \in Terminals, command[t].step # "none"
  PROVE  /\ command[t].skill \in SkillNames /\ command[t].skill # 0
         /\ command[t].step \in Steps /\ command[t].left \in SUBSET {"md", "toml"}
         /\ AloneAt(t, command[t])
<1>1. command \in [Terminals -> CommandType] /\ command[t].skill # 0
  BY DEF SkillsInv, SkillTypes, CommandType
<1>2. command[t] \in CommandType
  BY <1>1
<1> QED BY <1>1, <1>2 DEF SkillsInv, AloneInv, CommandType

LEMMA MakeDirectoryKeeps ==
  ASSUME SkillsInv, NEW t \in Terminals, MakeDirectory(t)
  PROVE  SkillsInv'
<1> DEFINE s == command[t].skill
<1> USE DEF SkillsInv
<1>1. PICK step \in {"fetch", "copy"} :
        /\ command[t].step = step /\ skillDirs' = skillDirs \cup {s}
        /\ Goes(t, "write", IF step = "copy" THEN FilesOf(s) ELSE {"md"})
        /\ UNCHANGED <<skillFiles, readerVars, installed, sureOf, commands, brokenOff>>
  BY DEF MakeDirectory, Doing
<1>2. PICK left \in SUBSET {"md", "toml"} : left = (IF step = "copy" THEN FilesOf(s) ELSE {"md"}) /\ "md" \in left
  BY DEF FilesOf
<1>3. s \in SkillNames /\ s # 0 /\ AloneAt(t, command[t]) /\ "write" \in Steps
  BY <1>1, WorksOn DEF Steps
<1>4. /\ command' \in [Terminals -> CommandType] /\ command'[t].step = "write" /\ command'[t].left = left
      /\ command'[t].skill = s /\ command'[t].alone = command[t].alone
      /\ \A u \in Terminals \ {t} : command'[u] = command[u]
  BY <1>1, <1>2, <1>3, GoesTo
<1>5. AloneAt(t, command[t])'
  <2> SUFFICES ASSUME command[t].alone PROVE AloneAt(t, command[t])'
    BY <1>4 DEF AloneAt
  <2>1. s \notin skillDirs /\ \A u \in Terminals \ {t} : command[u].skill # s
    BY <1>1, <1>3 DEF AloneAt
  <2>2. \A f \in {"md", "toml"} : skillFiles[s][f] = "absent"
    BY <1>3, <2>1 DEF DirInv
  <2>3. \A f \in {"md", "toml"} \ left : Written(s, f)'
    BY <1>1, <1>2, <1>4, <2>2 DEF Written
  <2> QED BY <1>1, <1>4, <2>1, <2>3 DEF AloneAt
<1>6. skillFiles' \in [SkillNames -> [{"md", "toml"} -> Contents]] /\ skillDirs' \subseteq SkillNames
  BY <1>1, <1>3 DEF SkillTypes
<1> QED BY <1>1, <1>3, <1>4, <1>5, <1>6, TerminalKeeps

LEMMA OpenSkillFileKeeps ==
  ASSUME SkillsInv, NEW t \in Terminals, OpenSkillFile(t)
  PROVE  SkillsInv'
<1> DEFINE s == command[t].skill
<1> USE DEF SkillsInv
<1>1. PICK f \in command[t].left :
        /\ command[t].step = "write" /\ s \in skillDirs /\ Content(s, f, "empty")
        /\ command' = [command EXCEPT ![t].step = f]
        /\ UNCHANGED <<skillDirs, readerVars, installed, sureOf, commands, brokenOff>>
  BY DEF OpenSkillFile, Doing
<1>2. s \in SkillNames /\ s # 0 /\ command[t].left \in SUBSET {"md", "toml"} /\ AloneAt(t, command[t])
  BY <1>1, WorksOn
<1>3. f \in {"md", "toml"} /\ f \in Steps /\ f # "none" /\ "empty" \in Contents
  BY <1>2 DEF Steps, Contents
<1>4. Goes(t, f, command[t].left)
  <2>1. command \in [Terminals -> CommandType] /\ command[t] \in CommandType
    BY DEF SkillTypes, CommandType
  <2>2. [command[t] EXCEPT !.step = f] = [command[t] EXCEPT !.step = f, !.left = command[t].left]
    BY <2>1 DEF CommandType
  <2> QED BY <1>1, <2>1, <2>2 DEF Goes
<1>5. /\ command' \in [Terminals -> CommandType] /\ command'[t].step = f /\ command'[t].left = command[t].left
      /\ command'[t].skill = s /\ command'[t].alone = command[t].alone
      /\ \A u \in Terminals \ {t} : command'[u] = command[u]
  BY <1>2, <1>3, <1>4, GoesTo
<1>6. /\ skillFiles' \in [SkillNames -> [{"md", "toml"} -> Contents]] /\ skillFiles'[s][f] = "empty"
      /\ \A g \in {"md", "toml"} : g # f => skillFiles'[s][g] = skillFiles[s][g]
      /\ \A r \in SkillNames : r # s => skillFiles'[r] = skillFiles[r]
  BY <1>1, <1>2, <1>3, SkillFileIs
<1>7. AloneAt(t, command[t])'
  BY <1>1, <1>2, <1>3, <1>5, <1>6 DEF AloneAt, Written
<1> QED BY <1>1, <1>2, <1>3, <1>5, <1>6, <1>7, TerminalKeeps DEF SkillTypes

LEMMA WritePartKeeps ==
  ASSUME SkillsInv, NEW t \in Terminals, WritePart(t)
  PROVE  SkillsInv'
<1> DEFINE s == command[t].skill  f == command[t].step
<1> USE DEF SkillsInv
<1>1. /\ f \in {"md", "toml"} /\ skillFiles[s][f] = "empty" /\ Content(s, f, "part")
      /\ UNCHANGED <<skillDirs, command, readerVars, installed, sureOf, commands, brokenOff>>
  BY DEF WritePart
<1>2. s \in SkillNames /\ s # 0 /\ AloneAt(t, command[t]) /\ "part" \in Contents
  BY <1>1, WorksOn DEF Contents
<1>3. /\ skillFiles' \in [SkillNames -> [{"md", "toml"} -> Contents]] /\ skillFiles'[s][f] = "part"
      /\ \A g \in {"md", "toml"} : g # f => skillFiles'[s][g] = skillFiles[s][g]
      /\ \A r \in SkillNames : r # s => skillFiles'[r] = skillFiles[r]
  BY <1>1, <1>2, SkillFileIs
<1>4. AloneAt(t, command[t])'
  BY <1>1, <1>2, <1>3 DEF AloneAt, Written
<1>5. s \in skillDirs
  BY <1>1, <1>2 DEF DirInv
<1>6. command' \in [Terminals -> CommandType] /\ (command'[t].step = "none" <=> command'[t].skill = 0)
  BY <1>1 DEF SkillTypes, CommandType
<1> QED BY <1>1, <1>2, <1>3, <1>4, <1>5, <1>6, TerminalKeeps DEF SkillTypes

LEMMA WriteWholeKeeps ==
  ASSUME SkillsInv, NEW t \in Terminals, WriteWhole(t)
  PROVE  SkillsInv'
<1> DEFINE s == command[t].skill  f == command[t].step  left == command[t].left \ {f}
<1> USE DEF SkillsInv
<1>1. /\ f \in {"md", "toml"} /\ Goes(t, "write", left)
      /\ IF skillFiles[s][f] = "absent" THEN UNCHANGED skillFiles ELSE Content(s, f, "whole")
      /\ UNCHANGED <<skillDirs, readerVars, installed, sureOf, commands, brokenOff>>
  BY DEF WriteWhole
<1>2. s \in SkillNames /\ s # 0 /\ AloneAt(t, command[t]) /\ "whole" \in Contents /\ "write" \in Steps
      /\ left \in SUBSET {"md", "toml"}
  BY <1>1, WorksOn DEF Contents, Steps
<1>3. /\ command' \in [Terminals -> CommandType] /\ command'[t].step = "write" /\ command'[t].left = left
      /\ command'[t].skill = s /\ command'[t].alone = command[t].alone
      /\ \A u \in Terminals \ {t} : command'[u] = command[u]
  BY <1>1, <1>2, GoesTo
<1>4. /\ skillFiles' \in [SkillNames -> [{"md", "toml"} -> Contents]]
      /\ \/ skillFiles[s][f] = "absent" /\ skillFiles' = skillFiles
         \/ skillFiles[s][f] # "absent" /\ skillFiles'[s][f] = "whole"
      /\ \A g \in {"md", "toml"} : g # f => skillFiles'[s][g] = skillFiles[s][g]
      /\ \A r \in SkillNames : r # s => skillFiles'[r] = skillFiles[r]
  <2>1. CASE skillFiles[s][f] = "absent"
    BY <1>1, <2>1 DEF SkillTypes
  <2>2. CASE skillFiles[s][f] # "absent"
    BY <1>1, <1>2, <2>2, SkillFileIs
  <2> QED BY <2>1, <2>2
<1>5. AloneAt(t, command[t])'
  <2> SUFFICES ASSUME command[t].alone PROVE AloneAt(t, command[t])'
    BY <1>3 DEF AloneAt
  <2>1. /\ \A u \in Terminals \ {t} : command[u].skill # s
        /\ s \in skillDirs /\ \A g \in {"md", "toml"} \ command[t].left : Written(s, g)
        /\ skillFiles[s][f] \in {"empty", "part"}
    BY <1>1, <1>2 DEF AloneAt
  <2>2. \A g \in {"md", "toml"} \ left : Written(s, g)'
    <3> SUFFICES ASSUME NEW g \in {"md", "toml"}, g \notin left
                 PROVE  skillFiles'[s][g] = "whole" \/ (g = "toml" /\ skillFiles'[s][g] = "absent")
      BY <1>3 DEF Written
    <3>1. CASE g = f
      BY <1>4, <2>1, <3>1
    <3>2. CASE g # f
      BY <1>4, <2>1, <3>2 DEF Written
    <3> QED BY <3>1, <3>2
  <2> QED BY <1>1, <1>3, <2>1, <2>2 DEF AloneAt
<1>6. s \notin skillDirs => skillFiles[s][f] = "absent" /\ \A g \in {"md", "toml"} : skillFiles'[s][g] = "absent"
  BY <1>1, <1>2, <1>4 DEF DirInv
<1> QED BY <1>1, <1>2, <1>3, <1>4, <1>5, <1>6, TerminalKeeps DEF SkillTypes

LEMMA InstalledKeeps ==
  ASSUME SkillsInv, NEW t \in Terminals, Installed(t)
  PROVE  SkillsInv'
<1> DEFINE s == command[t].skill
<1> USE DEF SkillsInv
<1>1. /\ command[t].step = "write" /\ command[t].left = {} /\ Finishes(t)
      /\ installed' = IF command[t].alone THEN installed \cup {s} ELSE installed
      /\ UNCHANGED <<skillDirs, skillFiles, readerVars, sureOf, commands, brokenOff>>
  BY DEF Installed, Doing
<1>2. s \in SkillNames /\ s # 0 /\ AloneAt(t, command[t])
  BY <1>1, WorksOn
<1>3. /\ command' \in [Terminals -> CommandType] /\ command'[t] = NoCommand
      /\ \A u \in Terminals \ {t} : command'[u] = command[u]
  BY <1>1, GoesToNothing
<1>4. SkillTypes'
  BY <1>1, <1>2, <1>3, NoCommandIsOne DEF SkillTypes, readerVars, CommandType
<1>5. DirInv'
  BY <1>1 DEF DirInv
<1>6. AloneInv'
  <2>1. AloneAt(t, command[t])'
    BY <1>3, NoCommandIsOne DEF AloneAt
  <2>2. ASSUME NEW u \in Terminals, u # t PROVE AloneAt(u, command[u])'
    <3>1. AloneAt(u, command[u]) /\ command'[u] = command[u]
      BY <1>3, <2>2 DEF AloneInv
    <3>2. command[u].skill # 0 => \A v \in Terminals \ {u} : command'[v].skill \in {command[v].skill, 0}
      BY <1>3, NoCommandIsOne
    <3> QED BY <1>1, <3>1, <3>2 DEF AloneAt, Written
  <2> QED BY <2>1, <2>2 DEF AloneInv
<1>7. InstalledInv'
  <2>1. ASSUME command[t].alone
        PROVE  /\ s \in skillDirs /\ \A u \in Terminals : command'[u].skill # s
               /\ \A f \in {"md", "toml"} : Written(s, f)
    BY <1>1, <1>2, <1>3, <2>1, NoCommandIsOne DEF AloneAt
  <2>2. ASSUME NEW r \in installed
        PROVE  /\ r \in skillDirs /\ \A u \in Terminals : command'[u].skill # r
               /\ \A f \in {"md", "toml"} : Written(r, f)
    <3>1. r # 0
      BY <2>2, NamesArePositive DEF SkillTypes
    <3> QED BY <1>3, <2>2, <3>1, NoCommandIsOne DEF InstalledInv
  <2>3. UNCHANGED <<skillDirs, skillFiles>>
    BY <1>1
  <2> QED BY <1>1, <2>1, <2>2, <2>3 DEF InstalledInv, Written
<1>8. ReadInv' /\ PromptInv'
  BY <1>1 DEF ReadInv, PromptInv, readerVars
<1> QED BY <1>4, <1>5, <1>6, <1>7, <1>8

LEMMA RemoveFileKeeps ==
  ASSUME SkillsInv, NEW t \in Terminals, RemoveFile(t)
  PROVE  SkillsInv'
<1> DEFINE s == command[t].skill
<1> USE DEF SkillsInv
<1>1. PICK f \in {"md", "toml"} :
        /\ command[t].step = "remove" /\ skillFiles[s][f] # "absent" /\ Content(s, f, "absent")
        /\ UNCHANGED <<skillDirs, command, readerVars, installed, sureOf, commands, brokenOff>>
  BY DEF RemoveFile, Doing
<1>2. s \in SkillNames /\ s # 0 /\ AloneAt(t, command[t]) /\ "absent" \in Contents
  BY <1>1, WorksOn DEF Contents
<1>3. /\ skillFiles' \in [SkillNames -> [{"md", "toml"} -> Contents]]
      /\ \A r \in SkillNames : r # s => skillFiles'[r] = skillFiles[r]
  BY <1>1, <1>2, SkillFileIs
<1>4. AloneAt(t, command[t])'
  BY <1>1, <1>2 DEF AloneAt
<1>5. s \in skillDirs
  BY <1>1, <1>2 DEF DirInv
<1>6. command' \in [Terminals -> CommandType] /\ (command'[t].step = "none" <=> command'[t].skill = 0)
  BY <1>1 DEF SkillTypes, CommandType
<1> QED BY <1>1, <1>2, <1>3, <1>4, <1>5, <1>6, TerminalKeeps DEF SkillTypes

LEMMA CommandEndsKeeps ==
  ASSUME SkillsInv, NEW t \in Terminals, RemoveDirectory(t) \/ CommandFails(t)
  PROVE  SkillsInv'
<1> DEFINE s == command[t].skill
<1> USE DEF SkillsInv
<1>1. /\ command[t].step # "none" /\ Finishes(t)
      /\ \/ skillDirs' = skillDirs
         \/ skillDirs' = skillDirs \ {s} /\ \A f \in {"md", "toml"} : skillFiles[s][f] = "absent"
      /\ UNCHANGED <<skillFiles, readerVars, installed, sureOf, commands>>
  BY DEF RemoveDirectory, CommandFails, Doing
<1>2. s \in SkillNames /\ s # 0
  BY <1>1, WorksOn
<1>3. /\ command' \in [Terminals -> CommandType] /\ command'[t] = NoCommand
      /\ \A u \in Terminals \ {t} : command'[u] = command[u]
  BY <1>1, GoesToNothing
<1>4. AloneAt(t, command[t])'
  BY <1>3, NoCommandIsOne DEF AloneAt
<1>5. /\ skillFiles' \in [SkillNames -> [{"md", "toml"} -> Contents]] /\ skillDirs' \subseteq SkillNames
      /\ \A r \in SkillNames : r # s => (r \in skillDirs' <=> r \in skillDirs) /\ skillFiles'[r] = skillFiles[r]
      /\ s \notin skillDirs' => \A f \in {"md", "toml"} : skillFiles'[s][f] = "absent"
  BY <1>1, <1>2 DEF SkillTypes, DirInv
<1> QED BY <1>1, <1>2, <1>3, <1>4, <1>5, NoCommandIsOne, TerminalKeeps


LEMMA SkillsStay ==
  ASSUME SkillsInv, UNCHANGED <<skillDirs, skillFiles, command, readerVars, installed, sureOf>>
  PROVE  SkillsInv'
<1> USE DEF SkillsInv
<1>1. SkillTypes' /\ DirInv' /\ InstalledInv'
  BY DEF SkillTypes, DirInv, InstalledInv, Written, readerVars
<1>2. AloneInv'
  BY DEF AloneInv, AloneAt, Written
<1>3. ReadInv' /\ PromptInv'
  BY DEF ReadInv, PromptInv, readerVars
<1> QED BY <1>1, <1>2, <1>3

(* A command that does something touches its skill.                        *)
LEMMA CommandKeeps ==
  ASSUME SkillsInv, NEW t \in Terminals, NEW s \in SkillNames, NEW step \in {"fetch", "copy", "remove"},
         Command(t, s, step)
  PROVE  SkillsInv'
<1> USE DEF SkillsInv
<1>1. /\ command[t].step = "none" /\ UNCHANGED <<skillDirs, skillFiles, readerVars, brokenOff>>
      /\ s # 0 /\ command[t].skill = 0 /\ step \in Steps /\ step # "none"
  BY NamesArePositive DEF Command, Doing, SkillTypes, Steps
<1>2. command \in [Terminals -> CommandType]
  BY DEF SkillTypes, CommandType
<1>3. CASE UNCHANGED <<command, installed, sureOf>>
  BY <1>1, <1>3, SkillsStay
<1>4. CASE ~UNCHANGED <<command, installed, sureOf>>
  <2> DEFINE others == {u \in Terminals \ {t} : command[u].skill = s}
             New(u) == IF u = t THEN [step |-> step, skill |-> s, left |-> {}, alone |-> others = {}]
                       ELSE [command[u] EXCEPT !.alone = @ /\ u \notin others]
  <2>1. /\ command' = [u \in Terminals |-> New(u)] /\ Touched(s)
        /\ step # "remove" => s \notin skillDirs
    BY <1>4 DEF Command
  <2>2. /\ New(t) \in CommandType /\ New(t).step = step /\ New(t).skill = s /\ New(t).alone = (others = {})
    BY <1>1 DEF CommandType
  <2>3. ASSUME NEW u \in Terminals, u # t
        PROVE  /\ New(u) \in CommandType /\ New(u).step = command[u].step /\ New(u).skill = command[u].skill
               /\ New(u).left = command[u].left /\ (New(u).alone => command[u].alone /\ u \notin others)
    <3>1. PICK c \in CommandType : c = command[u]
      BY <1>2
    <3>2. New(u) = [c EXCEPT !.alone = c.alone /\ u \notin others]
      BY <2>3, <3>1
    <3>3. [c EXCEPT !.alone = c.alone /\ u \notin others] \in CommandType
      BY DEF CommandType
    <3> QED BY <3>1, <3>2, <3>3 DEF CommandType
  <2>4. /\ command' \in [Terminals -> CommandType]
        /\ command'[t].step = step /\ command'[t].skill = s /\ command'[t].alone = (others = {})
        /\ \A u \in Terminals \ {t} :
             /\ command'[u].step = command[u].step /\ command'[u].skill = command[u].skill
             /\ command'[u].left = command[u].left
             /\ command'[u].alone => command[u].alone /\ command[u].skill # s
    <3>1. \A u \in Terminals : New(u) \in CommandType
      BY <2>2, <2>3
    <3> HIDE DEF New
    <3>2. command' \in [Terminals -> CommandType] /\ \A u \in Terminals : command'[u] = New(u)
      BY <2>1, <3>1
    <3>3. \A u \in Terminals \ {t} : u \notin others => command[u].skill # s
      OBVIOUS
    <3> HIDE DEF others
    <3> QED BY <2>2, <2>3, <3>2, <3>3
  <2>5. installed' \subseteq installed \ {s} /\ sureOf' \subseteq sureOf /\ sureOf' \subseteq installed'
    BY <2>1 DEF Touched, ReadInv
  <2>6. SkillTypes'
    <3>1. \A u \in Terminals : command'[u].step = "none" <=> command'[u].skill = 0
      BY <1>1, <2>4 DEF SkillTypes
    <3> HIDE DEF others, New
    <3> QED BY <1>1, <2>4, <2>5, <3>1 DEF SkillTypes, CommandType, readerVars
  <2>7. DirInv'
    BY <1>1 DEF DirInv
  <2>8. AloneInv'
    <3>1. AloneAt(t, command[t])'
      <4>1. \A u \in Terminals \ {t} : command'[t].alone => command'[u].skill # s
        <5>1. command'[t].alone => \A u \in Terminals \ {t} : command[u].skill # s
          BY <2>4
        <5> HIDE DEF others
        <5> QED BY <2>4, <5>1
      <4> HIDE DEF others, New
      <4> QED BY <1>1, <2>1, <2>4, <4>1 DEF AloneAt
    <3>2. ASSUME NEW u \in Terminals, u # t PROVE AloneAt(u, command[u])'
      <4>1. AloneAt(u, command[u])
        BY DEF AloneInv
      <4> HIDE DEF others, New
      <4> SUFFICES ASSUME command'[u].alone, command[u].skill # 0 PROVE AloneAt(u, command[u])'
        BY <2>4, <3>2 DEF AloneAt
      <4>2. \A v \in Terminals \ {u} : command'[v].skill # command[u].skill
        BY <2>4, <3>2, <4>1 DEF AloneAt
      <4> QED BY <1>1, <2>4, <3>2, <4>1, <4>2 DEF AloneAt, Written
    <3> QED BY <3>1, <3>2 DEF AloneInv
  <2>9. InstalledInv'
    <3> HIDE DEF others, New
    <3> SUFFICES ASSUME NEW r \in installed'
                 PROVE  /\ r \in skillDirs' /\ \A u \in Terminals : command'[u].skill # r
                        /\ \A f \in {"md", "toml"} : Written(r, f)'
      BY DEF InstalledInv
    <3>1. r \in installed /\ r # s
      BY <2>5
    <3> QED BY <1>1, <2>4, <3>1 DEF InstalledInv, Written
  <2>10. ReadInv' /\ PromptInv'
    BY <1>1, <2>5 DEF ReadInv, PromptInv, readerVars
  <2> QED BY <2>6, <2>7, <2>8, <2>9, <2>10
<1> QED BY <1>3, <1>4

-----------------------------------------------------------------------------
(* The turn reads. *)
LEMMA BeginLoadKeeps == ASSUME SkillsInv, BeginLoad PROVE SkillsInv'
<1> USE DEF SkillsInv
<1>1. SkillTypes' /\ DirInv' /\ InstalledInv'
  BY DEF SkillTypes, DirInv, InstalledInv, Written, BeginLoad
<1>2. AloneInv'
  BY DEF AloneInv, AloneAt, Written, BeginLoad
<1>3. ReadInv'
  BY DEF ReadInv, InstalledInv, BeginLoad
<1>4. PromptInv'
  BY FS_EmptySet DEF PromptInv, BeginLoad
<1> QED BY <1>1, <1>2, <1>3, <1>4

(* What a directory yields is one entry of its own or none, and the whole  *)
(* of a skill that is installed.                                           *)
LEMMA LoadsOne ==
  ASSUME SkillsInv, NEW s \in SkillNames, NEW parses \in BOOLEAN, NEW legible \in BOOLEAN
  PROVE  /\ Loads(s, parses, legible) = {} \/ \E e \in SkillEntries : Loads(s, parses, legible) = {e}
         /\ s \in installed => \E e \in Loads(s, parses, legible) : e.dir = s /\ e.text = "whole"
<1> USE DEF SkillsInv
<1> DEFINE files == skillFiles[s]
           text == IF files.md = "absent" THEN "empty" ELSE files.md
           manifest == files.toml = "whole" \/ (files.toml = "part" /\ parses)
           atRisk == "part" \in {files.md, files.toml} \/ \E t \in Terminals : command[t].skill = s
<1>1. skillFiles[s].md \in Contents /\ skillFiles[s].toml \in Contents
  BY DEF SkillTypes
<1>2. text \in {"empty", "part", "whole"}
  BY <1>1 DEF Contents
<1>3. s \in Nat /\ Title[s] \in Nat
  BY SkillsAssumption
<1>4. SkillEntry(s, Title[s], text) \in SkillEntries /\ SkillEntry(s, s, text) \in SkillEntries
  BY <1>2, <1>3 DEF SkillEntry, SkillEntries
<1>5. Loads(s, parses, legible) =
        IF atRisk /\ ~legible THEN {}
        ELSE IF manifest THEN {SkillEntry(s, Title[s], text)}
        ELSE IF text = "empty" THEN {} ELSE {SkillEntry(s, s, text)}
  BY DEF Loads
<1>6. s \in installed => ~atRisk /\ text = "whole"
  <2> SUFFICES ASSUME s \in installed PROVE ~atRisk /\ text = "whole"
    OBVIOUS
  <2>1. files.md = "whole" /\ files.toml \in {"whole", "absent"} /\ \A t \in Terminals : command[t].skill # s
    BY DEF InstalledInv, Written
  <2> QED BY <2>1
<1>7. /\ SkillEntry(s, Title[s], text).dir = s /\ SkillEntry(s, Title[s], text).text = text
      /\ SkillEntry(s, s, text).dir = s /\ SkillEntry(s, s, text).text = text
  BY DEF SkillEntry
<1> HIDE DEF atRisk, manifest, text
<1>8. Loads(s, parses, legible) \in {{}, {SkillEntry(s, Title[s], text)}, {SkillEntry(s, s, text)}}
  BY <1>5
<1>9. s \in installed => Loads(s, parses, legible) \in {{SkillEntry(s, Title[s], text)}, {SkillEntry(s, s, text)}}
  BY <1>5, <1>6
<1> QED BY <1>4, <1>6, <1>7, <1>8, <1>9

LEMMA LoadSkillKeeps == ASSUME SkillsInv, NEW s \in SkillNames, LoadSkill(s) PROVE SkillsInv'
<1> USE DEF SkillsInv
<1>1. PICK parses \in BOOLEAN, legible \in BOOLEAN : loadedSkills' = loadedSkills \cup Loads(s, parses, legible)
  BY DEF LoadSkill
<1>2. /\ Loads(s, parses, legible) = {} \/ \E e \in SkillEntries : Loads(s, parses, legible) = {e}
      /\ s \in installed => \E e \in Loads(s, parses, legible) : e.dir = s /\ e.text = "whole"
  BY LoadsOne
<1>3. /\ s \in toLoad /\ toLoad' = toLoad \ {s}
      /\ UNCHANGED <<skillDirs, skillFiles, command, skillPrompt, turnLoads, installed, sureOf, commands, brokenOff>>
  BY DEF LoadSkill
<1>4. SkillTypes' /\ DirInv' /\ InstalledInv'
  BY <1>3 DEF SkillTypes, DirInv, InstalledInv, Written
<1>5. AloneInv'
  BY <1>3 DEF AloneInv, AloneAt, Written
<1>6. ReadInv'
  BY <1>1, <1>2, <1>3 DEF ReadInv
<1>7. PromptInv'
  <2>1. turnLoads' # "has read"
    BY <1>3 DEF ReadInv
  <2>2. loadedSkills' \subseteq SkillEntries /\ IsFiniteSet(loadedSkills')
    BY <1>1, <1>2, FS_AddElement DEF PromptInv
  <2> QED BY <2>1, <2>2 DEF PromptInv
<1> QED BY <1>4, <1>5, <1>6, <1>7

LEMMA MakePromptKeeps == ASSUME SkillsInv, MakePrompt PROVE SkillsInv'
<1> USE DEF SkillsInv
<1>1. /\ toLoad = {} /\ \E list \in InOrderOfNames(loadedSkills) : skillPrompt' = FirstThatFit(list)
      /\ UNCHANGED <<skillDirs, skillFiles, command, toLoad, loadedSkills, installed, sureOf, commands, brokenOff>>
  BY DEF MakePrompt
<1>2. SkillTypes' /\ DirInv' /\ InstalledInv'
  BY <1>1 DEF SkillTypes, DirInv, InstalledInv, Written
<1>3. AloneInv'
  BY <1>1 DEF AloneInv, AloneAt, Written
<1>4. ReadInv'
  BY <1>1 DEF ReadInv
<1>5. PromptInv'
  BY <1>1 DEF PromptInv
<1> QED BY <1>2, <1>3, <1>4, <1>5

LEMMA SkillsStepKeeps == SkillsInv /\ [SkillsNext]_skillVars => SkillsInv'
<1> SUFFICES ASSUME SkillsInv, [SkillsNext]_skillVars PROVE SkillsInv'
  OBVIOUS
<1>1. CASE UNCHANGED skillVars
  BY <1>1, SkillsStay DEF skillVars, readerVars
<1>2. CASE SkillsNext
  BY <1>2, CommandKeeps, MakeDirectoryKeeps, OpenSkillFileKeeps, WritePartKeeps, WriteWholeKeeps, InstalledKeeps,
     RemoveFileKeeps, CommandEndsKeeps, BeginLoadKeeps, LoadSkillKeeps, MakePromptKeeps DEF SkillsNext
<1> QED BY <1>1, <1>2


-----------------------------------------------------------------------------
(* Every set of natural numbers that is not empty has a least element.     *)
LEMMA LeastNumber ==
  ASSUME NEW S \in SUBSET Nat, S # {}
  PROVE  \E n \in S : \A m \in S : n <= m
<1>1. \E n \in S : \A m \in S : ~(<<m, n>> \in OpToRel(<, Nat))
  BY NatLessThanWellFounded, WFMin
<1>2. PICK n \in S : \A m \in S : <<m, n>> \notin OpToRel(<, Nat)
  BY <1>1
<1>3. ASSUME NEW m \in S PROVE n <= m
  <2>1. <<m, n>> \notin {ss \in Nat \X Nat : ss[1] < ss[2]}
    BY <1>2, Zenon DEF OpToRel
  <2>2. ~(m < n)
    BY <2>1
  <2> QED BY <2>2
<1> QED BY <1>3

(* The room of a list is summed up entry by entry.                         *)
RoomStep(list, f, i) == IF i = 0 THEN 0 ELSE f[i - 1] + Room(list[i])

LEMMA RoomIsSummedUp ==
  ASSUME NEW list, Len(list) \in Nat
  PROVE  \E f : /\ \A i \in 0 .. Len(list) : f[i] = RoomStep(list, f, i)
                /\ RoomFor(list) = f[Len(list)]
<1> PICK n \in Nat : n = Len(list)
  OBVIOUS
<1> DEFINE Fits(k, f) == f = [i \in 0..k |-> RoomStep(list, f, i)]
           bad == {k \in 0..n : \A f : ~Fits(k, f)}
<1>1. bad = {}
  <2> SUFFICES ASSUME bad # {} PROVE FALSE
    OBVIOUS
  <2>1. PICK b \in bad : \A k \in bad : b <= k
    <3>1. bad \in SUBSET Nat
      OBVIOUS
    <3> HIDE DEF bad
    <3> QED BY <3>1, LeastNumber
  <2>2. b \in 0..n /\ \A f : ~Fits(b, f)
    OBVIOUS
  <2>3. CASE b = 0
    <3> DEFINE f == [i \in 0..0 |-> RoomStep(list, <<>>, 0)]
    <3>1. \A i \in 0..0 : f[i] = RoomStep(list, f, i)
      BY DEF RoomStep
    <3>2. f = [i \in 0..0 |-> f[i]]
      OBVIOUS
    <3>3. Fits(0, f)
      <4> HIDE DEF f
      <4> QED BY <3>1, <3>2
    <3> HIDE DEF Fits
    <3> QED BY <2>2, <2>3, <3>3
  <2>4. CASE b # 0
    <3> PICK c \in Nat : c = b - 1 /\ b = c + 1
      BY <2>2, <2>4
    <3>1. \E f : Fits(c, f)
      <4>1. c \in 0..n /\ ~(b <= c)
        BY <2>2
      <4>2. c \notin bad
        <5> HIDE DEF bad
        <5> QED BY <2>1, <4>1
      <4> QED BY <4>1, <4>2
    <3>2. PICK f : Fits(c, f)
      <4> HIDE DEF Fits
      <4> QED BY <3>1
    <3> DEFINE g == [i \in 0..b |-> IF i = b THEN RoomStep(list, f, b) ELSE f[i]]
    <3>3. \A i \in 0..c : f[i] = RoomStep(list, f, i)
      BY <3>2
    <3>4. \A i \in 0..b : g[i] = RoomStep(list, f, i)
      BY <3>3
    <3>5. \A i \in 0..b : RoomStep(list, g, i) = RoomStep(list, f, i)
      <4>1. ASSUME NEW i \in 0..b, i # 0 PROVE g[i - 1] = f[i - 1]
        <5>1. i - 1 \in 0..b /\ i - 1 # b
          BY <2>2, <4>1
        <5> QED BY <5>1, Zenon
      <4> HIDE DEF g
      <4> QED BY <4>1 DEF RoomStep
    <3>6. g = [i \in 0..b |-> g[i]]
      OBVIOUS
    <3>7. Fits(b, g)
      <4> HIDE DEF g
      <4> QED BY <3>4, <3>5, <3>6
    <3> HIDE DEF Fits
    <3> QED BY <2>2, <3>7
  <2> QED BY <2>3, <2>4
<1>2. PICK f : Fits(n, f)
  <2>1. \E f : Fits(n, f)
    <3>1. n \in 0..n /\ n \notin bad
      BY <1>1
    <3> QED BY <3>1
  <2> HIDE DEF Fits
  <2> QED BY <2>1
<1> DEFINE All(h) == h = [i \in 0 .. Len(list) |-> IF i = 0 THEN 0 ELSE h[i - 1] + Room(list[i])]
<1>3. All(f)
  BY <1>2, Zenon DEF RoomStep
<1>4. RoomFor(list) = (CHOOSE h : All(h))[Len(list)]
  BY Zenon DEF RoomFor
<1>5. PICK h : All(h) /\ RoomFor(list) = h[Len(list)]
  <2> HIDE DEF All
  <2> QED BY <1>3, <1>4
<1>6. \A i \in 0 .. Len(list) : h[i] = RoomStep(list, h, i)
  BY <1>5 DEF RoomStep
<1> QED BY <1>5, <1>6

LEMMA RoomIsNumber ==
  ASSUME NEW list \in Seq(SkillEntries)
  PROVE  RoomFor(list) \in Nat /\ (Len(list) = 0 => RoomFor(list) = 0)
<1> PICK n \in Nat : n = Len(list)
  OBVIOUS
<1>1. PICK f : (\A i \in 0..n : f[i] = RoomStep(list, f, i)) /\ RoomFor(list) = f[n]
  BY RoomIsSummedUp
<1>2. \A i \in 1..n : Room(list[i]) \in Nat
  <2> SUFFICES ASSUME NEW i \in 1..n PROVE Room(list[i]) \in Nat
    OBVIOUS
  <2>1. list[i].dir \in SkillNames
    <3>1. list[i] \in SkillEntries
      BY ElementOfSeq
    <3> QED BY <3>1 DEF SkillEntries
  <2>2. Length[list[i].dir] \in Nat
    BY <2>1, SkillsAssumption
  <2> QED BY <2>2 DEF Room
<1> DEFINE bad == {i \in 0..n : f[i] \notin Nat}
<1>3. bad = {}
  <2> SUFFICES ASSUME bad # {} PROVE FALSE
    OBVIOUS
  <2>1. PICK b \in bad : \A k \in bad : b <= k
    <3>1. bad \in SUBSET Nat
      OBVIOUS
    <3> HIDE DEF bad
    <3> QED BY <3>1, LeastNumber
  <2>2. b # 0
    BY <1>1 DEF RoomStep
  <2>3. b - 1 \in 0..n /\ ~(b <= b - 1) /\ b \in 1..n
    BY <2>2
  <2>4. f[b - 1] \in Nat
    BY <2>1, <2>3
  <2>5. f[b] = f[b - 1] + Room(list[b])
    BY <1>1, <2>2 DEF RoomStep
  <2> QED BY <1>2, <2>3, <2>4, <2>5
<1>4. n \in 0..n /\ f[n] \in Nat
  BY <1>3
<1>5. n = 0 => f[n] = 0
  BY <1>1 DEF RoomStep
<1> QED BY <1>1, <1>4, <1>5

(* The first entries of a list by name are such a list of their own.       *)
StartIsList(S, n, list, k) ==
  /\ \A e \in S : \E i \in 1..n : list[i] = e
  /\ SubSeq(list, 1, k) \in Seq(SkillEntries) /\ Len(SubSeq(list, 1, k)) = k
  /\ \A i \in 1..k : SubSeq(list, 1, k)[i] = list[i]
  /\ SubSeq(list, 1, k) \in InOrderOfNames({list[i] : i \in 1..k})

LEMMA StartsAreLists ==
  ASSUME NEW S, S \subseteq SkillEntries, IsFiniteSet(S), NEW n \in Nat, n = Cardinality(S),
         NEW list, list \in InOrderOfNames(S), NEW k \in 0..n
  PROVE  StartIsList(S, n, list, k)
<1>1. n \in Nat
  OBVIOUS
<1>2. list \in [1..n -> S] /\ \A i, j \in 1..n : i < j => list[i] # list[j] /\ list[i].name <= list[j].name
  BY DEF InOrderOfNames
<1>3. list \in Seq(S) /\ Len(list) = n /\ list \in Seq(SkillEntries) /\ k \in 0..n
  BY <1>1, <1>2
<1>4. \A i, j \in 1..n : i # j => list[i] # list[j]
  <2>1. \A i, j \in 1..n : i # j => i < j \/ j < i
    BY <1>1
  <2> QED BY <1>2, <2>1
<1>5. \A e \in S : \E i \in 1..n : list[i] = e
  <2>1. list \in Injection(1..n, S)
    BY <1>2, <1>4 DEF Injection, IsInjective
  <2>2. Cardinality(1..n) = n
    BY <1>1, FS_Interval
  <2>3. list \in Surjection(1..n, S)
    BY <2>1, <2>2, FS_Injection
  <2> QED BY <2>3 DEF Surjection
<1> DEFINE start == SubSeq(list, 1, k)  T == {list[i] : i \in 1..k}
<1>6. start = [i \in 1..k |-> list[i]] /\ start \in Seq(SkillEntries) /\ Len(start) = k /\ \A i \in 1..k : start[i] = list[i]
  BY <1>1, <1>3
<1>7. Cardinality(T) = k /\ IsFiniteSet(T)
  <2>1. start \in Surjection(1..k, T)
    BY <1>6 DEF Surjection
  <2>2. start \in Injection(1..k, T)
    <3>1. \A i, j \in 1..k : i # j => start[i] # start[j]
      BY <1>1, <1>3, <1>4, <1>6
    <3> QED BY <1>6, <3>1 DEF Injection, IsInjective
  <2>3. IsFiniteSet(1..k) /\ Cardinality(1..k) = k
    BY <1>1, <1>3, FS_Interval
  <2> HIDE DEF start, T
  <2> QED BY <2>1, <2>2, <2>3, FS_Surjection
<1>8. start \in InOrderOfNames(T)
  <2>1. start \in [1..k -> T] /\ DOMAIN start = 1..k
    BY <1>6
  <2>2. \A i, j \in 1..k : i < j => start[i] # start[j] /\ start[i].name <= start[j].name
    <3>1. \A i \in 1..k : i \in 1..n
      BY <1>1, <1>3
    <3> QED BY <1>2, <1>6, <3>1
  <2> HIDE DEF start, T
  <2> QED BY <1>7, <2>1, <2>2 DEF InOrderOfNames
<1> QED BY <1>3, <1>5, <1>6, <1>8 DEF StartIsList

(* The start of a list that the prompt takes has room, and an entry that   *)
(* is not in it has none after those that come before it by name.          *)
StartHasRoomFor(S, start) ==
  /\ RoomFor(start) <= PromptRoom
  /\ \A e \in S :
       \/ \E i \in DOMAIN start : start[i] = e
       \/ /\ \A i \in DOMAIN start : start[i].name <= e.name
          /\ \E before \in SUBSET {d \in S : d.name <= e.name} :
               \E list \in InOrderOfNames(before) : RoomFor(list) > PromptRoom

LEMMA StartHasRoom ==
  ASSUME NEW S, S \subseteq SkillEntries, IsFiniteSet(S), NEW n \in Nat, n = Cardinality(S),
         NEW list \in [1..n -> SkillEntries], list \in InOrderOfNames(S)
  PROVE  StartHasRoomFor(S, FirstThatFit(list))
<1> DEFINE full == {i \in DOMAIN list : RoomFor(SubSeq(list, 1, i)) > PromptRoom}
<1> SUFFICES ASSUME NEW start, start = FirstThatFit(list) PROVE StartHasRoomFor(S, start)
  OBVIOUS
<1>1. /\ list \in [1..n -> S]
      /\ \A i, j \in 1..n : i < j => list[i].name <= list[j].name
  BY DEF InOrderOfNames
<1>2. list \in Seq(SkillEntries) /\ Len(list) = n /\ DOMAIN list = 1..n
  OBVIOUS
<1>3. /\ \A e \in S : \E i \in 1..n : list[i] = e
      /\ \A k \in 0..n : /\ SubSeq(list, 1, k) \in Seq(SkillEntries) /\ Len(SubSeq(list, 1, k)) = k
                         /\ \A i \in 1..k : SubSeq(list, 1, k)[i] = list[i]
                         /\ SubSeq(list, 1, k) \in InOrderOfNames({list[i] : i \in 1..k})
  <2>1. ASSUME NEW k \in 0..n
        PROVE  /\ SubSeq(list, 1, k) \in Seq(SkillEntries) /\ Len(SubSeq(list, 1, k)) = k
               /\ \A i \in 1..k : SubSeq(list, 1, k)[i] = list[i]
               /\ SubSeq(list, 1, k) \in InOrderOfNames({list[i] : i \in 1..k})
               /\ \A e \in S : \E i \in 1..n : list[i] = e
    <3>1. StartIsList(S, n, list, k)
      BY StartsAreLists
    <3> QED BY <3>1 DEF StartIsList
  <2>2. 0 \in 0..n
    OBVIOUS
  <2> QED BY <2>1, <2>2
<1>4. \A i \in 1..n : list[i] \in S /\ list[i].name \in Nat
  BY <1>1, <1>1 DEF SkillEntries
<1>5. \A i, j \in 1..n : i <= j => list[i].name <= list[j].name
  <2>1. \A i, j \in 1..n : i < j => list[i].name <= list[j].name
    BY <1>1
  <2>2. \A i, j \in 1..n : i <= j => i < j \/ i = j
    OBVIOUS
  <2>3. \A i \in 1..n : list[i].name <= list[i].name
    BY <1>4
  <2> QED BY <2>1, <2>2, <2>3
<1>6. \A k \in 0..n : k \notin full => RoomFor(SubSeq(list, 1, k)) <= PromptRoom
  <2> SUFFICES ASSUME NEW k \in 0..n, k \notin full PROVE RoomFor(SubSeq(list, 1, k)) <= PromptRoom
    OBVIOUS
  <2> HIDE DEF full
  <2>1. RoomFor(SubSeq(list, 1, k)) \in Nat /\ (k = 0 => RoomFor(SubSeq(list, 1, k)) = 0) /\ PromptRoom \in Nat
    BY <1>3, RoomIsNumber, SkillsAssumption
  <2>2. k # 0 => ~(RoomFor(SubSeq(list, 1, k)) > PromptRoom)
    <3>1. k # 0 => k \in DOMAIN list
      BY <1>2
    <3> QED BY <3>1 DEF full
  <2> QED BY <2>1, <2>2
<1>7. CASE full = {}
  <2>1. start = list
    BY <1>2, <1>7 DEF FirstThatFit
  <2>2. SubSeq(list, 1, n) = list
    BY <1>2, SubSeqFull
  <2>3. n \in 0..n /\ n \notin full
    BY <1>7
  <2>4. RoomFor(start) <= PromptRoom
    <3> HIDE DEF full
    <3> QED BY <1>6, <2>1, <2>2, <2>3
  <2>5. \A e \in S : \E i \in DOMAIN start : start[i] = e
    BY <1>2, <1>3, <2>1
  <2> HIDE DEF full
  <2> QED BY <2>4, <2>5 DEF StartHasRoomFor
<1>8. CASE full # {}
  <2>1. PICK m \in full : m = (CHOOSE i \in full : \A j \in full : i <= j) /\ \A j \in full : m <= j
    <3>1. full \in SUBSET Nat
      BY <1>2
    <3> HIDE DEF full
    <3> QED BY <1>8, <3>1, LeastNumber
  <2>2. start = SubSeq(list, 1, m - 1)
    BY <1>2, <1>8, <2>1 DEF FirstThatFit
  <2>3. m \in 1..n /\ m - 1 \in 0..n /\ m \in 0..n /\ ~(m <= m - 1)
    <3>1. m \in 1..n
      BY <1>2
    <3> QED BY <3>1
  <2>4. RoomFor(start) <= PromptRoom
    <3>1. m - 1 \notin full
      BY <2>1, <2>3
    <3> HIDE DEF full
    <3> QED BY <1>6, <2>2, <2>3, <3>1
  <2>5. /\ DOMAIN start = 1..(m - 1) /\ \A i \in 1..(m - 1) : i \in 1..n /\ start[i] = list[i]
    <3>1. start \in Seq(SkillEntries) /\ Len(start) = m - 1 /\ \A i \in 1..(m - 1) : start[i] = list[i]
      BY <1>3, <2>2, <2>3
    <3> HIDE DEF full
    <3> QED BY <2>3, <3>1
  <2>6. ASSUME NEW e \in S, ~\E i \in DOMAIN start : start[i] = e
        PROVE  /\ \A i \in DOMAIN start : start[i].name <= e.name
               /\ \E before \in SUBSET {d \in S : d.name <= e.name} :
                    \E some \in InOrderOfNames(before) : RoomFor(some) > PromptRoom
    <3>1. PICK k \in 1..n : list[k] = e
      BY <1>3
    <3>2. k \notin 1..(m - 1)
      BY <2>5, <2>6, <3>1
    <3>3. m <= k /\ \A i \in 1..m : i \in 1..n /\ i <= k
      <4> HIDE DEF full
      <4> QED BY <2>3, <3>2
    <3>4. \A i \in 1..m : list[i] \in S /\ list[i].name <= e.name
      BY <1>4, <1>5, <3>1, <3>3
    <3>5. \A i \in 1..(m - 1) : i \in 1..m
      BY <2>3
    <3>6. {list[i] : i \in 1..m} \in SUBSET {d \in S : d.name <= e.name}
      BY <3>4
    <3>7. SubSeq(list, 1, m) \in InOrderOfNames({list[i] : i \in 1..m}) /\ RoomFor(SubSeq(list, 1, m)) > PromptRoom
      BY <1>3, <2>1, <2>3
    <3> HIDE DEF full
    <3> QED BY <2>5, <3>4, <3>5, <3>6, <3>7
  <2> HIDE DEF full
  <2> QED BY <2>4, <2>6 DEF StartHasRoomFor
<1> QED BY <1>7, <1>8

LEMMA SkillsInvSuffices == SkillsInv => InstalledIsRead /\ PromptIsAStart
<1> SUFFICES ASSUME SkillsInv PROVE InstalledIsRead /\ PromptIsAStart
  OBVIOUS
<1>1. InstalledIsRead
  BY DEF SkillsInv, ReadInv, InstalledIsRead
<1>2. turnLoads = "has read" => StartHasRoomFor(loadedSkills, skillPrompt)
  <2> SUFFICES ASSUME turnLoads = "has read" PROVE StartHasRoomFor(loadedSkills, skillPrompt)
    OBVIOUS
  <2>1. loadedSkills \subseteq SkillEntries /\ IsFiniteSet(loadedSkills)
    BY DEF SkillsInv, PromptInv
  <2>2. \E list \in InOrderOfNames(loadedSkills) : skillPrompt = FirstThatFit(list)
    BY DEF SkillsInv, PromptInv
  <2>3. \A list \in InOrderOfNames(loadedSkills) : list \in [1..Cardinality(loadedSkills) -> loadedSkills]
    BY DEF InOrderOfNames
  <2>4. Cardinality(loadedSkills) \in Nat
    BY <2>1, FS_CardinalityType
  <2>5. \A list \in InOrderOfNames(loadedSkills) : list \in [1..Cardinality(loadedSkills) -> SkillEntries]
    BY <2>1, <2>3
  <2> QED BY <2>1, <2>2, <2>4, <2>5, StartHasRoom
<1>3. PromptIsAStart
  BY <1>2 DEF PromptIsAStart, StartHasRoomFor
<1> QED BY <1>1, <1>3

(* A skill that is installed is read whole by every turn until somebody    *)
(* touches it, and the prompt is a start of the list by name that has room *)
(* (cli/skill.rs, skills/loader.rs).                                       *)
THEOREM SkillsHold == SkillsSpec => [](InstalledIsRead /\ PromptIsAStart)
<1> QED BY SkillsInitHolds, SkillsStepKeeps, SkillsInvSuffices, PTL DEF SkillsSpec

-----------------------------------------------------------------------------
(* Journals.                                                               *)
JournalSteps == {"none", "text", "end of line", "written", "truncate", "write back"}
Line == Seq(Nat) \ {<< >>}

(* The file is never without a line that is open, and what trim_to_last    *)
(* has in hand are the last lines of the file.                             *)
JournalTypes ==
  /\ keep \in Nat /\ lastEntry \in Nat /\ mishaps \in Nat /\ wiped \in BOOLEAN /\ lineOpen \in BOOLEAN
  /\ lines \in Seq(Line) /\ inHand \in Seq(Line) /\ entered \in Seq(Nat)
  /\ writing = [entry |-> writing.entry, at |-> writing.at] /\ writing.at \in JournalSteps
  /\ writing.at # "none" => writing.entry = lastEntry /\ lastEntry > 0
  /\ lineOpen => Len(lines) > 0
  /\ writing.at = "end of line" => lineOpen
  /\ writing.at \in {"truncate", "write back"} => keep > 0
  /\ writing.at = "truncate" => Len(lines) > keep /\ inHand = KeptLines(lines)
  /\ writing.at = "write back" => lines = << >> /\ ~lineOpen

(* Entries on different lines are in order; 0 is none.                     *)
LinesInOrder(file) ==
  \A i, j \in DOMAIN file : i < j =>
    \A a \in DOMAIN file[i], b \in DOMAIN file[j] : file[i][a] = 0 \/ file[j][b] = 0 \/ file[i][a] < file[j][b]
LinesUpTo(file, e) == \A i \in DOMAIN file : \A a \in DOMAIN file[i] : file[i][a] <= e
Increasing(s) == \A i, j \in DOMAIN s : i < j => s[i] < s[j]

OrderInv ==
  /\ LinesInOrder(lines) /\ LinesInOrder(inHand)
  /\ LinesUpTo(lines, IF writing.at = "text" THEN lastEntry - 1 ELSE lastEntry) /\ LinesUpTo(inHand, lastEntry)
  /\ Increasing(entered)
  /\ \A i \in DOMAIN entered : entered[i] > 0 /\ entered[i] <= (IF writing.at = "none" THEN lastEntry ELSE lastEntry - 1)

(* As long as nothing goes wrong.                                          *)
OnLines(s) == [i \in DOMAIN s |-> <<s[i]>>]

PlainInv ==
  mishaps = 0 =>
    /\ lineOpen => writing.at = "end of line"
    /\ writing.at \in {"none", "text"} => lines = OnLines(Last(entered, keep))
    /\ writing.at \in {"end of line", "written", "truncate"} =>
         lines = OnLines(Append(Last(entered, keep), writing.entry))
    /\ writing.at = "write back" => inHand = OnLines(Last(Append(entered, writing.entry), keep))

(* What mishaps cost: a line stands for one of the entries that are due    *)
(* after the first c of them; there are few others, and few of these       *)
(* entries are lost; and if c is not 0, the file is as long as it may be.  *)
(* A line that was not ended will cost another line and two more entries   *)
(* at most.                                                                *)
Stands(file, due, c, i) == \E k \in DOMAIN due : k > c /\ file[i] = <<due[k]>>
Others(file, due, c) == {i \in DOMAIN file : ~Stands(file, due, c, i)}
Accounted(file, due, c, void) ==
  \A k \in DOMAIN due : k > c => due[k] \in void \/ \E i \in DOMAIN file : file[i] = <<due[k]>>
AtRisk(file, due, open, c) == IF open /\ Stands(file, due, c, Len(file)) THEN 1 ELSE 0
Cheap(file, due, open, m, c, void) ==
  /\ Cardinality(Others(file, due, c)) + AtRisk(file, due, open, c) <= m
  /\ Cardinality(void) + (IF open THEN 1 ELSE 0) + AtRisk(file, due, open, c) <= 2 * m
Loss(file, due, open, m, n, c, void) ==
  /\ c \in 0..Len(due) /\ IsFiniteSet(void)
  /\ c # 0 => n > 0 /\ Len(file) >= n
  /\ Accounted(file, due, c, void) /\ Cheap(file, due, open, m, c, void)

File == IF writing.at = "write back" THEN inHand ELSE lines
DueEntries == IF writing.at \in {"end of line", "written", "truncate", "write back"} THEN Append(entered, writing.entry)
       ELSE entered
LeftOpen == lineOpen /\ writing.at # "end of line"
LossInv == ~wiped => \E c, void : Loss(File, DueEntries, LeftOpen, mishaps, keep, c, void)

JournalInv == JournalTypes /\ OrderInv /\ PlainInv /\ LossInv

(* A bounded one has a greatest element.                                   *)
LEMMA GreatestNumber ==
  ASSUME NEW S \in SUBSET Nat, S # {}, NEW b \in Nat, \A n \in S : n <= b
  PROVE  \E n \in S : \A m \in S : m <= n
<1> DEFINE bounds == {k \in Nat : \A n \in S : n <= k}
<1>1. PICK k \in bounds : \A l \in bounds : k <= l
  BY LeastNumber, Zenon
<1>2. k \in S
  <2> SUFFICES ASSUME k \notin S PROVE FALSE
    OBVIOUS
  <2>1. \A n \in S : n < k
    BY <1>1
  <2>2. k # 0
    <3>1. PICK n \in S : TRUE
      OBVIOUS
    <3> QED BY <2>1, <3>1
  <2>3. k - 1 \in bounds
    BY <1>1, <2>1, <2>2
  <2> QED BY <1>1, <2>3
<1> QED BY <1>1, <1>2

LEMMA LineFacts ==
  /\ \A e \in Nat : <<e>> \in Line
  /\ \A l \in Line, e \in Nat : Append(l, e) \in Line /\ Len(Append(l, e)) > 1
  /\ \A l \in Line : l \in Seq(Nat) /\ Len(l) > 0
<1>1. \A e \in Nat : <<e>> \in Seq(Nat) /\ <<e>> # << >>
  OBVIOUS
<1>2. ASSUME NEW l \in Seq(Nat), l # << >>, NEW e \in Nat
      PROVE  Len(l) > 0 /\ Append(l, e) \in Seq(Nat) /\ Len(Append(l, e)) > 1 /\ Append(l, e) # << >>
  <2>1. Len(l) \in Nat /\ Len(l) # 0 /\ Append(l, e) \in Seq(Nat) /\ Len(Append(l, e)) = Len(l) + 1
    BY <1>2
  <2>2. Append(l, e) # << >>
    BY <2>1
  <2> QED BY <2>1, <2>2
<1>3. ASSUME NEW l \in Seq(Nat), l # << >> PROVE Len(l) > 0
  BY <1>3
<1> QED BY <1>1, <1>2, <1>3 DEF Line

(* The last n of a sequence.                                               *)
LEMMA LastOnes ==
  ASSUME NEW S, NEW s \in Seq(S), NEW n \in Nat, n <= Len(s)
  PROVE  LET t == SubSeq(s, Len(s) - n + 1, Len(s))
         IN /\ t \in Seq(S) /\ Len(t) = n
            /\ \A i \in 1..n : t[i] = s[i + (Len(s) - n)]
<1>1. PICK m \in Nat : m = Len(s)
  OBVIOUS
<1>2. m - n + 1 \in 1..(m + 1) /\ (n = 0 \/ m \in (m - n + 1)..m)
  BY <1>1
<1>3. \A i \in 1..n : (m - n + 1) + i - 1 = i + (m - n) /\ i + (m - n) \in 1..m
  BY <1>1
<1>4. \A i \in (m - n + 1)..m : s[i] \in S
  BY <1>1
<1>5. SubSeq(s, m - n + 1, m) = [i \in 1..n |-> s[i + (m - n)]]
  <2>1. SubSeq(s, m - n + 1, m) = [i \in 1..(1 + m - (m - n + 1)) |-> s[i + (m - n + 1) - 1]]
    BY DEF SubSeq
  <2>2. 1 + m - (m - n + 1) = n /\ \A i \in 1..n : i + (m - n + 1) - 1 = i + (m - n)
    BY <1>1
  <2> QED BY <2>1, <2>2
<1>6. \A i \in 1..n : s[i + (m - n)] \in S
  BY <1>1, <1>3
<1>7. [i \in 1..n |-> s[i + (m - n)]] \in Seq(S) /\ Len([i \in 1..n |-> s[i + (m - n)]]) = n
  BY <1>6
<1> QED BY <1>1, <1>5, <1>7

-----------------------------------------------------------------------------
(* What mishaps cost.                                                      *)
Shape(file, due) ==
  /\ file \in Seq(Line) /\ due \in Seq(Nat) /\ LinesInOrder(file)
  /\ Increasing(due) /\ \A k \in DOMAIN due : due[k] > 0

LEMMA OthersAreCounted ==
  ASSUME NEW file, NEW due, Shape(file, due), NEW c, NEW open
  PROVE  /\ IsFiniteSet(Others(file, due, c)) /\ Cardinality(Others(file, due, c)) \in Nat
         /\ AtRisk(file, due, open, c) \in {0, 1}
         /\ ~open => AtRisk(file, due, open, c) = 0
         /\ ~Stands(file, due, c, Len(file)) => AtRisk(file, due, open, c) = 0
         /\ open /\ Stands(file, due, c, Len(file)) => AtRisk(file, due, open, c) = 1
<1>1. file \in Seq(Line) /\ DOMAIN file = 1..Len(file) /\ Len(file) \in Nat
  BY DEF Shape
<1>2. IsFiniteSet(DOMAIN file)
  BY <1>1, FS_Interval
<1>3. Others(file, due, c) \subseteq DOMAIN file
  BY DEF Others
<1> QED BY <1>2, <1>3, FS_Subset, FS_CardinalityType DEF AtRisk

LEMMA OneMore ==
  ASSUME NEW S, IsFiniteSet(S), NEW e
  PROVE  /\ IsFiniteSet(S \cup {e}) /\ Cardinality(S \cup {e}) \in Nat /\ Cardinality(S) \in Nat
         /\ Cardinality(S \cup {e}) <= Cardinality(S) + 1
<1>1. /\ IsFiniteSet(S \cup {e}) /\ Cardinality(S) \in Nat
      /\ Cardinality(S \cup {e}) = IF e \in S THEN Cardinality(S) ELSE Cardinality(S) + 1
  BY FS_AddElement, FS_CardinalityType
<1>2. CASE e \in S
  BY <1>1, <1>2
<1>3. CASE e \notin S
  BY <1>1, <1>3
<1> QED BY <1>2, <1>3

(* One mishap more allows for a line that is left open.                    *)
LEMMA MishapAllows ==
  ASSUME NEW file, NEW due, Shape(file, due), NEW m \in Nat, NEW n \in Nat, NEW open \in BOOLEAN,
         NEW open2 \in BOOLEAN, NEW c, NEW void, Loss(file, due, open, m, n, c, void)
  PROVE  Loss(file, due, open2, m + 1, n, c, void) /\ Loss(file, due, FALSE, m, n, c, void)
<1> DEFINE others == Cardinality(Others(file, due, c))  gone == Cardinality(void)
<1>1. others \in Nat /\ gone \in Nat
  BY OthersAreCounted, FS_CardinalityType DEF Loss
<1>2. PICK r \in {0, 1} : r = AtRisk(file, due, open, c)
  BY OthersAreCounted
<1>3. PICK r2 \in {0, 1} : r2 = AtRisk(file, due, open2, c)
  BY OthersAreCounted
<1>4. AtRisk(file, due, FALSE, c) = 0
  BY OthersAreCounted
<1>5. others + r <= m /\ gone + (IF open THEN 1 ELSE 0) + r <= 2 * m
  BY <1>2 DEF Loss, Cheap
<1>6. others + r2 <= m + 1 /\ gone + (IF open2 THEN 1 ELSE 0) + r2 <= 2 * (m + 1)
  BY <1>1, <1>5
<1>7. others + 0 <= m /\ gone + 0 + 0 <= 2 * m
  BY <1>1, <1>5
<1>8. Cheap(file, due, open2, m + 1, c, void)
  BY <1>3, <1>6 DEF Cheap
<1>9. Cheap(file, due, FALSE, m, c, void)
  BY <1>4, <1>7 DEF Cheap
<1> QED BY <1>8, <1>9 DEF Loss

LEMMA DueAppended ==
  ASSUME NEW due \in Seq(Nat), NEW e \in Nat
  PROVE  /\ Append(due, e) \in Seq(Nat) /\ Len(Append(due, e)) = Len(due) + 1 /\ Len(due) \in Nat
         /\ DOMAIN due = 1..Len(due) /\ DOMAIN Append(due, e) = 1..(Len(due) + 1)
         /\ \A k \in 1..Len(due) : Append(due, e)[k] = due[k] /\ k \in 1..(Len(due) + 1)
         /\ Append(due, e)[Len(due) + 1] = e /\ Len(due) + 1 \in 1..(Len(due) + 1)
         /\ \A k \in 1..(Len(due) + 1) : k \in 1..Len(due) \/ k = Len(due) + 1
OBVIOUS

(* An entry that leaves no trace is lost.                                  *)
LEMMA LostWithoutTrace ==
  ASSUME NEW file, NEW due, Shape(file, due), NEW m \in Nat, NEW n \in Nat, NEW open \in BOOLEAN,
         NEW c, NEW void, Loss(file, due, open, m, n, c, void),
         NEW e \in Nat, Shape(file, Append(due, e))
  PROVE  Loss(file, Append(due, e), open, m + 1, n, c, void \cup {e})
<1> DEFINE all == Append(due, e)
<1>1. due \in Seq(Nat)
  BY DEF Shape
<1>2. /\ Len(all) = Len(due) + 1 /\ Len(due) \in Nat
      /\ DOMAIN due = 1..Len(due) /\ DOMAIN all = 1..(Len(due) + 1)
      /\ \A k \in 1..Len(due) : all[k] = due[k] /\ k \in 1..(Len(due) + 1)
      /\ all[Len(due) + 1] = e
      /\ \A k \in 1..(Len(due) + 1) : k \in 1..Len(due) \/ k = Len(due) + 1
  BY <1>1, DueAppended
<1> HIDE DEF all
<1>3. Others(file, all, c) \subseteq Others(file, due, c)
  BY <1>2 DEF Others, Stands
<1>4. /\ Cardinality(Others(file, all, c)) <= Cardinality(Others(file, due, c))
      /\ Cardinality(Others(file, all, c)) \in Nat /\ Cardinality(Others(file, due, c)) \in Nat
  BY <1>3, OthersAreCounted, FS_Subset DEF all
<1>5. IsFiniteSet(void \cup {e}) /\ Cardinality(void \cup {e}) \in Nat /\ Cardinality(void) \in Nat
      /\ Cardinality(void \cup {e}) <= Cardinality(void) + 1
  BY OneMore DEF Loss
<1>6. PICK r \in {0, 1} : r = AtRisk(file, due, open, c)
  BY OthersAreCounted
<1>7. PICK r2 \in {0, 1} : r2 = AtRisk(file, all, open, c) /\ (~open => r2 = 0)
  BY OthersAreCounted DEF all
<1>8. /\ Cardinality(Others(file, due, c)) + r <= m
      /\ Cardinality(void) + (IF open THEN 1 ELSE 0) + r <= 2 * m
  BY <1>6 DEF Loss, Cheap
<1>9. Cheap(file, all, open, m + 1, c, void \cup {e})
  <2>1. Cardinality(Others(file, all, c)) + r2 <= m + 1
    BY <1>4, <1>8
  <2>2. Cardinality(void \cup {e}) + (IF open THEN 1 ELSE 0) + r2 <= 2 * (m + 1)
    BY <1>5, <1>7, <1>8
  <2> QED BY <1>7, <2>1, <2>2 DEF Cheap
<1>10. Accounted(file, all, c, void \cup {e})
  BY <1>2 DEF Loss, Accounted
<1> QED BY <1>2, <1>5, <1>9, <1>10 DEF Loss, all

(* An entry on a line of its own.                                          *)
LEMMA FileAppended ==
  ASSUME NEW file \in Seq(Line), NEW l \in Line
  PROVE  /\ Append(file, l) \in Seq(Line) /\ Len(Append(file, l)) = Len(file) + 1 /\ Len(file) \in Nat
         /\ DOMAIN file = 1..Len(file) /\ DOMAIN Append(file, l) = 1..(Len(file) + 1)
         /\ \A i \in 1..Len(file) : Append(file, l)[i] = file[i] /\ i \in 1..(Len(file) + 1)
         /\ Append(file, l)[Len(file) + 1] = l
         /\ \A i \in 1..(Len(file) + 1) : i \in 1..Len(file) \/ i = Len(file) + 1
OBVIOUS

LEMMA LineAdded ==
  ASSUME NEW file, NEW due, Shape(file, due), NEW m \in Nat, NEW n \in Nat,
         NEW c, NEW void, Loss(file, due, FALSE, m, n, c, void), NEW e \in Nat
  PROVE  Loss(Append(file, <<e>>), Append(due, e), FALSE, m, n, c, void)
<1> DEFINE all == Append(due, e)  more == Append(file, <<e>>)
<1>1. due \in Seq(Nat) /\ file \in Seq(Line) /\ <<e>> \in Line
  BY LineFacts DEF Shape
<1>2. /\ Len(all) = Len(due) + 1 /\ Len(due) \in Nat
      /\ DOMAIN due = 1..Len(due) /\ DOMAIN all = 1..(Len(due) + 1)
      /\ \A k \in 1..Len(due) : all[k] = due[k] /\ k \in 1..(Len(due) + 1)
      /\ all[Len(due) + 1] = e /\ Len(due) + 1 \in 1..(Len(due) + 1)
      /\ \A k \in 1..(Len(due) + 1) : k \in 1..Len(due) \/ k = Len(due) + 1
  BY <1>1, DueAppended
<1>3. /\ Len(more) = Len(file) + 1 /\ Len(file) \in Nat
      /\ DOMAIN file = 1..Len(file) /\ DOMAIN more = 1..(Len(file) + 1)
      /\ \A i \in 1..Len(file) : more[i] = file[i] /\ i \in 1..(Len(file) + 1)
      /\ more[Len(file) + 1] = <<e>>
      /\ \A i \in 1..(Len(file) + 1) : i \in 1..Len(file) \/ i = Len(file) + 1
  BY <1>1, FileAppended
<1> HIDE DEF all, more
<1>4. c \in 0..Len(due) /\ Len(due) + 1 > c
  BY <1>2 DEF Loss
<1>5. Others(more, all, c) \subseteq Others(file, due, c)
  <2> SUFFICES ASSUME NEW i \in DOMAIN more, ~Stands(more, all, c, i) PROVE i \in Others(file, due, c)
    BY DEF Others
  <2>1. i # Len(file) + 1
    BY <1>2, <1>3, <1>4 DEF Stands
  <2>2. i \in 1..Len(file) /\ more[i] = file[i]
    BY <1>3, <2>1
  <2>3. ~Stands(file, due, c, i)
    BY <1>2, <2>2 DEF Stands
  <2> QED BY <1>3, <2>2, <2>3 DEF Others
<1>6. /\ Cardinality(Others(more, all, c)) <= Cardinality(Others(file, due, c))
      /\ Cardinality(Others(more, all, c)) \in Nat /\ Cardinality(Others(file, due, c)) \in Nat
      /\ Cardinality(void) \in Nat
  BY <1>5, OthersAreCounted, FS_Subset, FS_CardinalityType DEF Loss
<1>7. AtRisk(more, all, FALSE, c) = 0 /\ AtRisk(file, due, FALSE, c) = 0
  BY DEF AtRisk
<1>8. Cheap(more, all, FALSE, m, c, void)
  <2>1. Cardinality(Others(file, due, c)) + 0 <= m /\ Cardinality(void) + 0 + 0 <= 2 * m
    BY <1>7 DEF Loss, Cheap
  <2>2. Cardinality(Others(more, all, c)) + 0 <= m /\ Cardinality(void) + 0 + 0 <= 2 * m
    BY <1>6, <2>1
  <2> QED BY <1>7, <2>2 DEF Cheap
<1>9. Accounted(more, all, c, void)
  <2> SUFFICES ASSUME NEW k \in DOMAIN all, k > c
               PROVE  all[k] \in void \/ \E i \in DOMAIN more : more[i] = <<all[k]>>
    BY DEF Accounted
  <2>1. CASE k = Len(due) + 1
    BY <1>2, <1>3, <2>1
  <2>2. CASE k \in 1..Len(due)
    <3>1. due[k] \in void \/ \E i \in DOMAIN file : file[i] = <<due[k]>>
      BY <1>2, <2>2 DEF Loss, Accounted
    <3> QED BY <1>2, <1>3, <2>2, <3>1
  <2> QED BY <1>2, <2>1, <2>2
<1>10. c \in 0..Len(all) /\ IsFiniteSet(void) /\ (c # 0 => n > 0 /\ Len(more) >= n)
  BY <1>2, <1>3, <1>4 DEF Loss
<1>11. Loss(more, all, FALSE, m, n, c, void)
  BY <1>8, <1>9, <1>10 DEF Loss
<1> QED BY <1>11 DEF all, more

(* A line that is torn.                                                    *)
LEMMA TornAdded ==
  ASSUME NEW file, NEW due, Shape(file, due), NEW m \in Nat, NEW n \in Nat,
         NEW c, NEW void, Loss(file, due, FALSE, m, n, c, void), NEW e \in Nat, Shape(file, Append(due, e))
  PROVE  Loss(Append(file, <<0>>), Append(due, e), TRUE, m + 1, n, c, void \cup {e})
<1> DEFINE all == Append(due, e)  more == Append(file, <<0>>)
<1>1. due \in Seq(Nat) /\ file \in Seq(Line) /\ <<0>> \in Line /\ \A k \in DOMAIN all : all[k] > 0
  BY LineFacts DEF Shape
<1>2. /\ Len(all) = Len(due) + 1 /\ Len(due) \in Nat
      /\ DOMAIN due = 1..Len(due) /\ DOMAIN all = 1..(Len(due) + 1)
      /\ \A k \in 1..Len(due) : all[k] = due[k] /\ k \in 1..(Len(due) + 1)
      /\ all[Len(due) + 1] = e /\ all \in Seq(Nat)
      /\ \A k \in 1..(Len(due) + 1) : k \in 1..Len(due) \/ k = Len(due) + 1
  BY <1>1, DueAppended
<1>3. /\ Len(more) = Len(file) + 1 /\ Len(file) \in Nat
      /\ DOMAIN file = 1..Len(file) /\ DOMAIN more = 1..(Len(file) + 1)
      /\ \A i \in 1..Len(file) : more[i] = file[i] /\ i \in 1..(Len(file) + 1)
      /\ more[Len(file) + 1] = <<0>>
      /\ \A i \in 1..(Len(file) + 1) : i \in 1..Len(file) \/ i = Len(file) + 1
  BY <1>1, FileAppended
<1> HIDE DEF all, more
<1>4. Others(more, all, c) \subseteq Others(file, due, c) \cup {Len(file) + 1}
  BY <1>2, <1>3 DEF Others, Stands
<1>5. ~Stands(more, all, c, Len(more))
  <2> SUFFICES ASSUME NEW k \in DOMAIN all, << 0 >> = <<all[k]>> PROVE FALSE
    BY <1>3 DEF Stands
  <2>1. all[k] = 0
    BY Zenon
  <2> QED BY <1>1, <2>1
<1>6. AtRisk(more, all, TRUE, c) = 0 /\ AtRisk(file, due, FALSE, c) = 0
  BY <1>5 DEF AtRisk
<1>7. /\ Cardinality(Others(more, all, c)) <= Cardinality(Others(file, due, c)) + 1
      /\ Cardinality(Others(more, all, c)) \in Nat /\ Cardinality(Others(file, due, c)) \in Nat
  <2> DEFINE few == Others(file, due, c)
  <2>1. IsFiniteSet(few) /\ Cardinality(few) \in Nat
    BY OthersAreCounted
  <2> HIDE DEF few
  <2>2. IsFiniteSet(few \cup {Len(file) + 1}) /\ Cardinality(few \cup {Len(file) + 1}) <= Cardinality(few) + 1
        /\ Cardinality(few \cup {Len(file) + 1}) \in Nat
    BY <2>1, OneMore
  <2>3. Others(more, all, c) \subseteq few \cup {Len(file) + 1}
    BY <1>4 DEF few
  <2>4. IsFiniteSet(Others(more, all, c)) /\ Cardinality(Others(more, all, c)) <= Cardinality(few \cup {Len(file) + 1})
    BY <2>2, <2>3, FS_Subset
  <2> QED BY <2>1, <2>2, <2>4, FS_CardinalityType DEF few
<1>8. IsFiniteSet(void \cup {e}) /\ Cardinality(void \cup {e}) \in Nat /\ Cardinality(void) \in Nat
      /\ Cardinality(void \cup {e}) <= Cardinality(void) + 1
  BY OneMore DEF Loss
<1>9. Cheap(more, all, TRUE, m + 1, c, void \cup {e})
  <2>1. Cardinality(Others(file, due, c)) + 0 <= m /\ Cardinality(void) + 0 + 0 <= 2 * m
    BY <1>6 DEF Loss, Cheap
  <2>2. Cardinality(Others(more, all, c)) + 0 <= m + 1 /\ Cardinality(void \cup {e}) + 1 + 0 <= 2 * (m + 1)
    BY <1>7, <1>8, <2>1
  <2> QED BY <1>6, <2>2 DEF Cheap
<1>10. Accounted(more, all, c, void \cup {e})
  <2> SUFFICES ASSUME NEW k \in DOMAIN all, k > c
               PROVE  all[k] \in void \cup {e} \/ \E i \in DOMAIN more : more[i] = <<all[k]>>
    BY DEF Accounted
  <2>1. CASE k = Len(due) + 1
    BY <1>2, <2>1
  <2>2. CASE k \in 1..Len(due)
    <3>1. due[k] \in void \/ \E i \in DOMAIN file : file[i] = <<due[k]>>
      BY <1>2, <2>2 DEF Loss, Accounted
    <3> QED BY <1>2, <1>3, <2>2, <3>1
  <2> QED BY <1>2, <2>1, <2>2
<1>11. c \in 0..Len(all) /\ IsFiniteSet(void \cup {e}) /\ (c # 0 => n > 0 /\ Len(more) >= n)
  BY <1>2, <1>3, <1>8 DEF Loss
<1>12. Loss(more, all, TRUE, m + 1, n, c, void \cup {e})
  BY <1>9, <1>10, <1>11 DEF Loss
<1> QED BY <1>12 DEF all, more

(* What lands on a line that was left open.                                *)
LEMMA FileJoined ==
  ASSUME NEW file \in Seq(Line), Len(file) > 0, NEW x \in Nat
  PROVE  LET joined == [file EXCEPT ![Len(file)] = Append(@, x)]
         IN /\ joined \in Seq(Line) /\ Len(joined) = Len(file) /\ Len(file) \in Nat
            /\ DOMAIN file = 1..Len(file) /\ DOMAIN joined = 1..Len(file) /\ Len(file) \in 1..Len(file)
            /\ \A i \in 1..Len(file) : i # Len(file) => joined[i] = file[i]
            /\ joined[Len(file)] = Append(file[Len(file)], x) /\ Len(joined[Len(file)]) > 1
<1>1. Len(file) \in DOMAIN file /\ file[Len(file)] \in Line
  OBVIOUS
<1>2. Append(file[Len(file)], x) \in Line /\ Len(Append(file[Len(file)], x)) > 1
  BY <1>1, LineFacts
<1> QED BY <1>1, <1>2

LEMMA Joined ==
  ASSUME NEW file, NEW due, Shape(file, due), NEW m \in Nat, NEW n \in Nat,
         NEW c, NEW void, Loss(file, due, TRUE, m, n, c, void), NEW e \in Nat, NEW x \in Nat, Len(file) > 0
  PROVE  \E more : Loss([file EXCEPT ![Len(file)] = Append(@, x)], Append(due, e), FALSE, m, n, c, more)
<1> DEFINE all == Append(due, e)  joined == [file EXCEPT ![Len(file)] = Append(@, x)]  last == Len(file)
           d == file[last][1]
<1>1. due \in Seq(Nat) /\ file \in Seq(Line)
  BY DEF Shape
<1>2. /\ Len(all) = Len(due) + 1 /\ Len(due) \in Nat
      /\ DOMAIN due = 1..Len(due) /\ DOMAIN all = 1..(Len(due) + 1)
      /\ \A k \in 1..Len(due) : all[k] = due[k] /\ k \in 1..(Len(due) + 1)
      /\ all[Len(due) + 1] = e /\ all \in Seq(Nat)
      /\ \A k \in 1..(Len(due) + 1) : k \in 1..Len(due) \/ k = Len(due) + 1
  BY <1>1, DueAppended
<1>3. /\ Len(joined) = last /\ last \in Nat
      /\ DOMAIN file = 1..last /\ DOMAIN joined = 1..last /\ last \in 1..last
      /\ \A i \in 1..last : i # last => joined[i] = file[i]
  BY <1>1, FileJoined
<1> HIDE DEF all, joined, d
<1>4. /\ Others(joined, all, c) \subseteq Others(file, due, c) \cup {last}
      /\ ~Stands(file, due, c, last) => Others(joined, all, c) \subseteq Others(file, due, c)
  <2>1. \A i \in DOMAIN joined : i # last /\ Stands(file, due, c, i) => Stands(joined, all, c, i)
    BY <1>2, <1>3 DEF Stands
  <2> QED BY <1>3, <2>1 DEF Others
<1> DEFINE few == Others(file, due, c)  now == Others(joined, all, c)
<1>5. IsFiniteSet(few) /\ Cardinality(few) \in Nat
  BY OthersAreCounted
<1> HIDE DEF few, now
<1>6. /\ Cardinality(now) \in Nat /\ Cardinality(now) <= Cardinality(few) + 1
      /\ ~Stands(file, due, c, last) => Cardinality(now) <= Cardinality(few)
  <2>1. /\ IsFiniteSet(few \cup {last}) /\ Cardinality(few \cup {last}) <= Cardinality(few) + 1
        /\ Cardinality(few \cup {last}) \in Nat
    BY <1>5, OneMore
  <2>2. now \subseteq few \cup {last} /\ (~Stands(file, due, c, last) => now \subseteq few)
    BY <1>4 DEF few, now
  <2>3. IsFiniteSet(now) /\ Cardinality(now) <= Cardinality(few \cup {last}) /\ Cardinality(now) \in Nat
    BY <2>1, <2>2, FS_Subset, FS_CardinalityType
  <2>4. ~Stands(file, due, c, last) => Cardinality(now) <= Cardinality(few)
    BY <1>5, <2>2, FS_Subset
  <2> QED BY <1>5, <2>1, <2>3, <2>4
<1>7. IsFiniteSet(void) /\ Cardinality(void) \in Nat
  BY FS_CardinalityType DEF Loss
<1>8. AtRisk(joined, all, FALSE, c) = 0
  BY DEF AtRisk
<1>9. c \in 0..Len(all) /\ (c # 0 => n > 0 /\ Len(joined) >= n)
  <2>1. c \in 0..Len(due) /\ (c # 0 => n > 0 /\ last >= n)
    BY DEF Loss
  <2>2. c \in 0..Len(all)
    BY <1>2, <2>1
  <2> QED BY <1>3, <2>1, <2>2
<1>10. ASSUME NEW k \in DOMAIN all, k > c, all[k] # e
       PROVE  due[k] = all[k] /\ k \in DOMAIN due /\ (due[k] \in void \/ \E i \in DOMAIN file : file[i] = <<due[k]>>)
  BY <1>2, <1>10 DEF Loss, Accounted
<1>11. CASE Stands(file, due, c, last)
  <2> DEFINE gone == (void \cup {e}) \cup {d}
  <2>1. IsFiniteSet(gone) /\ Cardinality(gone) \in Nat /\ Cardinality(gone) <= Cardinality(void) + 2
    <3> DEFINE some == void \cup {e}
    <3>1. /\ IsFiniteSet(some) /\ Cardinality(some) \in Nat /\ Cardinality(some) <= Cardinality(void) + 1
      BY <1>7, OneMore
    <3> HIDE DEF some
    <3>2. /\ IsFiniteSet(some \cup {d}) /\ Cardinality(some \cup {d}) \in Nat
          /\ Cardinality(some \cup {d}) <= Cardinality(some) + 1
      BY <3>1, OneMore
    <3>3. IsFiniteSet(some \cup {d}) /\ Cardinality(some \cup {d}) \in Nat /\ Cardinality(some \cup {d}) <= Cardinality(void) + 2
      BY <1>7, <3>1, <3>2
    <3> QED BY <3>3 DEF some
  <2>2. AtRisk(file, due, TRUE, c) = 1
    BY <1>11 DEF AtRisk
  <2>3. Cardinality(few) + 1 <= m /\ Cardinality(void) + 1 + 1 <= 2 * m
    BY <2>2 DEF Loss, Cheap, few
  <2> HIDE DEF gone
  <2>4. Cardinality(now) + 0 <= m /\ Cardinality(gone) + 0 + 0 <= 2 * m
    BY <1>5, <1>6, <1>7, <2>1, <2>3
  <2>5. Cheap(joined, all, FALSE, m, c, gone)
    BY <1>8, <2>4 DEF Cheap, now
  <2>6. Accounted(joined, all, c, gone)
    <3> SUFFICES ASSUME NEW k \in DOMAIN all, k > c, all[k] \notin gone
                 PROVE  \E i \in DOMAIN joined : joined[i] = <<all[k]>>
      BY DEF Accounted
    <3>1. all[k] # e /\ all[k] \notin void /\ all[k] # d
      BY DEF gone
    <3>2. PICK i \in DOMAIN file : file[i] = <<all[k]>>
      BY <1>10, <3>1
    <3>3. i # last
      BY <3>1, <3>2 DEF d
    <3> QED BY <1>3, <3>2, <3>3
  <2>7. Loss(joined, all, FALSE, m, n, c, gone)
    BY <1>9, <2>1, <2>5, <2>6 DEF Loss
  <2> QED BY <2>7 DEF joined, all
<1>12. CASE ~Stands(file, due, c, last)
  <2> DEFINE gone == void \cup {e}
  <2>1. IsFiniteSet(gone) /\ Cardinality(gone) \in Nat /\ Cardinality(gone) <= Cardinality(void) + 1
    BY <1>7, OneMore
  <2>2. AtRisk(file, due, TRUE, c) = 0
    BY <1>12 DEF AtRisk
  <2>3. Cardinality(few) + 0 <= m /\ Cardinality(void) + 1 + 0 <= 2 * m
    BY <2>2 DEF Loss, Cheap, few
  <2> HIDE DEF gone
  <2>4. Cardinality(now) + 0 <= m /\ Cardinality(gone) + 0 + 0 <= 2 * m
    BY <1>5, <1>6, <1>7, <1>12, <2>1, <2>3
  <2>5. Cheap(joined, all, FALSE, m, c, gone)
    BY <1>8, <2>4 DEF Cheap, now
  <2>6. Accounted(joined, all, c, gone)
    <3> SUFFICES ASSUME NEW k \in DOMAIN all, k > c, all[k] \notin gone
                 PROVE  \E i \in DOMAIN joined : joined[i] = <<all[k]>>
      BY DEF Accounted
    <3>1. all[k] # e /\ all[k] \notin void
      BY DEF gone
    <3>2. PICK i \in DOMAIN file : k \in DOMAIN due /\ due[k] = all[k] /\ file[i] = <<due[k]>>
      BY <1>10, <3>1
    <3>3. i # last
      BY <1>12, <3>2 DEF Stands
    <3> QED BY <1>3, <3>2, <3>3
  <2>7. Loss(joined, all, FALSE, m, n, c, gone)
    BY <1>9, <2>1, <2>5, <2>6 DEF Loss
  <2> QED BY <2>7 DEF joined, all
<1> QED BY <1>11, <1>12

(* The last lines only.                                                    *)
LEMMA LinesKept ==
  ASSUME NEW file, NEW due, Shape(file, due), NEW m \in Nat, NEW n \in Nat, n > 0, Len(file) > n,
         NEW open \in BOOLEAN, NEW c, NEW void, Loss(file, due, open, m, n, c, void),
         NEW kept \in Seq(Line), Len(kept) = n, \A i \in 1..n : kept[i] = file[i + (Len(file) - n)]
  PROVE  \E more : Loss(kept, due, FALSE, m, n, more, void)
<1>0. PICK g \in Nat : g = Len(file) - n /\ g > 0
  <2>1. Len(file) \in Nat
    BY DEF Shape
  <2>2. Len(file) - n \in Nat /\ Len(file) - n > 0
    BY <2>1
  <2> QED BY <2>2
<1> DEFINE Gone(k) == k > c /\ \E i \in 1..g : file[i] = <<due[k]>>
           dropped == {k \in DOMAIN due : Gone(k)}
<1>1. /\ file \in Seq(Line) /\ due \in Seq(Nat) /\ DOMAIN due = 1..Len(due) /\ Len(due) \in Nat
      /\ DOMAIN file = 1..Len(file) /\ Len(file) \in Nat
      /\ \A i \in 1..n : i + g \in 1..Len(file) /\ i \in Nat
      /\ \A i \in 1..Len(file) : i \in 1..g \/ (i - g \in 1..n /\ (i - g) + g = i)
      /\ \A i \in 1..g : i \in 1..Len(file) /\ i \in Nat
      /\ DOMAIN kept = 1..n /\ \A i \in 1..n : kept[i] = file[i + g]
  BY <1>0 DEF Shape
<1>2. PICK more \in 0..Len(due) :
        /\ \A k \in DOMAIN due : Gone(k) => k <= more
        /\ more = c \/ (more \in DOMAIN due /\ Gone(more))
        /\ more >= c
  <2>1. c \in 0..Len(due) /\ c <= c
    BY <1>1 DEF Loss
  <2> HIDE DEF Gone
  <2>2. CASE dropped = {}
    <3>1. \A k \in DOMAIN due : ~Gone(k)
      BY <2>2
    <3> QED BY <2>1, <3>1
  <2>3. CASE dropped # {}
    <3>1. dropped \subseteq Nat /\ \A k \in dropped : k <= Len(due) /\ k \in 0..Len(due)
      BY <1>1
    <3>2. PICK k \in dropped : \A l \in dropped : l <= k
      BY <1>1, <2>3, <3>1, GreatestNumber
    <3>3. k \in DOMAIN due /\ Gone(k) /\ \A l \in DOMAIN due : Gone(l) => l <= k
      BY <3>2
    <3>4. k >= c
      <4>1. k > c
        BY <3>3 DEF Gone
      <4> QED BY <1>1, <2>1, <3>1, <4>1
    <3> QED BY <3>1, <3>3, <3>4
  <2> QED BY <2>2, <2>3
<1>3. ASSUME NEW i \in 1..n, Stands(file, due, c, i + g) PROVE Stands(kept, due, more, i)
  <2>1. PICK k \in DOMAIN due : k > c /\ file[i + g] = <<due[k]>>
    BY <1>3 DEF Stands
  <2>2. CASE more = c
    BY <1>1, <2>1, <2>2 DEF Stands
  <2>3. CASE more \in DOMAIN due /\ Gone(more)
    <3>1. PICK j \in 1..g : more \in DOMAIN due /\ file[j] = <<due[more]>>
      BY <2>3
    <3>2. j < i + g /\ j \in DOMAIN file /\ i + g \in DOMAIN file /\ due[k] \in Nat /\ due[more] \in Nat
      <4>1. j \in 1..Len(file) /\ i + g \in 1..Len(file) /\ j <= g /\ i > 0 /\ j \in Nat /\ i \in Nat
        BY <1>1
      <4>2. due[k] \in Nat /\ due[more] \in Nat
        <5>1. due \in Seq(Nat) /\ k \in DOMAIN due /\ more \in DOMAIN due
          BY <1>1, <3>1
        <5> QED BY <5>1
      <4> QED BY <1>1, <4>1, <4>2
    <3>3. /\ 1 \in DOMAIN file[j] /\ file[j][1] = due[more] /\ file[j][1] # 0
          /\ 1 \in DOMAIN file[i + g] /\ file[i + g][1] = due[k] /\ file[i + g][1] # 0
      <4>1. due[k] # 0 /\ due[more] # 0
        BY <2>1, <3>1, <3>2 DEF Shape
      <4>2. \A e : 1 \in DOMAIN <<e>> /\ <<e>>[1] = e
        OBVIOUS
      <4> QED BY <2>1, <3>1, <4>1, <4>2
    <3>4. due[more] < due[k]
      BY <3>2, <3>3 DEF Shape, LinesInOrder
    <3>5. k > more
      <4>1. k \in Nat /\ more \in Nat
        BY <1>1
      <4>2. ~(k < more) /\ k # more
        BY <3>1, <3>2, <3>4 DEF Shape, Increasing
      <4> QED BY <4>1, <4>2
    <3> QED BY <1>1, <2>1, <3>5 DEF Stands
  <2> QED BY <1>2, <2>2, <2>3
<1> DEFINE now == Others(kept, due, more)  few == Others(file, due, c)
<1>4. IsFiniteSet(few) /\ Cardinality(few) \in Nat
  BY OthersAreCounted
<1>5. Cardinality(now) <= Cardinality(few) /\ Cardinality(now) \in Nat
  <2> DEFINE f == [i \in now |-> i + g]
  <2>1. now \subseteq 1..n
    BY <1>1 DEF Others
  <2>2. \A i \in now : i + g \in few
    BY <1>1, <1>3, <2>1 DEF Others
  <2>3. \A i, j \in now : i + g = j + g => i = j
    BY <1>1, <2>1
  <2> HIDE DEF now, few
  <2>4. f \in [now -> few]
    BY <2>2
  <2>5. f \in Injection(now, few)
    BY <2>3, <2>4 DEF Injection, IsInjective
  <2> QED BY <1>4, <2>5, FS_Injection, FS_CardinalityType
<1>6. Accounted(kept, due, more, void)
  <2> SUFFICES ASSUME NEW k \in DOMAIN due, k > more, due[k] \notin void
               PROVE  \E i \in DOMAIN kept : kept[i] = <<due[k]>>
    BY DEF Accounted
  <2>1. k > c
    <3>1. c \in Nat /\ more \in Nat /\ k \in Nat
      BY <1>1 DEF Loss
    <3> QED BY <1>2, <3>1
  <2>2. PICK i \in DOMAIN file : file[i] = <<due[k]>>
    BY <2>1 DEF Loss, Accounted
  <2>3. ~Gone(k)
    <3>1. k \in Nat /\ more \in Nat
      BY <1>1
    <3> HIDE DEF Gone
    <3> QED BY <1>2, <3>1
  <2>4. i \notin 1..g
    BY <2>1, <2>2, <2>3
  <2>5. i - g \in 1..n /\ (i - g) + g = i
    BY <1>1, <2>4
  <2>6. kept[i - g] = file[i]
    BY <1>1, <2>5
  <2> QED BY <1>1, <2>2, <2>5, <2>6
<1>7. Cheap(kept, due, FALSE, m, more, void)
  <2>1. Cardinality(void) \in Nat
    BY FS_CardinalityType DEF Loss
  <2>2. PICK r \in {0, 1} : r = AtRisk(file, due, open, c)
    BY OthersAreCounted
  <2>3. Cardinality(few) + r <= m /\ Cardinality(void) + (IF open THEN 1 ELSE 0) + r <= 2 * m
    BY <2>2 DEF Loss, Cheap
  <2> HIDE DEF now, few
  <2>4. Cardinality(now) + 0 <= m /\ Cardinality(void) + 0 + 0 <= 2 * m
    BY <1>4, <1>5, <2>1, <2>3
  <2>5. AtRisk(kept, due, FALSE, more) = 0
    BY DEF AtRisk
  <2> QED BY <2>4, <2>5 DEF Cheap, now
<1>8. IsFiniteSet(void) /\ more \in 0..Len(due) /\ Len(kept) >= n
  BY DEF Loss
<1>9. Loss(kept, due, FALSE, m, n, more, void)
  BY <1>6, <1>7, <1>8 DEF Loss
<1> QED BY <1>9

(* An entry that is not due any more, since its writer came to an end.     *)
LEMMA NotDueAnyMore ==
  ASSUME NEW file, NEW due, NEW e \in Nat, Shape(file, due), Shape(file, Append(due, e)),
         NEW m \in Nat, NEW n \in Nat, NEW open \in BOOLEAN, NEW open2 \in BOOLEAN,
         NEW c, NEW void, Loss(file, Append(due, e), open, m, n, c, void)
  PROVE  \E c2 : Loss(file, due, open2, m + 1, n, c2, void)
<1> DEFINE all == Append(due, e)
<1>1. due \in Seq(Nat) /\ file \in Seq(Line)
  BY DEF Shape
<1>2. /\ Len(all) = Len(due) + 1 /\ Len(due) \in Nat
      /\ DOMAIN due = 1..Len(due) /\ DOMAIN all = 1..(Len(due) + 1)
      /\ \A k \in 1..Len(due) : all[k] = due[k] /\ k \in 1..(Len(due) + 1) /\ k # Len(due) + 1
      /\ all[Len(due) + 1] = e /\ Len(due) + 1 \in 1..(Len(due) + 1)
      /\ \A k \in 1..(Len(due) + 1) : k \in 1..Len(due) \/ k = Len(due) + 1
  BY <1>1, DueAppended
<1>3. DOMAIN file = 1..Len(file) /\ Len(file) \in Nat
  BY <1>1
<1> HIDE DEF all
<1>4. \A k \in DOMAIN due : due[k] # e
  <2> SUFFICES ASSUME NEW k \in DOMAIN due PROVE due[k] # e
    OBVIOUS
  <2>1. k \in DOMAIN all /\ Len(due) + 1 \in DOMAIN all /\ k < Len(due) + 1 /\ all[k] = due[k]
    BY <1>2
  <2>2. all[k] < all[Len(due) + 1]
    BY <2>1 DEF Shape, Increasing, all
  <2>3. due[k] \in Nat
    BY <1>1
  <2> QED BY <1>2, <2>1, <2>2, <2>3
<1>5. \A i, j \in DOMAIN file : file[i] = <<e>> /\ (file[j] = <<e>> \/ \E k \in DOMAIN due : file[j] = <<due[k]>>) => j <= i
  <2> SUFFICES ASSUME NEW i \in DOMAIN file, NEW j \in DOMAIN file, NEW d \in Nat, d # 0, d <= e,
                      file[i] = <<e>>, file[j] = <<d>>, e # 0
               PROVE  j <= i
    <3>1. e > 0
      BY <1>2 DEF Shape, all
    <3>2. \A k \in DOMAIN due : due[k] \in Nat /\ due[k] # 0 /\ due[k] <= e
      <4> SUFFICES ASSUME NEW k \in DOMAIN due PROVE due[k] \in Nat /\ due[k] # 0 /\ due[k] <= e
        OBVIOUS
      <4>1. due[k] \in Nat /\ due[k] > 0
        BY <1>1 DEF Shape
      <4>2. k \in DOMAIN all /\ Len(due) + 1 \in DOMAIN all /\ k < Len(due) + 1 /\ all[k] = due[k]
        BY <1>2
      <4>3. all[k] < all[Len(due) + 1]
        BY <4>2 DEF Shape, Increasing, all
      <4> QED BY <1>2, <4>1, <4>2, <4>3
    <3> QED BY <3>1, <3>2
  <2>1. 1 \in DOMAIN file[i] /\ 1 \in DOMAIN file[j] /\ file[i][1] = e /\ file[j][1] = d
    <3>1. \A x : 1 \in DOMAIN <<x>> /\ <<x>>[1] = x
      OBVIOUS
    <3> QED BY <3>1
  <2>2. ~(i < j)
    <3>1. i < j => e < d
      BY <2>1 DEF Shape, LinesInOrder
    <3> QED BY <3>1
  <2> QED BY <1>3, <2>2
<1> DEFINE c2 == IF c = Len(due) + 1 THEN Len(due) ELSE c
<1>6. /\ c \in 0..Len(all) /\ IsFiniteSet(void) /\ Cardinality(void) \in Nat
      /\ c # 0 => n > 0 /\ Len(file) >= n
  BY FS_CardinalityType DEF Loss, all
<1>7. /\ c2 \in 0..Len(due) /\ (c2 # 0 => c # 0)
      /\ \A k \in DOMAIN due : k > c <=> k > c2
  BY <1>2, <1>6
<1> HIDE DEF c2
<1> DEFINE few == Others(file, all, c)  now == Others(file, due, c2)
<1>8. IsFiniteSet(few) /\ Cardinality(few) \in Nat
  BY OthersAreCounted DEF all
<1>9. \A i \in now : i \in DOMAIN file /\ (i \in few \/ file[i] = <<e>>)
  BY <1>2, <1>7 DEF Others, Stands
<1>10. PICK r \in {0, 1} : r = AtRisk(file, due, open2, c2) /\ (~Stands(file, due, c2, Len(file)) => r = 0)
  BY OthersAreCounted
<1>11. PICK r1 \in {0, 1} : r1 = AtRisk(file, all, open, c)
  BY OthersAreCounted DEF all
<1>12. Cardinality(few) + r1 <= m /\ Cardinality(void) + (IF open THEN 1 ELSE 0) + r1 <= 2 * m
  BY <1>11 DEF Loss, Cheap, all
<1>13. Cardinality(now) + r <= m + 1 /\ Cardinality(now) \in Nat
  <2>1. IsFiniteSet(now) /\ Cardinality(now) \in Nat
    BY OthersAreCounted
  <2>2. CASE \A i \in now : i \in few
    <3>1. now \subseteq few
      BY <2>2
    <3> HIDE DEF now, few
    <3>2. Cardinality(now) <= Cardinality(few)
      BY <1>8, <3>1, FS_Subset
    <3> QED BY <1>8, <1>12, <2>1, <3>2
  <2>3. ASSUME NEW i \in now, i \notin few PROVE Cardinality(now) + r <= m + 1
    <3>1. i \in DOMAIN file /\ file[i] = <<e>>
      BY <1>9, <2>3
    <3>2. now \subseteq few \cup {i}
      <4> SUFFICES ASSUME NEW j \in now, j \notin few PROVE j = i
        OBVIOUS
      <4>1. j \in DOMAIN file /\ file[j] = <<e>>
        BY <1>9
      <4>2. j <= i /\ i <= j
        BY <1>5, <3>1, <4>1
      <4> QED BY <1>3, <3>1, <4>1, <4>2
    <3>3. ~Stands(file, due, c2, Len(file))
      <4> SUFFICES ASSUME NEW k \in DOMAIN due, file[Len(file)] = <<due[k]>> PROVE FALSE
        BY DEF Stands
      <4>1. Len(file) \in DOMAIN file /\ i <= Len(file)
        BY <1>3, <3>1
      <4>2. Len(file) <= i
        BY <1>5, <3>1, <4>1
      <4>3. i = Len(file)
        BY <1>3, <3>1, <4>1, <4>2
      <4>4. <<due[k]>> = <<e>>
        BY <3>1, <4>3
      <4>5. due[k] = e
        BY <4>4, Zenon
      <4> QED BY <1>4, <4>5
    <3> HIDE DEF now, few
    <3>4. /\ IsFiniteSet(few \cup {i}) /\ Cardinality(few \cup {i}) \in Nat
          /\ Cardinality(few \cup {i}) <= Cardinality(few) + 1
      BY <1>8, OneMore
    <3>5. Cardinality(now) <= Cardinality(few \cup {i})
      BY <3>2, <3>4, FS_Subset
    <3> QED BY <1>8, <1>10, <1>12, <2>1, <3>3, <3>4, <3>5
  <2> QED BY <2>1, <2>2, <2>3
<1>14. Cardinality(void) + (IF open2 THEN 1 ELSE 0) + r <= 2 * (m + 1)
  BY <1>6, <1>12
<1>15. Cheap(file, due, open2, m + 1, c2, void)
  BY <1>10, <1>13, <1>14 DEF Cheap
<1>16. Accounted(file, due, c2, void)
  <2> SUFFICES ASSUME NEW k \in DOMAIN due, k > c2
               PROVE  due[k] \in void \/ \E i \in DOMAIN file : file[i] = <<due[k]>>
    BY DEF Accounted
  <2>1. k \in DOMAIN all /\ all[k] = due[k] /\ k > c
    BY <1>2, <1>7
  <2>2. all[k] \in void \/ \E i \in DOMAIN file : file[i] = <<all[k]>>
    BY <2>1 DEF Loss, Accounted, all
  <2> QED BY <2>1, <2>2
<1>17. Loss(file, due, open2, m + 1, n, c2, void)
  BY <1>6, <1>7, <1>15, <1>16 DEF Loss
<1> QED BY <1>17

Missing(file, due, latest) == {k \in latest : \A i \in DOMAIN file : file[i] # <<due[k]>>}

(* Of the entries that should be kept, few are not on a line of their own. *)
LEMMA LittleIsMissing ==
  ASSUME NEW file, NEW due, Shape(file, due), NEW m \in Nat, NEW n \in Nat, NEW open \in BOOLEAN,
         NEW c, NEW void, Loss(file, due, open, m, n, c, void),
         NEW latest \in SUBSET (DOMAIN due),
         n = 0 \/ Len(due) <= n => latest = DOMAIN due,
         ~(n = 0 \/ Len(due) <= n) => latest = (Len(due) - n + 1)..Len(due)
  PROVE  IsFiniteSet(Missing(file, due, latest)) /\ Cardinality(Missing(file, due, latest)) <= 2 * m
<1> DEFINE missing == {k \in latest : \A i \in DOMAIN file : file[i] # <<due[k]>>}
<1>1. /\ due \in Seq(Nat) /\ file \in Seq(Line) /\ DOMAIN due = 1..Len(due) /\ Len(due) \in Nat
      /\ DOMAIN file = 1..Len(file) /\ Len(file) \in Nat /\ IsFiniteSet(DOMAIN file) /\ IsFiniteSet(DOMAIN due)
      /\ Cardinality(DOMAIN file) = Len(file) /\ Cardinality(DOMAIN due) = Len(due)
  <2>1. /\ due \in Seq(Nat) /\ file \in Seq(Line) /\ DOMAIN due = 1..Len(due) /\ Len(due) \in Nat
        /\ DOMAIN file = 1..Len(file) /\ Len(file) \in Nat
    BY DEF Shape
  <2>2. \A a \in Nat : IsFiniteSet(1..a) /\ Cardinality(1..a) = a
    <3> SUFFICES ASSUME NEW a \in Nat PROVE IsFiniteSet(1..a) /\ Cardinality(1..a) = a
      OBVIOUS
    <3>1. IsFiniteSet(1..a) /\ Cardinality(1..a) = IF 1 > a THEN 0 ELSE a - 1 + 1
      BY FS_Interval
    <3> QED BY <3>1
  <2> QED BY <2>1, <2>2
<1>2. IsFiniteSet(missing) /\ Cardinality(missing) \in Nat /\ IsFiniteSet(latest) /\ Cardinality(latest) \in Nat
  <2>1. IsFiniteSet(latest) /\ missing \in SUBSET latest
    BY <1>1, FS_Subset
  <2> HIDE DEF missing
  <2> QED BY <2>1, FS_Subset, FS_CardinalityType
<1>3. /\ c \in 0..Len(due) /\ IsFiniteSet(void) /\ Cardinality(void) \in Nat
      /\ c # 0 => n > 0 /\ Len(file) >= n
  BY FS_CardinalityType DEF Loss
<1>4. PICK r \in {0, 1} : r = AtRisk(file, due, open, c)
  BY OthersAreCounted
<1>5. /\ Cardinality(Others(file, due, c)) + r <= m
      /\ Cardinality(void) + (IF open THEN 1 ELSE 0) + r <= 2 * m
  BY <1>4 DEF Loss, Cheap
<1>6. Cardinality(void) <= 2 * m /\ Cardinality(Others(file, due, c)) <= m
  BY <1>3, <1>5, OthersAreCounted
<1>7. CASE \A k \in latest : k > c
  <2> DEFINE f == [k \in missing |-> due[k]]
  <2>1. \A k \in missing : due[k] \in void
    BY <1>7 DEF Loss, Accounted
  <2>2. \A k, l \in missing : due[k] = due[l] => k = l
    <3> SUFFICES ASSUME NEW k \in DOMAIN due, NEW l \in DOMAIN due, due[k] = due[l] PROVE k = l
      OBVIOUS
    <3>1. due[k] \in Nat /\ due[l] \in Nat
      BY <1>1
    <3>2. ~(k < l) /\ ~(l < k)
      BY <3>1 DEF Shape, Increasing
    <3> QED BY <1>1, <3>2
  <2> HIDE DEF missing
  <2>3. f \in [missing -> void]
    BY <2>1
  <2>4. f \in Injection(missing, void)
    BY <2>2, <2>3 DEF Injection, IsInjective
  <2>5. Cardinality(missing) <= Cardinality(void)
    BY <1>3, <2>4, FS_Injection
  <2>6. Cardinality(missing) <= 2 * m
    BY <1>2, <1>3, <1>6, <2>5
  <2> QED BY <1>2, <2>6 DEF missing, Missing
<1>8. CASE ~(\A k \in latest : k > c)
  <2> DEFINE fine == DOMAIN file \ Others(file, due, c)
             there == {k \in latest : \E i \in DOMAIN file : file[i] = <<due[k]>>}
  <2>1. c # 0 /\ n > 0 /\ Len(file) >= n
    BY <1>1, <1>3, <1>8
  <2>2. \A k \in DOMAIN due : k > c => k \in latest
    BY <1>1, <1>3, <1>8
  <2>3. Cardinality(latest) <= n
    <3>1. CASE Len(due) <= n
      <4>1. latest = DOMAIN due
        BY <3>1
      <4>2. Cardinality(latest) = Len(due)
        BY <1>1, <4>1
      <4> QED BY <3>1, <4>2
    <3>2. CASE ~(Len(due) <= n)
      <4>1. latest = (Len(due) - n + 1)..Len(due) /\ Len(due) - n + 1 \in Int /\ Len(due) \in Int
        BY <1>1, <2>1, <3>2
      <4>2. Cardinality(latest) = IF Len(due) - n + 1 > Len(due) THEN 0 ELSE Len(due) - (Len(due) - n + 1) + 1
        BY <4>1, FS_Interval
      <4> QED BY <1>1, <2>1, <4>2
    <3> QED BY <3>1, <3>2
  <2>4. IsFiniteSet(there) /\ Cardinality(there) \in Nat /\ there \in SUBSET latest /\ missing = latest \ there
    <3>1. there \in SUBSET latest /\ missing = latest \ there
      OBVIOUS
    <3> HIDE DEF there, missing
    <3> QED BY <1>2, <3>1, FS_Subset, FS_CardinalityType
  <2>5. IsFiniteSet(fine) /\ Cardinality(fine) = Len(file) - Cardinality(Others(file, due, c)) /\ Cardinality(fine) \in Nat
    <3>1. Others(file, due, c) \in SUBSET DOMAIN file
      BY DEF Others
    <3>2. DOMAIN file \cap Others(file, due, c) = Others(file, due, c)
      BY <3>1
    <3> DEFINE whole == DOMAIN file  few == Others(file, due, c)
    <3>3. fine = whole \ few /\ whole \cap few = few /\ IsFiniteSet(whole) /\ Cardinality(whole) = Len(file)
      BY <1>1, <3>2
    <3>4. Cardinality(few) \in Nat
      BY OthersAreCounted
    <3> HIDE DEF whole, few, fine
    <3>5. /\ IsFiniteSet(whole \ few)
          /\ Cardinality(whole \ few) = Cardinality(whole) - Cardinality(whole \cap few)
      BY <3>3, FS_Difference
    <3>6. Cardinality(fine) \in Nat
      BY <3>3, <3>5, FS_CardinalityType
    <3> QED BY <3>3, <3>5, <3>6 DEF few
  <2>6. \A i \in fine : \E k \in there : file[i] = <<due[k]>>
    BY <2>2 DEF Others, Stands
  <2> DEFINE f == [i \in fine |-> CHOOSE k \in there : file[i] = <<due[k]>>]
  <2>7. f \in [fine -> there] /\ \A i \in fine : file[i] = <<due[f[i]]>>
    <3> HIDE DEF fine, there
    <3> QED BY <2>6
  <2>8. \A i, j \in DOMAIN file, k \in DOMAIN due : file[i] = <<due[k]>> /\ file[j] = <<due[k]>> => i = j
    <3> SUFFICES ASSUME NEW i \in DOMAIN file, NEW j \in DOMAIN file, NEW d \in Nat, d # 0,
                        file[i] = <<d>>, file[j] = <<d>>
                 PROVE  i = j
      <4>1. \A k \in DOMAIN due : due[k] \in Nat /\ due[k] # 0
        <5>1. \A k \in DOMAIN due : due[k] \in Nat
          BY <1>1
        <5> QED BY <5>1 DEF Shape
      <4> QED BY <4>1
    <3>1. 1 \in DOMAIN file[i] /\ 1 \in DOMAIN file[j] /\ file[i][1] = d /\ file[j][1] = d
      <4>1. \A x : 1 \in DOMAIN <<x>> /\ <<x>>[1] = x
        OBVIOUS
      <4> QED BY <4>1
    <3>2. ~(i < j) /\ ~(j < i)
      <4>1. (i < j => d < d) /\ (j < i => d < d)
        BY <3>1 DEF Shape, LinesInOrder
      <4> QED BY <4>1
    <3> QED BY <1>1, <3>2
  <2>9. \A i, j \in fine : f[i] = f[j] => i = j
    <3> SUFFICES ASSUME NEW i \in fine, NEW j \in fine, f[i] = f[j] PROVE i = j
      OBVIOUS
    <3>1. f[i] \in DOMAIN due /\ file[i] = <<due[f[i]]>> /\ file[j] = <<due[f[i]]>> /\ i \in DOMAIN file /\ j \in DOMAIN file
      BY <2>7
    <3> HIDE DEF f
    <3> QED BY <2>8, <3>1
  <2> HIDE DEF fine, there, f
  <2>10. f \in Injection(fine, there)
    BY <2>7, <2>9 DEF Injection, IsInjective
  <2>11. Cardinality(fine) <= Cardinality(there)
    BY <2>4, <2>10, FS_Injection
  <2>12. Cardinality(missing) = Cardinality(latest) - Cardinality(there)
    <3>1. latest \cap there = there
      BY <2>4
    <3> QED BY <1>2, <2>4, <3>1, FS_Difference
  <2>13. Cardinality(missing) <= m
    <3> HIDE DEF missing
    <3>1. PICK a \in Nat : a = Cardinality(fine)
      BY <2>5
    <3>2. PICK b \in Nat : b = Cardinality(there)
      BY <2>4
    <3>3. PICK o \in Nat : o = Cardinality(Others(file, due, c))
      BY OthersAreCounted
    <3>4. PICK l \in Nat : l = Cardinality(latest)
      BY <1>2
    <3>5. PICK s \in Nat : s = Len(file)
      BY <1>1
    <3>6. a = s - o /\ a <= b /\ l <= n /\ n <= s /\ o <= m
      BY <1>6, <2>1, <2>3, <2>5, <2>11, <3>1, <3>2, <3>3, <3>4, <3>5
    <3>7. Cardinality(missing) = l - b
      BY <2>12, <3>2, <3>4
    <3>8. l - b <= m
      BY <3>6
    <3> QED BY <3>7, <3>8
  <2>14. Cardinality(missing) <= 2 * m
    BY <1>2, <2>13
  <2> QED BY <1>2, <2>14 DEF Missing
<1> QED BY <1>7, <1>8

-----------------------------------------------------------------------------
(* The types.                                                              *)
LEMMA KeptOnes ==
  ASSUME NEW file \in Seq(Line), keep \in Nat, Len(file) > keep
  PROVE  /\ KeptLines(file) \in Seq(Line) /\ Len(KeptLines(file)) = keep
         /\ \A i \in 1..keep : KeptLines(file)[i] = file[i + (Len(file) - keep)]
<1>1. keep <= Len(file)
  OBVIOUS
<1> QED BY <1>1, LastOnes DEF KeptLines

LEMMA TextWritten ==
  ASSUME JournalTypes, NEW x \in Nat
  PROVE  /\ WithText(x) \in Seq(Line) /\ Len(WithText(x)) > 0
         /\ ~lineOpen => WithText(x) = Append(lines, <<x>>)
         /\ lineOpen => Len(lines) > 0 /\ WithText(x) = [lines EXCEPT ![Len(lines)] = Append(@, x)]
<1>1. lines \in Seq(Line) /\ lineOpen \in BOOLEAN /\ (lineOpen => Len(lines) > 0) /\ <<x>> \in Line
  BY LineFacts DEF JournalTypes
<1>2. CASE ~lineOpen
  <2>1. WithText(x) = Append(lines, <<x>>)
    BY <1>2 DEF WithText
  <2> QED BY <1>1, <1>2, <2>1, FileAppended
<1>3. CASE lineOpen
  <2>1. WithText(x) = [lines EXCEPT ![Len(lines)] = Append(@, x)]
    BY <1>3 DEF WithText
  <2> QED BY <1>1, <1>3, <2>1, FileJoined
<1> QED BY <1>1, <1>2, <1>3

LEMMA JournalTypesKept ==
  ASSUME JournalTypes, JournalNext
  PROVE  JournalTypes'
<1>1. /\ keep \in Nat /\ lastEntry \in Nat /\ mishaps \in Nat /\ wiped \in BOOLEAN /\ lineOpen \in BOOLEAN
      /\ lines \in Seq(Line) /\ inHand \in Seq(Line) /\ entered \in Seq(Nat)
      /\ writing = [entry |-> writing.entry, at |-> writing.at] /\ writing.at \in JournalSteps
  BY DEF JournalTypes
<1>0. \A m \in Nat : m + 1 \in Nat
  OBVIOUS
<1>2. CASE BeginEntry
  <2>1. writing' = [entry |-> lastEntry + 1, at |-> "text"] /\ lastEntry' = lastEntry + 1
    BY <1>2 DEF BeginEntry
  <2>2. writing'.entry = lastEntry' /\ writing'.at = "text" /\ lastEntry' \in Nat /\ lastEntry' > 0
    BY <1>1, <2>1
  <2> QED BY <1>1, <1>2, <2>1, <2>2 DEF BeginEntry, JournalTypes, JournalSteps
<1>3. ASSUME NEW s, writing.at # "none", writing' = [writing EXCEPT !.at = s]
      PROVE  /\ writing' = [entry |-> lastEntry, at |-> s] /\ writing'.entry = lastEntry /\ writing'.at = s
             /\ lastEntry > 0
  BY <1>3 DEF JournalTypes
<1>4. CASE WriteText
  <2>1. writing.at = "text" /\ writing.at # "none" /\ writing.entry = lastEntry
    BY <1>4 DEF WriteText, JournalTypes
  <2>2. writing' = [entry |-> lastEntry, at |-> "end of line"] /\ writing'.entry = lastEntry /\ writing'.at = "end of line"
        /\ lastEntry > 0
    BY <1>3, <1>4, <2>1 DEF WriteText
  <2>3. lines' = WithText(lastEntry) /\ lines' \in Seq(Line) /\ Len(lines') > 0
    BY <1>1, <1>4, <2>1, TextWritten DEF WriteText
  <2> QED BY <1>1, <1>4, <2>2, <2>3 DEF WriteText, JournalTypes, JournalSteps
<1>5. CASE WriteEnd
  <2>1. writing.at # "none"
    BY <1>5 DEF WriteEnd
  <2>2. writing' = [entry |-> lastEntry, at |-> "written"] /\ writing'.entry = lastEntry /\ writing'.at = "written"
        /\ lastEntry > 0
    BY <1>3, <1>5, <2>1 DEF WriteEnd
  <2> QED BY <1>1, <1>5, <2>2 DEF WriteEnd, JournalTypes, JournalSteps
<1>6. CASE WriteStops
  <2>1. writing.at # "none"
    BY <1>6 DEF WriteStops
  <2>2. writing' = [entry |-> lastEntry, at |-> "written"] /\ writing'.entry = lastEntry /\ writing'.at = "written"
        /\ lastEntry > 0
    BY <1>3, <1>6, <2>1 DEF WriteStops
  <2>3. lines' \in Seq(Line) /\ lineOpen' \in BOOLEAN /\ (lineOpen' => Len(lines') > 0)
    <3>1. CASE lines' = WithText(0) /\ lineOpen' = TRUE
      BY <3>1, TextWritten
    <3>2. CASE UNCHANGED <<lines, lineOpen>>
      BY <1>1, <3>2 DEF JournalTypes
    <3> QED BY <1>6, <3>1, <3>2 DEF WriteStops
  <2>4. /\ keep' = keep /\ lastEntry' = lastEntry /\ mishaps' = mishaps + 1 /\ wiped' = wiped
        /\ inHand' = inHand /\ entered' = entered
    BY <1>6, Zenon DEF WriteStops
  <2>9. mishaps' \in Nat
    BY <1>0, <1>1, <2>4
  <2> QED BY <1>1, <2>2, <2>3, <2>4, <2>9 DEF JournalTypes, JournalSteps
<1>7. CASE TrimToLast
  <2>1. writing.at # "none"
    BY <1>7 DEF TrimToLast
  <2>2. writing' = [entry |-> lastEntry, at |-> "truncate"] /\ writing'.entry = lastEntry /\ writing'.at = "truncate"
        /\ lastEntry > 0
    BY <1>3, <1>7, <2>1 DEF TrimToLast
  <2>3. inHand' = KeptLines(lines) /\ KeptLines(lines)' = KeptLines(lines) /\ KeptLines(lines) \in Seq(Line)
    BY <1>1, <1>7, KeptOnes DEF TrimToLast, KeptLines
  <2> QED BY <1>1, <1>7, <2>2, <2>3 DEF TrimToLast, JournalTypes, JournalSteps
<1>8. CASE Truncate
  <2>1. writing.at # "none"
    BY <1>8 DEF Truncate
  <2>2. writing' = [entry |-> lastEntry, at |-> "write back"] /\ writing'.entry = lastEntry /\ writing'.at = "write back"
        /\ lastEntry > 0
    BY <1>3, <1>8, <2>1 DEF Truncate
  <2>3. << >> \in Seq(Line)
    OBVIOUS
  <2>4. keep > 0
    BY <1>8 DEF Truncate, JournalTypes
  <2> QED BY <1>1, <1>8, <2>2, <2>3, <2>4 DEF Truncate, JournalTypes, JournalSteps
<1>9. ASSUME Returns
      PROVE  /\ writing' = [entry |-> 0, at |-> "none"] /\ writing'.entry = 0 /\ writing'.at = "none"
             /\ inHand' = << >> /\ << >> \in Seq(Line)
  <2>1. << >> \in Seq(Line)
    OBVIOUS
  <2> QED BY <1>9, <2>1 DEF Returns, NotWriting
<1>10. ASSUME Returns, writing.at # "none" PROVE entered' \in Seq(Nat)
  <2>1. writing.entry \in Nat
    BY <1>1, <1>10 DEF JournalTypes
  <2> QED BY <1>1, <1>10, <2>1 DEF Returns
<1>11. CASE WriteBack
  <2>1. Returns /\ writing.at # "none"
    BY <1>11 DEF WriteBack
  <2> QED BY <1>1, <1>9, <1>10, <1>11, <2>1 DEF WriteBack, JournalTypes, JournalSteps
<1>12. CASE WriteBackFails
  <2>1. Returns /\ writing.at # "none"
    BY <1>12 DEF WriteBackFails
  <2>2. /\ keep' = keep /\ lastEntry' = lastEntry /\ mishaps' = mishaps + 1
        /\ lines' = lines /\ lineOpen' = lineOpen
    BY <1>12, Zenon DEF WriteBackFails
  <2>9. mishaps' \in Nat
    BY <1>0, <1>1, <2>2
  <2>3. wiped' \in BOOLEAN
    BY <1>12 DEF WriteBackFails
  <2>4. lineOpen => Len(lines) > 0
    BY DEF JournalTypes
  <2> QED BY <1>1, <1>9, <1>10, <2>1, <2>2, <2>3, <2>4, <2>9 DEF JournalTypes, JournalSteps
<1>13. CASE NothingToTrim
  <2>1. Returns /\ writing.at # "none"
    BY <1>13 DEF NothingToTrim
  <2> QED BY <1>1, <1>9, <1>10, <1>13, <2>1 DEF NothingToTrim, JournalTypes, JournalSteps
<1>14. CASE Restarts
  <2>1. writing' = [entry |-> 0, at |-> "none"] /\ writing'.entry = 0 /\ writing'.at = "none" /\ inHand' = << >>
    BY <1>14 DEF Restarts, NotWriting
  <2>2. /\ keep' = keep /\ lastEntry' = lastEntry /\ mishaps' = mishaps + 1
        /\ lines' = lines /\ lineOpen' = lineOpen /\ entered' = entered
    BY <1>14, Zenon DEF Restarts
  <2>9. mishaps' \in Nat
    BY <1>0, <1>1, <2>2
  <2>3. wiped' \in BOOLEAN
    BY <1>14 DEF Restarts
  <2>4. lineOpen => Len(lines) > 0
    BY DEF JournalTypes
  <2>5. << >> \in Seq(Line)
    OBVIOUS
  <2> QED BY <1>1, <2>1, <2>2, <2>3, <2>4, <2>5, <2>9 DEF JournalTypes, JournalSteps
<1> QED BY <1>2, <1>4, <1>5, <1>6, <1>7, <1>8, <1>11, <1>12, <1>13, <1>14 DEF JournalNext

-----------------------------------------------------------------------------
(* The order.                                                              *)
LEMMA TextInOrder ==
  ASSUME JournalTypes, LinesInOrder(lines), NEW e \in Nat, e > 0, LinesUpTo(lines, e - 1), NEW x \in {0, e}
  PROVE  LinesInOrder(WithText(x)) /\ LinesUpTo(WithText(x), e)
<1> DEFINE file == WithText(x)
<1>1. lines \in Seq(Line) /\ DOMAIN lines = 1..Len(lines) /\ Len(lines) \in Nat /\ x \in Nat
  <2>1. lines \in Seq(Line)
    BY DEF JournalTypes
  <2> QED BY <2>1
<1>2. \A i \in DOMAIN lines : lines[i] \in Seq(Nat) /\ \A a \in DOMAIN lines[i] : lines[i][a] \in Nat /\ lines[i][a] < e
  <2> SUFFICES ASSUME NEW i \in DOMAIN lines
               PROVE  lines[i] \in Seq(Nat) /\ \A a \in DOMAIN lines[i] : lines[i][a] \in Nat /\ lines[i][a] < e
    OBVIOUS
  <2>1. lines[i] \in Line
    BY <1>1
  <2>2. lines[i] \in Seq(Nat)
    BY <2>1 DEF Line
  <2>3. \A a \in DOMAIN lines[i] : lines[i][a] \in Nat /\ lines[i][a] <= e - 1
    BY <2>2 DEF LinesUpTo
  <2> QED BY <2>2, <2>3
(* A place of the new file holds what it held, or its last one more or     *)
(* only x.                                                                 *)
<1>3. PICK n \in Nat : /\ DOMAIN file = 1..n
                       /\ \A i \in 1..n : i # n => i \in DOMAIN lines /\ file[i] = lines[i]
                       /\ \A a \in DOMAIN file[n] : file[n][a] = x \/ (n \in DOMAIN lines /\ a \in DOMAIN lines[n] /\ file[n][a] = lines[n][a])
  <2>1. CASE ~lineOpen
    <3>1. file = Append(lines, <<x>>) /\ <<x>> \in Line
      BY <1>1, <2>1, TextWritten, LineFacts
    <3>2. \A a \in DOMAIN <<x>> : <<x>>[a] = x
      OBVIOUS
    <3> HIDE DEF file
    <3>3. /\ DOMAIN file = 1..(Len(lines) + 1) /\ file[Len(lines) + 1] = <<x>>
          /\ \A i \in 1..(Len(lines) + 1) : i # Len(lines) + 1 => i \in DOMAIN lines /\ file[i] = lines[i]
      BY <1>1, <3>1, FileAppended
    <3>4. \A a \in DOMAIN file[Len(lines) + 1] : file[Len(lines) + 1][a] = x
      BY <3>2, <3>3
    <3>5. Len(lines) + 1 \in Nat
      BY <1>1
    <3> QED BY <3>3, <3>4, <3>5
  <2>2. CASE lineOpen
    <3>1. Len(lines) > 0 /\ file = [lines EXCEPT ![Len(lines)] = Append(@, x)]
      BY <1>1, <2>2, TextWritten
    <3>2. /\ DOMAIN file = 1..Len(lines) /\ Len(lines) \in DOMAIN lines
          /\ \A i \in 1..Len(lines) : i # Len(lines) => i \in DOMAIN lines /\ file[i] = lines[i]
          /\ file[Len(lines)] = Append(lines[Len(lines)], x)
      BY <1>1, <3>1, FileJoined
    <3>3. \A l \in Seq(Nat) : \A a \in DOMAIN Append(l, x) : Append(l, x)[a] = x \/ (a \in DOMAIN l /\ Append(l, x)[a] = l[a])
      BY <1>1
    <3>4. lines[Len(lines)] \in Seq(Nat)
      BY <1>2, <3>2
    <3>5. \A a \in DOMAIN Append(lines[Len(lines)], x) :
             Append(lines[Len(lines)], x)[a] = x
             \/ (a \in DOMAIN lines[Len(lines)] /\ Append(lines[Len(lines)], x)[a] = lines[Len(lines)][a])
      BY <3>3, <3>4
    <3> HIDE DEF file
    <3> QED BY <1>1, <3>2, <3>5
  <2> QED BY <2>1, <2>2 DEF JournalTypes
<1> HIDE DEF file
<1>4. \A i \in DOMAIN file : \A a \in DOMAIN file[i] :
         file[i][a] = x \/ (i \in DOMAIN lines /\ a \in DOMAIN lines[i] /\ file[i][a] = lines[i][a])
  BY <1>3
<1>5. LinesUpTo(file, e)
  <2> SUFFICES ASSUME NEW i \in DOMAIN file, NEW a \in DOMAIN file[i] PROVE file[i][a] <= e
    BY DEF LinesUpTo
  <2>1. CASE file[i][a] = x
    BY <2>1
  <2>2. CASE i \in DOMAIN lines /\ a \in DOMAIN lines[i] /\ file[i][a] = lines[i][a]
    BY <1>2, <2>2
  <2> QED BY <1>4, <2>1, <2>2
<1>6. LinesInOrder(file)
  <2> SUFFICES ASSUME NEW i \in DOMAIN file, NEW j \in DOMAIN file, i < j,
                      NEW a \in DOMAIN file[i], NEW b \in DOMAIN file[j]
               PROVE  file[i][a] = 0 \/ file[j][b] = 0 \/ file[i][a] < file[j][b]
    BY DEF LinesInOrder
  <2>1. i \in DOMAIN lines /\ file[i] = lines[i] /\ a \in DOMAIN lines[i]
    BY <1>3
  <2>2. lines[i][a] < e /\ lines[i][a] \in Nat
    BY <1>2, <2>1
  <2>3. CASE file[j][b] = x
    BY <2>1, <2>2, <2>3
  <2>4. CASE j \in DOMAIN lines /\ b \in DOMAIN lines[j] /\ file[j][b] = lines[j][b]
    <3>1. lines[i][a] = 0 \/ lines[j][b] = 0 \/ lines[i][a] < lines[j][b]
      BY <2>1, <2>4 DEF LinesInOrder
    <3> QED BY <2>1, <2>4, <3>1
  <2> QED BY <1>4, <2>3, <2>4
<1> QED BY <1>5, <1>6 DEF file

LEMMA KeptInOrder ==
  ASSUME NEW file \in Seq(Line), keep \in Nat, Len(file) > keep, LinesInOrder(file), NEW e, LinesUpTo(file, e)
  PROVE  LinesInOrder(KeptLines(file)) /\ LinesUpTo(KeptLines(file), e)
<1> DEFINE kept == KeptLines(file)
<1>1. /\ kept \in Seq(Line) /\ DOMAIN kept = 1..keep /\ DOMAIN file = 1..Len(file)
      /\ \A i \in 1..keep : kept[i] = file[i + (Len(file) - keep)]
  BY KeptOnes
<1>2. PICK g \in Nat : g = Len(file) - keep
  OBVIOUS
<1>3. /\ \A i \in 1..keep : i + g \in DOMAIN file /\ kept[i] = file[i + g]
      /\ \A i, j \in 1..keep : i < j => i + g < j + g
  BY <1>1, <1>2
<1> HIDE DEF kept
<1>4. LinesInOrder(kept)
  <2> SUFFICES ASSUME NEW i \in 1..keep, NEW j \in 1..keep, i < j, NEW a \in DOMAIN kept[i], NEW b \in DOMAIN kept[j]
               PROVE  kept[i][a] = 0 \/ kept[j][b] = 0 \/ kept[i][a] < kept[j][b]
    BY <1>1 DEF LinesInOrder
  <2>1. /\ i + g \in DOMAIN file /\ j + g \in DOMAIN file /\ i + g < j + g
        /\ kept[i] = file[i + g] /\ kept[j] = file[j + g]
    BY <1>3
  <2>2. PICK k \in DOMAIN file, l \in DOMAIN file : k < l /\ kept[i] = file[k] /\ kept[j] = file[l]
    BY <2>1
  <2> QED BY <2>2 DEF LinesInOrder
<1>5. LinesUpTo(kept, e)
  BY <1>1, <1>3 DEF LinesUpTo
<1> QED BY <1>4, <1>5 DEF kept

(* The order of a file with nothing but numbers up to e is no matter of    *)
(* how far a record is.                                                    *)
LEMMA UpToMore ==
  ASSUME NEW file \in Seq(Line), NEW e \in Nat, LinesUpTo(file, e) \/ (e > 0 /\ LinesUpTo(file, e - 1))
  PROVE  LinesUpTo(file, e) /\ LinesUpTo(file, (e + 1) - 1)
<1> SUFFICES ASSUME NEW i \in DOMAIN file, NEW a \in DOMAIN file[i] PROVE file[i][a] <= e
  <2>1. (e + 1) - 1 = e
    OBVIOUS
  <2> QED BY <2>1 DEF LinesUpTo
<1>1. file[i] \in Line
  OBVIOUS
<1>2. file[i][a] \in Nat
  BY <1>1 DEF Line
<1>3. file[i][a] <= e \/ (e > 0 /\ file[i][a] <= e - 1)
  BY DEF LinesUpTo
<1> QED BY <1>2, <1>3

LEMMA EnteredAppended ==
  ASSUME NEW s \in Seq(Nat), NEW e \in Nat, e > 0, Increasing(s),
         \A i \in DOMAIN s : s[i] > 0 /\ s[i] <= e - 1
  PROVE  Increasing(Append(s, e)) /\ \A i \in DOMAIN Append(s, e) : Append(s, e)[i] > 0 /\ Append(s, e)[i] <= e
<1> DEFINE all == Append(s, e)
<1>1. /\ DOMAIN s = 1..Len(s) /\ DOMAIN all = 1..(Len(s) + 1) /\ Len(s) \in Nat
      /\ \A k \in 1..Len(s) : all[k] = s[k] /\ k \in 1..(Len(s) + 1)
      /\ all[Len(s) + 1] = e
      /\ \A k \in 1..(Len(s) + 1) : k \in 1..Len(s) \/ k = Len(s) + 1
  BY DueAppended
<1> HIDE DEF all
<1>2. \A k \in 1..Len(s) : all[k] \in Nat /\ all[k] > 0 /\ all[k] < e
  BY <1>1
<1>3. Increasing(all)
  <2> SUFFICES ASSUME NEW i \in 1..(Len(s) + 1), NEW j \in 1..(Len(s) + 1), i < j PROVE all[i] < all[j]
    BY <1>1 DEF Increasing
  <2>1. i \in 1..Len(s)
    BY <1>1
  <2>2. CASE j \in 1..Len(s)
    BY <1>1, <2>1, <2>2 DEF Increasing
  <2>3. CASE j = Len(s) + 1
    BY <1>1, <1>2, <2>1, <2>3
  <2> QED BY <1>1, <2>2, <2>3
<1>4. \A i \in 1..(Len(s) + 1) : all[i] > 0 /\ all[i] <= e
  <2> SUFFICES ASSUME NEW i \in 1..(Len(s) + 1) PROVE all[i] > 0 /\ all[i] <= e
    OBVIOUS
  <2>1. CASE i \in 1..Len(s)
    BY <1>2, <2>1
  <2>2. CASE i = Len(s) + 1
    BY <1>1, <2>2
  <2> QED BY <1>1, <2>1, <2>2
<1> QED BY <1>1, <1>3, <1>4 DEF all

LEMMA OrderKept ==
  ASSUME JournalTypes, OrderInv, JournalNext
  PROVE  OrderInv'
<1> DEFINE NumbersUpTo(e) == \A i \in DOMAIN entered : entered[i] > 0 /\ entered[i] <= e
<1>1. /\ lastEntry \in Nat /\ lines \in Seq(Line) /\ inHand \in Seq(Line) /\ entered \in Seq(Nat)
      /\ keep \in Nat /\ (lastEntry + 1) - 1 = lastEntry /\ lastEntry + 1 \in Nat
      /\ writing.at # "none" => writing.entry = lastEntry /\ lastEntry > 0
      /\ writing.at = "truncate" => Len(lines) > keep /\ inHand = KeptLines(lines)
  <2>1. \A e \in Nat : (e + 1) - 1 = e /\ e + 1 \in Nat
    OBVIOUS
  <2>2. lastEntry \in Nat
    BY DEF JournalTypes
  <2> QED BY <2>1, <2>2, Zenon DEF JournalTypes
<1>2. /\ LinesInOrder(lines) /\ LinesInOrder(inHand) /\ LinesUpTo(inHand, lastEntry) /\ Increasing(entered)
      /\ writing.at = "text" => LinesUpTo(lines, lastEntry - 1)
      /\ writing.at # "text" => LinesUpTo(lines, lastEntry)
      /\ writing.at = "none" => NumbersUpTo(lastEntry)
      /\ writing.at # "none" => NumbersUpTo(lastEntry - 1)
  BY DEF OrderInv
<1>3. LinesUpTo(lines, lastEntry)
  BY <1>1, <1>2, UpToMore
<1>4. \A i \in DOMAIN entered : entered[i] \in Nat
  BY <1>1
<1>5. NumbersUpTo(lastEntry) /\ NumbersUpTo((lastEntry + 1) - 1)
  <2> SUFFICES ASSUME NEW i \in DOMAIN entered PROVE entered[i] > 0 /\ entered[i] <= lastEntry
    BY <1>1
  <2>1. entered[i] > 0 /\ (entered[i] <= lastEntry \/ entered[i] <= lastEntry - 1)
    BY <1>2
  <2> QED BY <1>1, <1>4, <2>1
<1>6. LinesInOrder(<< >>) /\ \A e : LinesUpTo(<< >>, e)
  BY DEF LinesInOrder, LinesUpTo
<1>7. CASE BeginEntry
  <2>1. writing' = [entry |-> lastEntry + 1, at |-> "text"] /\ lastEntry' = lastEntry + 1
    BY <1>7 DEF BeginEntry
  <2>2. writing'.at = "text"
    BY <2>1
  <2>3. LinesUpTo(lines, (lastEntry + 1) - 1) /\ LinesUpTo(inHand, lastEntry + 1)
    <3>1. LinesUpTo(inHand, ((lastEntry + 1) - 1)) /\ lastEntry + 1 > 0
      BY <1>1, <1>2
    <3> QED BY <1>1, <1>3, <3>1, UpToMore
  <2>4. lines' = lines /\ inHand' = inHand /\ entered' = entered
    BY <1>7 DEF BeginEntry
  <2> QED BY <1>2, <1>5, <2>1, <2>2, <2>3, <2>4 DEF OrderInv
<1>8. ASSUME lastEntry' = lastEntry, entered' = entered, writing'.at # "text", writing.at # "none",
             lines' \in Seq(Line), LinesInOrder(lines'), LinesUpTo(lines', lastEntry), LinesInOrder(inHand'), LinesUpTo(inHand', lastEntry)
      PROVE  OrderInv'
  <2>1. NumbersUpTo(lastEntry - 1)
    BY <1>2, <1>8
  <2> QED BY <1>2, <1>5, <1>8, <2>1 DEF OrderInv
<1>9. ASSUME NEW s, writing' = [writing EXCEPT !.at = s]
      PROVE  writing'.at = s
  BY <1>9 DEF JournalTypes
<1>10. CASE WriteText
  <2>1. writing.at = "text" /\ writing' = [writing EXCEPT !.at = "end of line"] /\ lines' = WithText(lastEntry)
    BY <1>1, <1>10 DEF WriteText
  <2>2. LinesInOrder(lines') /\ LinesUpTo(lines', lastEntry) /\ lines' \in Seq(Line)
    BY <1>1, <1>2, <2>1, TextInOrder, TextWritten
  <2>3. writing'.at = "end of line"
    BY <1>9, <2>1
  <2> QED BY <1>2, <1>8, <1>10, <2>1, <2>2, <2>3 DEF WriteText
<1>11. CASE WriteEnd
  <2>1. writing.at = "end of line" /\ writing'.at = "written"
    BY <1>9, <1>11 DEF WriteEnd
  <2> QED BY <1>1, <1>2, <1>3, <1>8, <1>11, <2>1 DEF WriteEnd
<1>12. CASE WriteStops
  <2>1. writing.at # "none" /\ writing'.at = "written"
    BY <1>9, <1>12 DEF WriteStops
  <2>2. LinesInOrder(lines') /\ LinesUpTo(lines', lastEntry) /\ lines' \in Seq(Line)
    <3>1. CASE writing.at = "text" /\ lines' = WithText(0)
      BY <1>1, <1>2, <3>1, TextInOrder, TextWritten
    <3>2. CASE lines' = lines
      BY <1>1, <1>2, <1>3, <3>2
    <3> QED BY <1>12, <3>1, <3>2 DEF WriteStops
  <2> QED BY <1>2, <1>8, <1>12, <2>1, <2>2 DEF WriteStops
<1>13. CASE TrimToLast
  <2>1. writing.at = "written" /\ writing'.at = "truncate" /\ inHand' = KeptLines(lines) /\ Len(lines) > keep
    BY <1>9, <1>13 DEF TrimToLast
  <2>2. LinesInOrder(inHand') /\ LinesUpTo(inHand', lastEntry)
    BY <1>1, <1>2, <1>3, <2>1, KeptInOrder
  <2> QED BY <1>1, <1>2, <1>3, <1>8, <1>13, <2>1, <2>2 DEF TrimToLast
<1>14. CASE Truncate
  <2>1. writing.at = "truncate" /\ writing'.at = "write back" /\ lines' = << >>
    BY <1>9, <1>14 DEF Truncate
  <2>2. << >> \in Seq(Line)
    OBVIOUS
  <2> QED BY <1>2, <1>6, <1>8, <1>14, <2>1, <2>2 DEF Truncate
<1>15. ASSUME Returns, writing.at # "none", lastEntry' = lastEntry, lines' = lines \/ lines' = inHand
       PROVE  OrderInv'
  <2>1. writing'.at = "none" /\ inHand' = << >> /\ entered' = Append(entered, lastEntry) /\ lastEntry > 0
    BY <1>1, <1>15 DEF Returns, NotWriting
  <2>2. Increasing(entered') /\ \A i \in DOMAIN entered' : entered'[i] > 0 /\ entered'[i] <= lastEntry
    BY <1>1, <1>2, <1>15, <2>1, EnteredAppended
  <2>3. LinesInOrder(lines') /\ LinesUpTo(lines', lastEntry)
    BY <1>2, <1>3, <1>15
  <2> QED BY <1>6, <1>15, <2>1, <2>2, <2>3 DEF OrderInv
<1>16. CASE WriteBack
  BY <1>15, <1>16 DEF WriteBack
<1>17. CASE WriteBackFails
  BY <1>15, <1>17 DEF WriteBackFails
<1>18. CASE NothingToTrim
  BY <1>15, <1>18 DEF NothingToTrim
<1>19. CASE Restarts
  <2>1. writing'.at = "none" /\ inHand' = << >>
    BY <1>19 DEF Restarts, NotWriting
  <2> QED BY <1>2, <1>3, <1>5, <1>6, <1>19, <2>1 DEF OrderInv, Restarts
<1> QED BY <1>7, <1>10, <1>11, <1>12, <1>13, <1>14, <1>16, <1>17, <1>18, <1>19 DEF JournalNext

-----------------------------------------------------------------------------
(* As long as nothing goes wrong.                                          *)
LEMMA LinesOf ==
  ASSUME NEW s \in Seq(Nat)
  PROVE  /\ OnLines(s) \in Seq(Line) /\ Len(OnLines(s)) = Len(s) /\ Len(s) \in Nat
         /\ DOMAIN s = 1..Len(s) /\ DOMAIN OnLines(s) = 1..Len(s)
         /\ \A i \in 1..Len(s) : OnLines(s)[i] = <<s[i]>>
         /\ OnLines(s) = [i \in 1..Len(s) |-> <<s[i]>>]
<1>1. Len(s) \in Nat /\ DOMAIN s = 1..Len(s) /\ \A i \in 1..Len(s) : <<s[i]>> \in Line
  <2>1. Len(s) \in Nat /\ DOMAIN s = 1..Len(s) /\ \A i \in 1..Len(s) : s[i] \in Nat
    OBVIOUS
  <2>2. \A e \in Nat : <<e>> \in Line
    BY LineFacts
  <2> QED BY <2>1, <2>2
<1>2. OnLines(s) = [i \in 1..Len(s) |-> <<s[i]>>]
  BY <1>1 DEF OnLines
<1>3. \A i \in 1..Len(s) : OnLines(s)[i] = <<s[i]>> /\ OnLines(s)[i] \in Line
  BY <1>1, <1>2
<1>4. OnLines(s) \in [1..Len(s) -> Line]
  <2>1. \A n \in Nat : \A f : (f = [i \in 1..n |-> <<s[i]>>] /\ \A i \in 1..n : <<s[i]>> \in Line) => f \in [1..n -> Line]
    OBVIOUS
  <2> QED BY <1>1, <1>2, <2>1
<1>5. \A n \in Nat : \A f \in [1..n -> Line] : f \in Seq(Line) /\ Len(f) = n /\ DOMAIN f = 1..n
  OBVIOUS
<1> QED BY <1>1, <1>2, <1>3, <1>4, <1>5

LEMMA SameLines ==
  ASSUME NEW f \in Seq(Line), NEW g \in Seq(Line), Len(f) = Len(g), \A i \in 1..Len(g) : f[i] = g[i]
  PROVE  f = g
OBVIOUS

LEMMA LineOfOne ==
  ASSUME NEW s \in Seq(Nat), NEW e \in Nat
  PROVE  OnLines(Append(s, e)) = Append(OnLines(s), <<e>>)
<1> DEFINE f == OnLines(Append(s, e))  g == Append(OnLines(s), <<e>>)  n == Len(s)
<1>1. /\ Append(s, e) \in Seq(Nat) /\ Len(Append(s, e)) = n + 1 /\ n \in Nat
      /\ \A k \in 1..n : Append(s, e)[k] = s[k]
      /\ Append(s, e)[n + 1] = e /\ \A k \in 1..(n + 1) : k \in 1..n \/ k = n + 1
  BY DueAppended
<1>2. /\ f \in Seq(Line) /\ Len(f) = n + 1 /\ \A i \in 1..(n + 1) : f[i] = <<Append(s, e)[i]>>
  BY <1>1, LinesOf
<1>3. OnLines(s) \in Seq(Line) /\ Len(OnLines(s)) = n /\ \A i \in 1..n : OnLines(s)[i] = <<s[i]>>
  BY LinesOf
<1>4. /\ g \in Seq(Line) /\ Len(g) = n + 1
      /\ \A i \in 1..n : g[i] = OnLines(s)[i]
      /\ g[n + 1] = <<e>>
  <2> DEFINE o == OnLines(s)  l == <<e>>
  <2>1. l \in Line /\ o \in Seq(Line) /\ Len(o) = n
    BY <1>3, LineFacts
  <2> HIDE DEF o, l, n
  <2>2. /\ Append(o, l) \in Seq(Line) /\ Len(Append(o, l)) = n + 1
        /\ \A i \in 1..n : Append(o, l)[i] = o[i]
        /\ Append(o, l)[n + 1] = l
    BY <2>1, FileAppended
  <2> QED BY <2>2 DEF o, l
<1> HIDE DEF f, g, n
<1>5. \A i \in 1..(n + 1) : f[i] = g[i]
  <2> SUFFICES ASSUME NEW i \in 1..(n + 1) PROVE f[i] = g[i]
    OBVIOUS
  <2>1. CASE i \in 1..n
    <3>1. f[i] = <<s[i]>> /\ g[i] = <<s[i]>>
      BY <1>1, <1>2, <1>3, <1>4, <2>1
    <3> QED BY <3>1
  <2>2. CASE i = n + 1
    BY <1>1, <1>2, <1>4, <2>2
  <2> QED BY <1>1, <2>1, <2>2
<1>6. f = g
  BY <1>2, <1>4, <1>5, SameLines
<1> QED BY <1>6 DEF f, g

(* The last ones of one more.                                              *)
LEMMA LastAreSome ==
  ASSUME NEW s \in Seq(Nat), NEW k \in Nat
  PROVE  /\ Last(s, k) \in Seq(Nat)
         /\ k = 0 \/ Len(s) <= k => Last(s, k) = s
         /\ ~(k = 0 \/ Len(s) <= k) =>
              /\ Last(s, k) = SubSeq(s, Len(s) - k + 1, Len(s)) /\ Len(Last(s, k)) = k
              /\ \A i \in 1..k : Last(s, k)[i] = s[i + (Len(s) - k)]
<1>1. CASE k = 0 \/ Len(s) <= k
  BY <1>1 DEF Last
<1>2. CASE ~(k = 0 \/ Len(s) <= k)
  <2>1. Last(s, k) = SubSeq(s, Len(s) - k + 1, Len(s))
    BY <1>2 DEF Last
  <2>2. k <= Len(s)
    BY <1>2
  <2> QED BY <1>2, <2>1, <2>2, LastOnes
<1> QED BY <1>1, <1>2

LEMMA LastAndOneMore ==
  ASSUME NEW s \in Seq(Nat), NEW e \in Nat, NEW k \in Nat
  PROVE  LET all == Append(Last(s, k), e)
         IN /\ all \in Seq(Nat)
            /\ k = 0 \/ Len(all) <= k => all = Last(Append(s, e), k)
            /\ k > 0 /\ Len(all) > k => /\ Len(Last(Append(s, e), k)) = k
                                        /\ \A i \in 1..k : Last(Append(s, e), k)[i] = all[i + (Len(all) - k)]
<1> DEFINE last == Last(s, k)  all == Append(last, e)  more == Append(s, e)  n == Len(s)
<1>1. /\ more \in Seq(Nat) /\ Len(more) = n + 1 /\ n \in Nat
      /\ \A i \in 1..n : more[i] = s[i]
      /\ more[n + 1] = e
  BY DueAppended
<1>2. /\ last \in Seq(Nat)
      /\ k = 0 \/ n <= k => last = s
      /\ ~(k = 0 \/ n <= k) => /\ Len(last) = k
                               /\ \A i \in 1..k : last[i] = s[i + (n - k)]
  BY LastAreSome
<1>3. /\ all \in Seq(Nat) /\ Len(all) = Len(last) + 1 /\ Len(last) \in Nat
      /\ \A i \in 1..Len(last) : all[i] = last[i]
      /\ all[Len(last) + 1] = e
  BY <1>2, DueAppended
<1>4. /\ k = 0 \/ n + 1 <= k => Last(more, k) = more
      /\ ~(k = 0 \/ n + 1 <= k) => /\ Len(Last(more, k)) = k
                                   /\ \A i \in 1..k : Last(more, k)[i] = more[i + ((n + 1) - k)]
  <2> HIDE DEF more, n
  <2>1. /\ k = 0 \/ Len(more) <= k => Last(more, k) = more
        /\ ~(k = 0 \/ Len(more) <= k) => /\ Len(Last(more, k)) = k
                                          /\ \A i \in 1..k : Last(more, k)[i] = more[i + (Len(more) - k)]
    BY <1>1, LastAreSome
  <2> QED BY <1>1, <2>1
<1>5. last = s => all = more
  OBVIOUS
<1> HIDE DEF last, all, more, n
<1>6. ASSUME k = 0 \/ Len(all) <= k PROVE all = Last(more, k)
  <2>1. k = 0 \/ n + 1 <= k
    <3>1. last = s => Len(last) = n
      BY DEF n
    <3> QED BY <1>1, <1>2, <1>3, <1>6, <3>1
  <2>2. last = s
    BY <1>1, <1>2, <2>1
  <2> QED BY <1>4, <1>5, <2>1, <2>2
<1>7. ASSUME k > 0, Len(all) > k
      PROVE  /\ Len(Last(more, k)) = k
             /\ \A i \in 1..k : Last(more, k)[i] = all[i + (Len(all) - k)]
  <2>0. last = s => Len(last) = n
    BY DEF n
  <2>1. n >= k /\ ~(k = 0 \/ n + 1 <= k)
    BY <1>1, <1>2, <1>3, <1>7, <2>0
  <2>2. CASE n = k
    <3>1. last = s /\ all = more
      BY <1>2, <1>5, <2>2
    <3> QED BY <1>1, <1>4, <2>1, <2>2, <3>1
  <2>3. CASE n > k
    <3>1. ~(k = 0 \/ n <= k) /\ Len(last) = k /\ Len(all) - k = 1 /\ Len(all) = k + 1
      <4>1. ~(k = 0 \/ n <= k)
        BY <1>1, <1>7, <2>3
      <4>2. Len(last) = k
        BY <1>2, <4>1
      <4> QED BY <1>3, <4>1, <4>2
    <3>2. ASSUME NEW i \in 1..k PROVE Last(more, k)[i] = all[i + (Len(all) - k)]
      <4>1. Last(more, k)[i] = more[i + ((n + 1) - k)]
        BY <1>4, <2>1
      <4>2. CASE i = k
        <5>1. i + ((n + 1) - k) = n + 1 /\ i + (Len(all) - k) = Len(last) + 1
          BY <1>1, <3>1, <4>2
        <5> QED BY <1>1, <1>3, <4>1, <5>1
      <4>3. CASE i # k
        <5>1. /\ i + ((n + 1) - k) = (i + 1) + (n - k) /\ i + (Len(all) - k) = i + 1
              /\ i + 1 \in 1..k /\ (i + 1) + (n - k) \in 1..n
          BY <1>1, <2>3, <3>1, <4>3
        <5>2. more[(i + 1) + (n - k)] = s[(i + 1) + (n - k)] /\ last[i + 1] = s[(i + 1) + (n - k)] /\ all[i + 1] = last[i + 1]
          BY <1>1, <1>2, <1>3, <3>1, <5>1
        <5> QED BY <4>1, <5>1, <5>2
      <4> QED BY <4>2, <4>3
    <3> QED BY <1>4, <2>1, <3>2
  <2> QED BY <1>1, <2>1, <2>2, <2>3
<1> QED BY <1>3, <1>6, <1>7 DEF last, all, more, n

LEMMA PlainKept ==
  ASSUME JournalTypes, PlainInv, JournalNext
  PROVE  PlainInv'
<1>0. lastEntry \in Nat /\ entered \in Seq(Nat) /\ keep \in Nat
  BY DEF JournalTypes
<1>1. /\ lastEntry \in Nat /\ entered \in Seq(Nat) /\ keep \in Nat /\ mishaps \in Nat /\ lines \in Seq(Line)
      /\ writing.at # "none" => writing.entry = lastEntry
      /\ writing.at \in {"truncate", "write back"} => keep > 0
      /\ writing.at = "truncate" => Len(lines) > keep /\ inHand = KeptLines(lines)
      /\ writing.at = "write back" => ~lineOpen
  BY DEF JournalTypes
<1>2. SUFFICES ASSUME mishaps' = 0 PROVE PlainInv'
  BY DEF PlainInv
<1>3. ASSUME mishaps' = mishaps
      PROVE  /\ lineOpen => writing.at = "end of line"
             /\ writing.at \in {"none", "text"} => lines = OnLines(Last(entered, keep))
             /\ writing.at \in {"end of line", "written", "truncate"} =>
                  lines = OnLines(Append(Last(entered, keep), lastEntry))
             /\ writing.at = "write back" => inHand = OnLines(Last(Append(entered, lastEntry), keep))
  BY <1>1, <1>2, <1>3 DEF PlainInv
<1>4. mishaps' # mishaps + 1
  <2>1. \A m \in Nat : m + 1 # 0
    OBVIOUS
  <2> QED BY <1>1, <1>2, <2>1
<1> DEFINE last == Last(entered, keep)  all == Append(last, lastEntry)
           more == Append(entered, lastEntry)
<1>5. /\ last \in Seq(Nat) /\ all \in Seq(Nat)
      /\ keep = 0 \/ Len(all) <= keep => all = Last(more, keep)
      /\ keep > 0 /\ Len(all) > keep => /\ Len(Last(more, keep)) = keep
                                        /\ \A i \in 1..keep : Last(more, keep)[i] = all[i + (Len(all) - keep)]
  BY <1>0, LastAreSome, LastAndOneMore
<1>6. OnLines(all) = Append(OnLines(last), <<lastEntry>>)
  BY <1>0, <1>5, LineOfOne
<1>7. more \in Seq(Nat) /\ Last(more, keep) \in Seq(Nat)
  <2>1. more \in Seq(Nat)
    BY <1>0
  <2> QED BY <1>0, <2>1, LastAreSome
<1> HIDE DEF last, all, more
<1>8. ASSUME NEW s, writing' = [writing EXCEPT !.at = s]
      PROVE  writing'.at = s /\ writing'.entry = writing.entry
  BY <1>8 DEF JournalTypes
<1>9. CASE BeginEntry
  <2>1. writing'.at = "text" /\ writing.at = "none"
    BY <1>9 DEF BeginEntry
  <2> QED BY <1>3, <1>9, <2>1 DEF BeginEntry, PlainInv
<1>10. CASE WriteText
  <2>1. writing.at = "text" /\ writing'.at = "end of line" /\ writing'.entry = lastEntry
    BY <1>1, <1>8, <1>10 DEF WriteText
  <2>2. ~lineOpen /\ lines = OnLines(last)
    BY <1>3, <1>10, <2>1 DEF WriteText, last
  <2>3. lines' = OnLines(all)
    BY <1>1, <1>6, <1>10, <2>1, <2>2 DEF WriteText, WithText
  <2> QED BY <1>10, <2>1, <2>3 DEF WriteText, PlainInv, all, last
<1>11. CASE WriteEnd
  <2>1. writing.at = "end of line" /\ writing'.at = "written" /\ writing'.entry = lastEntry
    BY <1>1, <1>8, <1>11 DEF WriteEnd
  <2> QED BY <1>3, <1>11, <2>1 DEF WriteEnd, PlainInv
<1>12. CASE WriteStops
  BY <1>4, <1>12 DEF WriteStops
<1>13. CASE TrimToLast
  <2>1. writing.at = "written" /\ writing'.at = "truncate" /\ writing'.entry = lastEntry
    BY <1>1, <1>8, <1>13 DEF TrimToLast
  <2> QED BY <1>3, <1>13, <2>1 DEF TrimToLast, PlainInv
<1>14. CASE Truncate
  <2>1. writing.at = "truncate" /\ writing'.at = "write back" /\ writing'.entry = lastEntry
    BY <1>1, <1>8, <1>14 DEF Truncate
  <2>2. lines = OnLines(all) /\ inHand = KeptLines(lines) /\ Len(lines) > keep /\ keep > 0
    BY <1>1, <1>3, <1>14, <2>1 DEF Truncate, all, last
  <2>3. /\ inHand \in Seq(Line) /\ Len(inHand) = keep
        /\ \A i \in 1..keep : inHand[i] = lines[i + (Len(lines) - keep)]
    BY <1>1, <2>2, KeptOnes
  <2>4. Len(lines) = Len(all) /\ Len(all) \in Nat /\ \A i \in 1..Len(all) : lines[i] = <<all[i]>>
    BY <1>5, <2>2, LinesOf
  <2>5. /\ OnLines(Last(more, keep)) \in Seq(Line) /\ Len(OnLines(Last(more, keep))) = Len(Last(more, keep))
        /\ \A i \in 1..Len(Last(more, keep)) : OnLines(Last(more, keep))[i] = <<Last(more, keep)[i]>>
    BY <1>7, LinesOf
  <2>6. ASSUME NEW i \in 1..keep PROVE inHand[i] = OnLines(Last(more, keep))[i]
    <3>0. Len(all) > keep /\ Len(all) \in Nat
      BY <2>2, <2>4
    <3>1. i + (Len(all) - keep) \in 1..Len(all)
      BY <1>0, <3>0
    <3>2. inHand[i] = <<all[i + (Len(all) - keep)]>>
      BY <2>3, <2>4, <3>1
    <3>3. Len(Last(more, keep)) = keep /\ Last(more, keep)[i] = all[i + (Len(all) - keep)]
      BY <1>5, <2>2, <3>0
    <3>4. OnLines(Last(more, keep))[i] = <<Last(more, keep)[i]>>
      BY <2>5, <3>3
    <3> QED BY <3>2, <3>3, <3>4
  <2>7. inHand = OnLines(Last(more, keep))
    <3> DEFINE kept == OnLines(Last(more, keep))
    <3>1. kept \in Seq(Line) /\ Len(kept) = keep /\ \A i \in 1..keep : inHand[i] = kept[i]
      BY <1>5, <2>2, <2>3, <2>4, <2>5, <2>6
    <3> HIDE DEF kept
    <3>2. inHand = kept
      BY <2>3, <3>1, SameLines
    <3> QED BY <3>2 DEF kept
  <2> QED BY <1>14, <2>1, <2>7 DEF Truncate, PlainInv, more
<1>15. CASE WriteBack
  <2>1. /\ writing.at = "write back" /\ writing'.at = "none" /\ writing'.entry = 0 /\ entered' = more
        /\ lines' = inHand /\ lineOpen' = FALSE /\ keep' = keep /\ mishaps' = mishaps
    BY <1>1, <1>15 DEF WriteBack, Returns, NotWriting, more
  <2>2. inHand = OnLines(Last(more, keep))
    BY <1>3, <2>1 DEF more
  <2> QED BY <2>1, <2>2 DEF PlainInv
<1>16. CASE WriteBackFails
  BY <1>4, <1>16 DEF WriteBackFails
<1>17. CASE NothingToTrim
  <2>1. /\ writing.at = "written" /\ writing'.at = "none" /\ writing'.entry = 0 /\ entered' = more
        /\ lines' = lines /\ lineOpen' = lineOpen /\ keep' = keep /\ mishaps' = mishaps
        /\ keep = 0 \/ Len(lines) <= keep
    BY <1>1, <1>17 DEF NothingToTrim, Returns, NotWriting, more
  <2>2. lines = OnLines(all) /\ ~lineOpen
    BY <1>3, <2>1 DEF all, last
  <2>3. Len(lines) = Len(all)
    BY <1>5, <2>2, LinesOf
  <2>4. all = Last(more, keep)
    BY <1>5, <2>1, <2>3
  <2> QED BY <2>1, <2>2, <2>4 DEF PlainInv
<1>18. CASE Restarts
  BY <1>4, <1>18 DEF Restarts
<1> QED BY <1>9, <1>10, <1>11, <1>12, <1>13, <1>14, <1>15, <1>16, <1>17, <1>18 DEF JournalNext

-----------------------------------------------------------------------------
(* What mishaps cost, step by step.                                        *)
LEMMA FileShape ==
  ASSUME JournalTypes, OrderInv
  PROVE  /\ Shape(File, DueEntries)
         /\ writing.at # "none" => /\ Shape(File, Append(entered, lastEntry))
                                   /\ Shape(File, entered) /\ lastEntry \in Nat /\ lastEntry > 0
<1>1. /\ lastEntry \in Nat /\ lines \in Seq(Line) /\ inHand \in Seq(Line) /\ entered \in Seq(Nat)
      /\ writing.at # "none" => writing.entry = lastEntry /\ lastEntry > 0
  BY DEF JournalTypes
<1>2. /\ LinesInOrder(lines) /\ LinesInOrder(inHand) /\ Increasing(entered)
      /\ \A i \in DOMAIN entered : entered[i] > 0
      /\ writing.at # "none" => \A i \in DOMAIN entered : entered[i] > 0 /\ entered[i] <= lastEntry - 1
  BY DEF OrderInv
<1>3. File \in Seq(Line) /\ LinesInOrder(File)
  BY <1>1, <1>2 DEF File
<1>4. Shape(File, entered)
  BY <1>1, <1>2, <1>3 DEF Shape
<1>5. ASSUME writing.at # "none" PROVE Shape(File, Append(entered, lastEntry))
  <2>1. /\ Increasing(Append(entered, lastEntry))
        /\ \A i \in DOMAIN Append(entered, lastEntry) : Append(entered, lastEntry)[i] > 0
    BY <1>1, <1>2, <1>5, EnteredAppended
  <2>2. Append(entered, lastEntry) \in Seq(Nat)
    BY <1>1, DueAppended
  <2> QED BY <1>3, <2>1, <2>2 DEF Shape
<1>6. DueEntries = entered \/ (writing.at # "none" /\ DueEntries = Append(entered, lastEntry))
  <2>1. CASE writing.at \in {"end of line", "written", "truncate", "write back"}
    <3>1. writing.at # "none"
      BY <2>1
    <3> QED BY <1>1, <2>1, <3>1 DEF DueEntries
  <2>2. CASE writing.at \notin {"end of line", "written", "truncate", "write back"}
    BY <2>2 DEF DueEntries
  <2> QED BY <2>1, <2>2
<1> QED BY <1>1, <1>4, <1>5, <1>6

(* How far a record is says what is due and what is open.                  *)
LEMMA WhereItIs ==
  ASSUME JournalTypes
  PROVE  /\ writing.at \in {"none", "text"} => File = lines /\ DueEntries = entered /\ LeftOpen = lineOpen
         /\ writing.at = "end of line" =>
              File = lines /\ DueEntries = Append(entered, lastEntry) /\ LeftOpen = FALSE
         /\ writing.at \in {"written", "truncate"} =>
              File = lines /\ DueEntries = Append(entered, lastEntry) /\ LeftOpen = lineOpen
         /\ writing.at = "write back" =>
              File = inHand /\ DueEntries = Append(entered, lastEntry) /\ LeftOpen = FALSE
<1>1. writing.at # "none" => writing.entry = lastEntry
  BY DEF JournalTypes
<1>2. lineOpen \in BOOLEAN /\ (writing.at = "write back" => ~lineOpen)
  BY DEF JournalTypes
<1>3. /\ writing.at = "write back" => File = inHand
      /\ writing.at # "write back" => File = lines
  BY DEF File
<1>4. /\ writing.at \in {"none", "text"} => DueEntries = entered
      /\ writing.at \in {"end of line", "written", "truncate", "write back"} => DueEntries = Append(entered, lastEntry)
  BY <1>1 DEF DueEntries
<1>5. /\ writing.at = "end of line" => LeftOpen = FALSE
      /\ writing.at # "end of line" => LeftOpen = lineOpen
  BY <1>2 DEF LeftOpen
<1>6. writing.at = "write back" => LeftOpen = FALSE
  BY <1>2 DEF LeftOpen
<1> QED BY <1>3, <1>4, <1>5, <1>6

LEMMA LossKept ==
  ASSUME JournalTypes, OrderInv, LossInv, JournalNext, JournalTypes'
  PROVE  LossInv'
<1>1. CASE wiped'
  BY <1>1 DEF LossInv
<1>2. CASE ~wiped'
  <2>1. /\ mishaps \in Nat /\ keep \in Nat /\ entered \in Seq(Nat) /\ lines \in Seq(Line) /\ lineOpen \in BOOLEAN
        /\ lastEntry \in Nat
    BY DEF JournalTypes
  <2>2. ~wiped
    BY <1>2 DEF JournalNext, BeginEntry, WriteText, WriteEnd, WriteStops, TrimToLast, Truncate, WriteBack,
                WriteBackFails, NothingToTrim, Restarts
  <2>3. PICK c, void : Loss(File, DueEntries, LeftOpen, mishaps, keep, c, void)
    BY <2>2 DEF LossInv
  <2>4. /\ Shape(File, DueEntries)
        /\ writing.at # "none" => /\ Shape(File, Append(entered, lastEntry)) /\ Shape(File, entered)
                                  /\ lastEntry \in Nat /\ lastEntry > 0
    BY FileShape
  <2> DEFINE all == Append(entered, lastEntry)
  <2>5. SUFFICES \E c2, void2 : Loss(File', DueEntries', LeftOpen', mishaps', keep, c2, void2)
    <3>1. keep' = keep
      BY DEF JournalNext, BeginEntry, WriteText, WriteEnd, WriteStops, TrimToLast, Truncate, WriteBack,
             WriteBackFails, NothingToTrim, Restarts
    <3> QED BY <2>5, <3>1 DEF LossInv
  <2>6. /\ writing.at \in {"none", "text"} => File = lines /\ DueEntries = entered /\ LeftOpen = lineOpen
        /\ writing.at = "end of line" => File = lines /\ DueEntries = all /\ LeftOpen = FALSE
        /\ writing.at \in {"written", "truncate"} => File = lines /\ DueEntries = all /\ LeftOpen = lineOpen
        /\ writing.at = "write back" => File = inHand /\ DueEntries = all /\ LeftOpen = FALSE
    BY WhereItIs
  <2>7. /\ writing'.at \in {"none", "text"} => File' = lines' /\ DueEntries' = entered' /\ LeftOpen' = lineOpen'
        /\ writing'.at = "end of line" => File' = lines' /\ DueEntries' = Append(entered', lastEntry') /\ LeftOpen' = FALSE
        /\ writing'.at \in {"written", "truncate"} =>
             File' = lines' /\ DueEntries' = Append(entered', lastEntry') /\ LeftOpen' = lineOpen'
        /\ writing'.at = "write back" => File' = inHand' /\ DueEntries' = Append(entered', lastEntry') /\ LeftOpen' = FALSE
    <3>1. /\ writing'.at # "none" => writing'.entry = lastEntry'
          /\ lineOpen' \in BOOLEAN /\ (writing'.at = "write back" => ~lineOpen')
      BY DEF JournalTypes
    <3>2. /\ writing'.at = "write back" => File' = inHand'
          /\ writing'.at # "write back" => File' = lines'
      BY DEF File
    <3>3. /\ writing'.at \in {"none", "text"} => DueEntries' = entered'
          /\ writing'.at \in {"end of line", "written", "truncate", "write back"} => DueEntries' = Append(entered', lastEntry')
      BY <3>1 DEF DueEntries
    <3>4. /\ writing'.at = "end of line" => LeftOpen' = FALSE
          /\ writing'.at # "end of line" => LeftOpen' = lineOpen'
      BY <3>1 DEF LeftOpen
    <3>5. writing'.at = "write back" => LeftOpen' = FALSE
      BY <3>1 DEF LeftOpen
    <3> QED BY <3>2, <3>3, <3>4, <3>5
  <2>8. ASSUME NEW s, writing' = [writing EXCEPT !.at = s]
        PROVE  writing'.at = s
    BY <2>8 DEF JournalTypes
  <2>9. Returns => writing'.at = "none" /\ (writing.at # "none" => entered' = all)
    <3>1. writing.at # "none" => writing.entry = lastEntry
      BY DEF JournalTypes
    <3>2. Returns => writing'.at = "none" /\ entered' = Append(entered, writing.entry)
      BY DEF Returns, NotWriting
    <3> QED BY <3>1, <3>2
  <2> HIDE DEF all
  <2>10. ASSUME File' = File, DueEntries' = DueEntries, LeftOpen' = LeftOpen, mishaps' = mishaps
         PROVE  \E c2, void2 : Loss(File', DueEntries', LeftOpen', mishaps', keep, c2, void2)
    BY <2>3, <2>10
  <2>11. ASSUME File' = File, DueEntries' = DueEntries, LeftOpen' \in BOOLEAN, mishaps' = mishaps + 1
         PROVE  \E c2, void2 : Loss(File', DueEntries', LeftOpen', mishaps', keep, c2, void2)
    <3>1. LeftOpen \in BOOLEAN
      BY <2>1 DEF LeftOpen
    <3>2. Loss(File, DueEntries, LeftOpen', mishaps + 1, keep, c, void)
      BY <2>1, <2>3, <2>4, <2>11, <3>1, MishapAllows
    <3> QED BY <2>11, <3>2
  <2>12. CASE BeginEntry
    <3>1. /\ writing.at = "none" /\ writing'.at = "text" /\ lines' = lines /\ entered' = entered
          /\ lineOpen' = lineOpen /\ mishaps' = mishaps
      BY <2>12 DEF BeginEntry
    <3> QED BY <2>6, <2>7, <2>10, <3>1
  <2>13. CASE WriteText
    <3>1. /\ writing.at = "text" /\ writing'.at = "end of line" /\ lines' = WithText(lastEntry)
          /\ lastEntry' = lastEntry /\ entered' = entered /\ mishaps' = mishaps
      BY <2>8, <2>13 DEF WriteText, JournalTypes
    <3>2. Loss(lines, entered, lineOpen, mishaps, keep, c, void) /\ Shape(lines, entered)
      BY <2>3, <2>4, <2>6, <3>1
    <3>3. File' = WithText(lastEntry) /\ DueEntries' = all /\ LeftOpen' = FALSE
      BY <2>7, <3>1 DEF all
    <3>4. CASE ~lineOpen
      <4>1. WithText(lastEntry) = Append(lines, <<lastEntry>>)
        BY <3>4 DEF WithText
      <4>2. Loss(lines, entered, FALSE, mishaps, keep, c, void)
        BY <2>1, <3>2, <3>4
      <4>3. Loss(Append(lines, <<lastEntry>>), all, FALSE, mishaps, keep, c, void)
        BY <2>1, <3>2, <4>2, LineAdded DEF all
      <4> QED BY <3>1, <3>3, <4>1, <4>3
    <3>5. CASE lineOpen
      <4>1. Len(lines) > 0 /\ WithText(lastEntry) = [lines EXCEPT ![Len(lines)] = Append(@, lastEntry)]
        BY <3>5 DEF WithText, JournalTypes
      <4>2. Loss(lines, entered, TRUE, mishaps, keep, c, void)
        BY <2>1, <3>2, <3>5
      <4>3. \E more : Loss([lines EXCEPT ![Len(lines)] = Append(@, lastEntry)], all, FALSE, mishaps, keep, c, more)
        BY <2>1, <3>2, <4>1, <4>2, Joined DEF all
      <4> QED BY <3>1, <3>3, <4>1, <4>3
    <3> QED BY <3>4, <3>5
  <2>14. CASE WriteEnd
    <3>1. /\ writing.at = "end of line" /\ writing'.at = "written" /\ lines' = lines /\ entered' = entered
          /\ lineOpen' = FALSE /\ lastEntry' = lastEntry /\ mishaps' = mishaps
      BY <2>8, <2>14 DEF WriteEnd
    <3> QED BY <2>6, <2>7, <2>10, <3>1 DEF all
  <2>15. CASE WriteStops
    <3>1. /\ writing.at \in {"text", "end of line"} /\ writing'.at = "written" /\ entered' = entered
          /\ lastEntry' = lastEntry /\ mishaps' = mishaps + 1
      BY <2>8, <2>15 DEF WriteStops
    <3>2. File' = lines' /\ DueEntries' = all /\ LeftOpen' = lineOpen'
      BY <2>7, <3>1 DEF all
    <3>3. CASE writing.at = "end of line"
      <4>1. lines' = lines /\ lineOpen' = lineOpen
        BY <2>15, <3>3 DEF WriteStops
      <4> QED BY <2>1, <2>6, <2>11, <3>1, <3>2, <3>3, <4>1
    <3>4. CASE writing.at = "text"
      <4>1. /\ Loss(lines, entered, lineOpen, mishaps, keep, c, void) /\ Shape(lines, entered)
            /\ Shape(lines, all) /\ lastEntry > 0
        <5>1. writing.at # "none"
          BY <3>4
        <5> QED BY <2>3, <2>4, <2>6, <3>4, <5>1 DEF all
      <4>2. CASE lines' = lines /\ lineOpen' = lineOpen
        <5>1. Loss(lines, all, lineOpen, mishaps + 1, keep, c, void \cup {lastEntry})
          BY <2>1, <4>1, LostWithoutTrace DEF all
        <5> QED BY <3>1, <3>2, <4>2, <5>1
      <4>3. CASE lines' = WithText(0) /\ lineOpen' = TRUE /\ ~lineOpen
        <5>1. WithText(0) = Append(lines, <<0>>)
          BY <4>3 DEF WithText
        <5>2. Loss(lines, entered, FALSE, mishaps, keep, c, void)
          BY <2>1, <4>1, <4>3
        <5>3. Loss(Append(lines, <<0>>), all, TRUE, mishaps + 1, keep, c, void \cup {lastEntry})
          BY <2>1, <4>1, <5>2, TornAdded DEF all
        <5> QED BY <3>1, <3>2, <4>3, <5>1, <5>3
      <4>4. CASE lines' = WithText(0) /\ lineOpen' = TRUE /\ lineOpen
        <5>1. Len(lines) > 0 /\ WithText(0) = [lines EXCEPT ![Len(lines)] = Append(@, 0)]
          BY <4>4 DEF WithText, JournalTypes
        <5>2. Loss(lines, entered, TRUE, mishaps, keep, c, void)
          BY <2>1, <4>1, <4>4
        <5>3. PICK more : Loss(WithText(0), all, FALSE, mishaps, keep, c, more)
          <6>1. 0 \in Nat
            OBVIOUS
          <6>2. \E more : Loss([lines EXCEPT ![Len(lines)] = Append(@, 0)], all, FALSE, mishaps, keep, c, more)
            BY <2>1, <4>1, <5>1, <5>2, <6>1, Joined DEF all
          <6> QED BY <5>1, <6>2
        <5>4. Shape(WithText(0), all)
          <6>1. LinesInOrder(lines) /\ LinesUpTo(lines, lastEntry - 1)
            BY <3>4 DEF OrderInv
          <6>2. LinesInOrder(WithText(0)) /\ WithText(0) \in Seq(Line)
            BY <2>1, <4>1, <6>1, TextInOrder, TextWritten
          <6> QED BY <4>1, <6>2 DEF Shape
        <5>5. Loss(WithText(0), all, TRUE, mishaps + 1, keep, c, more)
          BY <2>1, <5>3, <5>4, MishapAllows
        <5> QED BY <3>1, <3>2, <4>4, <5>5
      <4> QED BY <2>1, <2>15, <3>4, <4>2, <4>3, <4>4 DEF WriteStops
    <3> QED BY <3>1, <3>3, <3>4
  <2>16. CASE TrimToLast
    <3>1. /\ writing.at = "written" /\ writing'.at = "truncate" /\ lines' = lines /\ entered' = entered
          /\ lineOpen' = lineOpen /\ lastEntry' = lastEntry /\ mishaps' = mishaps
      BY <2>8, <2>16 DEF TrimToLast
    <3> QED BY <2>6, <2>7, <2>10, <3>1 DEF all
  <2>17. CASE Truncate
    <3>1. /\ writing.at = "truncate" /\ writing'.at = "write back" /\ inHand' = inHand /\ entered' = entered
          /\ lastEntry' = lastEntry /\ mishaps' = mishaps
      BY <2>8, <2>17 DEF Truncate
    <3>2. keep > 0 /\ Len(lines) > keep /\ inHand = KeptLines(lines)
      BY <3>1 DEF JournalTypes
    <3>3. /\ inHand \in Seq(Line) /\ Len(inHand) = keep
          /\ \A i \in 1..keep : inHand[i] = lines[i + (Len(lines) - keep)]
      BY <2>1, <3>2, KeptOnes
    <3>4. Loss(lines, all, lineOpen, mishaps, keep, c, void) /\ Shape(lines, all)
      BY <2>3, <2>4, <2>6, <3>1 DEF all
    <3>5. \E more : Loss(inHand, all, FALSE, mishaps, keep, more, void)
      BY <2>1, <3>2, <3>3, <3>4, LinesKept
    <3>6. File' = inHand /\ DueEntries' = all /\ LeftOpen' = FALSE
      BY <2>7, <3>1 DEF all
    <3> QED BY <3>1, <3>5, <3>6
  <2>18. CASE WriteBack
    <3>1. /\ writing.at = "write back" /\ lines' = inHand /\ lineOpen' = FALSE /\ Returns /\ mishaps' = mishaps
      BY <2>18 DEF WriteBack
    <3>2. writing'.at = "none" /\ entered' = all
      BY <2>9, <3>1
    <3> QED BY <2>6, <2>7, <2>10, <3>1, <3>2
  <2>19. CASE WriteBackFails
    <3>1. /\ writing.at \in {"truncate", "write back"} /\ lines' = lines /\ lineOpen' = lineOpen /\ Returns
          /\ mishaps' = mishaps + 1 /\ writing.at # "write back"
      BY <1>2, <2>19 DEF WriteBackFails
    <3>2. writing.at = "truncate" /\ writing'.at = "none" /\ entered' = all
      BY <2>9, <3>1
    <3> QED BY <2>1, <2>6, <2>7, <2>11, <3>1, <3>2
  <2>20. CASE NothingToTrim
    <3>1. /\ writing.at = "written" /\ lines' = lines /\ lineOpen' = lineOpen /\ Returns /\ mishaps' = mishaps
      BY <2>20 DEF NothingToTrim
    <3>2. writing'.at = "none" /\ entered' = all
      BY <2>9, <3>1
    <3> QED BY <2>6, <2>7, <2>10, <3>1, <3>2
  <2>21. CASE Restarts
    <3>1. /\ writing.at # "none" /\ writing'.at = "none" /\ lines' = lines /\ lineOpen' = lineOpen
          /\ entered' = entered /\ mishaps' = mishaps + 1 /\ writing.at # "write back"
      BY <1>2, <2>21 DEF Restarts, NotWriting
    <3>2. File' = lines /\ DueEntries' = entered /\ LeftOpen' = lineOpen
      BY <2>7, <3>1
    <3>3. writing.at \in {"text", "end of line", "written", "truncate"}
      BY <3>1 DEF JournalTypes, JournalSteps
    <3>4. CASE writing.at = "text"
      BY <2>1, <2>6, <2>11, <3>1, <3>2, <3>4
    <3>5. CASE writing.at \in {"end of line", "written", "truncate"}
      <4>1. File = lines /\ DueEntries = all
        BY <2>6, <3>5
      <4>2. Loss(lines, all, LeftOpen, mishaps, keep, c, void) /\ Shape(lines, all) /\ Shape(lines, entered)
        BY <2>3, <2>4, <3>1, <4>1 DEF all
      <4>3. LeftOpen \in BOOLEAN
        BY <2>1 DEF LeftOpen
      <4>4. \E c2 : Loss(lines, entered, lineOpen, mishaps + 1, keep, c2, void)
        BY <2>1, <4>2, <4>3, NotDueAnyMore DEF all
      <4> QED BY <3>1, <3>2, <4>4
    <3> QED BY <3>3, <3>4, <3>5
  <2> QED BY <2>12, <2>13, <2>14, <2>15, <2>16, <2>17, <2>18, <2>19, <2>20, <2>21 DEF JournalNext
<1> QED BY <1>1, <1>2

-----------------------------------------------------------------------------
LEMMA JournalInitHolds == JournalInit => JournalInv
<1> SUFFICES ASSUME JournalInit PROVE JournalInv
  OBVIOUS
<1>1. /\ keep \in Nat /\ lines = << >> /\ lineOpen = FALSE /\ writing = [entry |-> 0, at |-> "none"] /\ inHand = << >>
      /\ entered = << >> /\ lastEntry = 0 /\ mishaps = 0 /\ wiped = FALSE
  BY JournalAssumption DEF JournalInit, NotWriting
<1>2. writing.at = "none" /\ writing.entry = 0
  BY <1>1
<1>3. << >> \in Seq(Line) /\ << >> \in Seq(Nat) /\ Len(<< >>) = 0 /\ DOMAIN << >> = {}
  OBVIOUS
<1>4. JournalTypes
  <2>1. 0 \in Nat
    OBVIOUS
  <2> QED BY <1>1, <1>2, <1>3, <2>1 DEF JournalTypes, JournalSteps
<1>5. OrderInv
  BY <1>1, <1>2, <1>3 DEF OrderInv, LinesInOrder, LinesUpTo, Increasing
<1>6. PlainInv
  <2>1. Last(<< >>, keep) = << >>
    BY <1>1, <1>3 DEF Last
  <2>2. OnLines(<< >>) = << >>
    BY <1>3 DEF OnLines
  <2> QED BY <1>1, <1>2, <2>1, <2>2 DEF PlainInv
<1>7. LossInv
  <2>1. File = << >> /\ DueEntries = << >> /\ LeftOpen = FALSE
    BY <1>1, <1>2 DEF File, DueEntries, LeftOpen
  <2>2. Others(<< >>, << >>, 0) = {} /\ Accounted(<< >>, << >>, 0, {}) /\ AtRisk(<< >>, << >>, FALSE, 0) = 0
    BY <1>3 DEF Others, Accounted, AtRisk
  <2>3. IsFiniteSet({}) /\ Cardinality({}) = 0
    BY FS_EmptySet
  <2>4. Cheap(<< >>, << >>, FALSE, 0, 0, {})
    <3>1. 0 + 0 <= 0 /\ 0 + (IF FALSE THEN 1 ELSE 0) + 0 <= 2 * 0
      OBVIOUS
    <3>2. Cardinality(Others(<< >>, << >>, 0)) = 0
      BY <2>2, <2>3
    <3> QED BY <2>2, <2>3, <3>1, <3>2, Zenon DEF Cheap
  <2>5. Loss(<< >>, << >>, FALSE, 0, keep, 0, {})
    <3>1. 0 \in 0..0
      OBVIOUS
    <3> QED BY <1>3, <2>2, <2>3, <2>4, <3>1, Zenon DEF Loss
  <2> QED BY <1>1, <2>1, <2>5 DEF LossInv
<1> QED BY <1>4, <1>5, <1>6, <1>7 DEF JournalInv

LEMMA JournalStepKeeps == JournalInv /\ [JournalNext]_journalVars => JournalInv'
<1> SUFFICES ASSUME JournalInv, [JournalNext]_journalVars PROVE JournalInv'
  OBVIOUS
<1>1. CASE JournalNext
  <2>1. JournalTypes'
    BY <1>1, JournalTypesKept DEF JournalInv
  <2> QED BY <1>1, <2>1, OrderKept, PlainKept, LossKept DEF JournalInv
<1>2. CASE UNCHANGED journalVars
  <2>1. /\ UNCHANGED <<keep, lines, lineOpen, writing, inHand, entered, lastEntry, mishaps, wiped>>
    BY <1>2 DEF journalVars
  <2>2. KeptLines(lines)' = KeptLines(lines) /\ File' = File /\ DueEntries' = DueEntries /\ LeftOpen' = LeftOpen
    BY <2>1 DEF KeptLines, File, DueEntries, LeftOpen
  <2>3. JournalTypes'
    BY <2>1, <2>2 DEF JournalInv, JournalTypes
  <2>4. OrderInv'
    BY <2>1 DEF JournalInv, OrderInv
  <2>5. PlainInv'
    BY <2>1 DEF JournalInv, PlainInv
  <2>6. LossInv'
    BY <2>1, <2>2 DEF JournalInv, LossInv
  <2> QED BY <2>3, <2>4, <2>5, <2>6 DEF JournalInv
<1> QED BY <1>1, <1>2

(* What the invariant says of a reader.                                    *)
LEMMA ReadInOrder == JournalInv => LatestAreRead
<1> SUFFICES ASSUME JournalInv PROVE LatestAreRead
  OBVIOUS
<1>1. /\ lines \in Seq(Line) /\ LinesInOrder(lines)
  BY DEF JournalInv, JournalTypes, OrderInv
<1>2. \A i, j \in Readable : i < j => lines[i][1] < lines[j][1]
  <2> SUFFICES ASSUME NEW i \in Readable, NEW j \in Readable, i < j PROVE lines[i][1] < lines[j][1]
    OBVIOUS
  <2>1. \A l \in Seq(Nat) : Len(l) = 1 /\ l # <<0>> => 1 \in DOMAIN l /\ l[1] # 0
    <3> SUFFICES ASSUME NEW l \in Seq(Nat), Len(l) = 1, l[1] = 0 PROVE l = <<0>>
      OBVIOUS
    <3> QED OBVIOUS
  <2>2. \A k \in Readable : k \in DOMAIN lines /\ lines[k] \in Seq(Nat) /\ Len(lines[k]) = 1 /\ lines[k] # <<0>>
    BY <1>1, LineFacts DEF Readable
  <2>3. /\ i \in DOMAIN lines /\ 1 \in DOMAIN lines[i] /\ lines[i][1] # 0
        /\ j \in DOMAIN lines /\ 1 \in DOMAIN lines[j] /\ lines[j][1] # 0
    BY <2>1, <2>2
  <2> QED BY <1>1, <2>3 DEF LinesInOrder
<1>3. ASSUME writing.at = "none", mishaps = 0
      PROVE  lines = OnLines(Last(entered, keep))
  BY <1>3 DEF JournalInv, PlainInv
<1> QED BY <1>2, <1>3 DEF LatestAreRead, OnLines

LEMMA LittleIsLost == JournalInv => MishapsCostLittle
<1> SUFFICES ASSUME JournalInv, writing.at = "none", ~wiped
             PROVE  Cardinality(EntriesIn(Last(entered, keep)) \ EntriesRead) <= 2 * mishaps
  BY DEF MishapsCostLittle
<1> DEFINE n == Len(entered)  last == Last(entered, keep)
           latest == IF keep = 0 \/ n <= keep THEN DOMAIN entered ELSE (n - keep + 1)..n
           missing == Missing(lines, entered, latest)
           unread == EntriesIn(last) \ EntriesRead
<1>1. mishaps \in Nat /\ keep \in Nat /\ entered \in Seq(Nat) /\ lines \in Seq(Line) /\ LeftOpen \in BOOLEAN
      /\ \A i \in DOMAIN entered : entered[i] > 0
  BY DEF JournalInv, JournalTypes, OrderInv, LeftOpen
<1>2. n \in Nat /\ DOMAIN entered = 1..n /\ \A i \in DOMAIN entered : entered[i] \in Nat
  BY <1>1
<1>3. File = lines /\ DueEntries = entered
  BY DEF File, DueEntries
<1>4. Shape(lines, entered)
  BY <1>3, FileShape DEF JournalInv
<1>5. PICK c, void : Loss(lines, entered, LeftOpen, mishaps, keep, c, void)
  BY <1>3 DEF JournalInv, LossInv
<1>6. latest \in SUBSET (DOMAIN entered)
  BY <1>1, <1>2
<1>7. /\ keep = 0 \/ n <= keep => latest = DOMAIN entered
      /\ ~(keep = 0 \/ n <= keep) => latest = (n - keep + 1)..n
  OBVIOUS
<1> HIDE DEF latest
<1>8. IsFiniteSet(missing) /\ Cardinality(missing) <= 2 * mishaps
  BY <1>1, <1>4, <1>5, <1>6, <1>7, LittleIsMissing
<1>9. EntriesIn(last) \in SUBSET {entered[k] : k \in latest}
  <2>1. CASE keep = 0 \/ n <= keep
    <3>1. last = entered
      BY <1>1, <2>1, LastAreSome
    <3> QED BY <1>7, <2>1, <3>1 DEF EntriesIn
  <2>2. CASE ~(keep = 0 \/ n <= keep)
    <3>1. /\ last \in Seq(Nat) /\ Len(last) = keep
          /\ \A i \in 1..keep : last[i] = entered[i + (n - keep)]
      BY <1>1, <2>2, LastAreSome
    <3>2. \A i \in 1..keep : i + (n - keep) \in latest
      BY <1>1, <1>2, <1>7, <2>2
    <3>3. DOMAIN last = 1..keep
      BY <3>1
    <3> HIDE DEF last, n
    <3> QED BY <3>1, <3>2, <3>3 DEF EntriesIn
  <2> QED BY <2>1, <2>2
(* Each of them is missing under its number.                               *)
<1>10. \A e \in unread : \E k \in missing : entered[k] = e
  <2> SUFFICES ASSUME NEW e \in unread PROVE \E k \in missing : entered[k] = e
    OBVIOUS
  <2>1. PICK k \in latest : entered[k] = e
    BY <1>9
  <2>2. e \notin EntriesRead
    OBVIOUS
  <2>3. \A i \in DOMAIN lines : lines[i] # <<entered[k]>>
    <3> SUFFICES ASSUME NEW i \in DOMAIN lines, lines[i] = <<entered[k]>> PROVE FALSE
      OBVIOUS
    <3>1. entered[k] # 0 /\ entered[k] \in Nat
      <4>1. k \in DOMAIN entered
        BY <1>6
      <4>2. entered[k] \in Nat /\ entered[k] > 0
        BY <1>1, <1>2, <4>1
      <4> QED BY <4>2
    <3>2. \A x \in Nat : Len(<<x>>) = 1 /\ <<x>>[1] = x /\ (<<x>> = <<0>> => x = 0)
      OBVIOUS
    <3>3. i \in Readable /\ lines[i][1] = entered[k]
      BY <3>1, <3>2 DEF Readable
    <3> QED BY <2>1, <2>2, <3>3 DEF EntriesRead
  <2> QED BY <2>1, <2>3 DEF Missing
<1> DEFINE f == [e \in unread |-> CHOOSE k \in missing : entered[k] = e]
<1>11. f \in [unread -> missing] /\ \A e \in unread : entered[f[e]] = e
  <2> HIDE DEF unread, missing
  <2> QED BY <1>10
<1>12. \A a, b \in unread : f[a] = f[b] => a = b
  BY <1>11
<1> HIDE DEF unread, missing, f
<1>13. f \in Injection(unread, missing)
  BY <1>11, <1>12 DEF Injection, IsInjective
<1>14. IsFiniteSet(unread) /\ Cardinality(unread) <= Cardinality(missing)
  BY <1>8, <1>13, FS_Injection
<1>15. Cardinality(unread) \in Nat /\ Cardinality(missing) \in Nat
  BY <1>8, <1>14, FS_CardinalityType
<1>16. Cardinality(unread) <= 2 * mishaps
  BY <1>1, <1>8, <1>14, <1>15
<1> QED BY <1>16 DEF unread, last

(* Whoever reads a log gets entries in the order of their calls, none      *)
(* twice and, with no mishap so far, exactly the last ones that are to be  *)
(* kept; a crash or a full disk costs two entries at most, unless it       *)
(* strikes between the emptying and the filling of the file: record,       *)
(* trim_to_last, log, however many entries and mishaps there are.          *)
THEOREM JournalHolds == JournalSpec => [](LatestAreRead /\ MishapsCostLittle)
<1>1. JournalInit => JournalInv
  BY JournalInitHolds
<1>2. JournalInv /\ [JournalNext]_journalVars => JournalInv'
  BY JournalStepKeeps
<1>3. JournalInv => LatestAreRead /\ MishapsCostLittle
  BY ReadInOrder, LittleIsLost
<1> QED BY <1>1, <1>2, <1>3, PTL DEF JournalSpec

-----------------------------------------------------------------------------
(* Readers take no lock, and find what was written and acknowledged: an    *)
(* order of entries, pieces and skills that no writer running meanwhile,   *)
(* no crash and no full disk disturbs beyond what is said.                 *)
THEOREM FilesAlwaysHold == WorkspaceSpec /\ SkillsSpec /\ JournalSpec => []FilesHold
<1>1. LatestAreRead /\ MishapsCostLittle /\ PiecesInOrder /\ SaidIsDone /\ WrittenIsRead
        /\ InstalledIsRead /\ PromptIsAStart
      => FilesHold
  BY DEF FilesHold
<1> QED BY <1>1, WorkspaceHolds, SkillsHold, JournalHolds, PTL
=============================================================================
