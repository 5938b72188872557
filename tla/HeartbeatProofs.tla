--------------------------- MODULE HeartbeatProofs ---------------------------
(* Heartbeat's invariants hold for any number of conversations, channels,  *)
(* saves and ticks.                                                         *)
EXTENDS Heartbeat, TLAPS

(* A tick's target is of the right kind. *)
Aimed(a) ==
  /\ a.to \in Addresses
  /\ IF settings.target # None THEN a.to.channel = settings.target
     ELSE \/ a.to.channel = SystemChannel
          \/ /\ a.user \in Conversations
             /\ a.to = [channel |-> Prefix[a.user.session], session |-> a.user.session]

AimedInv ==
  /\ batch # {} => Aimed(target)
  /\ \A r \in long : Aimed(r)
  /\ \A i \in 1..Len(inbound) :
       IF inbound[i].sender = "user" THEN inbound[i].to \in Conversations
       ELSE inbound[i].user \in Conversations \cup {Nobody} /\ Aimed(inbound[i])
  /\ answer # NoAnswer => answer.to.channel \in Channels /\ (answer.named \/ Aimed(answer))

(* Whatever has been written or is about to be came from a user. *)
SpokenInv ==
  /\ last # Nobody => last \in spoken
  /\ \A k \in Made : saves[k].what \in spoken
  /\ \A f \in Saves : data[f] \in Conversations => data[f] \in spoken

(* Of saves that follow one another, the one under way owns the temporary  *)
(* file, which is not the state file.                                      *)
OneAtATime ==
  /\ \A j, k \in Saving : j = k
  /\ \A k \in Saving : saves[k].what = last /\ saves[k].what \in Conversations
  /\ \A k \in Saves : saves[k].stage # "missed"
  /\ tmp # 0 => tmp # file /\ saves[tmp].stage \notin {"none", "new"}
  /\ file # 0 => saves[file].stage \notin {"none", "new"}
  /\ \A k \in Saves : saves[k].stage \in {"opened", "written"} => tmp # 0 /\ saves[k].into = tmp
  /\ \A k \in Saves : saves[k].stage = "opened" => data[tmp] = Empty
  /\ \A k \in Saves : saves[k].stage = "written" => data[tmp] = saves[k].what

KeptInv ==
  /\ file = 0 => kept = Nobody
  /\ file # 0 => data[file] = kept /\ kept \in Conversations
  /\ up /\ Saving = {} /\ ~failed => kept = last

SavingInv ==
  /\ ~up => Saving = {}
  /\ ~overlapped => OneAtATime /\ KeptInv

Inv == TypeOK /\ AimedInv /\ SpokenInv /\ SavingInv
-----------------------------------------------------------------------------
(* Lemmas about the state file.                                            *)

(* Contents differ, and saves and files are numbered.                      *)
LEMMA Distinct ==
  /\ Nobody \notin Conversations /\ Empty \notin Conversations /\ Torn \notin Conversations
  /\ MaxSaves \in Nat
  /\ Saves = 1..MaxSaves /\ Files = 0..MaxSaves
BY LastActiveAssumption DEF Saves, Files

(* A message changes what is remembered and starts a save, or nothing.     *)
LEMMA RecordKeeps ==
  ASSUME StateTypeOK, SpokenInv, SavingInv, NEW c \in Conversations,
         up, up' = up, Record(c), spoken' = spoken \cup {c}
  PROVE  StateTypeOK' /\ SpokenInv' /\ SavingInv'
<1> USE Distinct
<1>1. CASE last = c
  <2>1. UNCHANGED stateVars
    BY <1>1 DEF Record
  <2> QED BY <1>1, <2>1 DEF StateTypeOK, SpokenInv, SavingInv, OneAtATime, KeptInv, Saving, Made, stateVars
<1>2. CASE last # c
  <2>1. PICK k \in Saves \ Made :
          /\ last' = c
          /\ saves' = [saves EXCEPT ![k] = [what |-> c, stage |-> "new", into |-> 0]]
          /\ overlapped' = (overlapped \/ Saving # {})
          /\ UNCHANGED <<tmp, file, data, failed, kept>>
    BY <1>2 DEF Record
  <2>2. k \in Saves /\ saves[k].stage = "none"
    BY <2>1 DEF Made
  <2>3. /\ saves' \in [Saves -> [what : Conversations \cup {Nobody}, stage : Stages, into : Files]]
        /\ saves'[k] = [what |-> c, stage |-> "new", into |-> 0]
        /\ \A j \in Saves \ {k} : saves'[j] = saves[j]
    BY <2>1, <2>2 DEF StateTypeOK, Stages
  <2>4. StateTypeOK'
    BY <2>1, <2>3 DEF StateTypeOK
  <2>5. SpokenInv'
    BY <2>1, <2>3 DEF SpokenInv, Made
  <2>6. Saving' = Saving \cup {k}
    BY <2>2, <2>3 DEF Saving, Under
  <2>7. SavingInv'
    <3>1. SUFFICES ASSUME ~overlapped' PROVE OneAtATime' /\ KeptInv'
      BY DEF SavingInv
    <3>2. ~overlapped /\ Saving = {} /\ Saving' = {k} /\ OneAtATime /\ KeptInv
      BY <2>1, <2>6, <3>1 DEF SavingInv, StateTypeOK
    <3>3. tmp \in Files /\ file \in Files /\ tmp # k /\ file # k
      BY <2>2, <3>2 DEF OneAtATime, StateTypeOK
    <3>4. OneAtATime'
      BY <2>1, <2>2, <2>3, <3>2, <3>3 DEF OneAtATime
    <3>5. KeptInv'
      BY <2>1, <3>2 DEF KeptInv
    <3> QED BY <3>4, <3>5
  <2> QED BY <2>4, <2>5, <2>7
<1> QED BY <1>1, <1>2

(* What a step of save k does to the saves.                                *)
LEMMA SaveMoves ==
  ASSUME StateTypeOK, NEW k \in Saves, saves[k].stage # "none", NEW s \in Stages \ {"none"},
         saves' = [saves EXCEPT ![k].stage = s]
  PROVE  /\ saves' \in [Saves -> [what : Conversations \cup {Nobody}, stage : Stages, into : Files]]
         /\ saves'[k].what = saves[k].what /\ saves'[k].stage = s /\ saves'[k].into = saves[k].into
         /\ \A j \in Saves \ {k} : saves'[j] = saves[j]
         /\ Made' = Made /\ k \in Made
         /\ s \in Under => Saving' = Saving \cup {k}
         /\ s = "over" => Saving' = Saving \ {k}
<1>1. /\ saves' \in [Saves -> [what : Conversations \cup {Nobody}, stage : Stages, into : Files]]
      /\ saves'[k].what = saves[k].what /\ saves'[k].stage = s /\ saves'[k].into = saves[k].into
      /\ \A j \in Saves \ {k} : saves'[j] = saves[j]
  BY DEF StateTypeOK
<1>2. Made' = Made /\ k \in Made
  BY <1>1 DEF Made
<1>3. s \in Under => Saving' = Saving \cup {k}
  BY <1>1 DEF Saving
<1>4. s = "over" => Saving' = Saving \ {k}
  BY <1>1 DEF Saving, Under
<1> QED BY <1>1, <1>2, <1>3, <1>4

(* No step of a save breaks what is known of the file.                     *)
LEMMA SaveKeeps ==
  ASSUME StateTypeOK, SpokenInv, SavingInv, up, UNCHANGED <<up, spoken>>,
         spoken \subseteq Conversations,
         NEW k \in Saves, SaveStep(k)
  PROVE  StateTypeOK' /\ SpokenInv' /\ SavingInv'
<1> USE Distinct
<1>1. CASE OpenTmp(k)
  <2> DEFINE f == IF tmp = 0 THEN k ELSE tmp
  <2>1. /\ saves[k].stage = "new" /\ f \in Saves
        /\ tmp' = f /\ data' = [data EXCEPT ![f] = Empty]
        /\ saves' = [saves EXCEPT ![k] = [what |-> saves[k].what, stage |-> "opened", into |-> f]]
        /\ UNCHANGED <<last, file, overlapped, failed, kept>>
    BY <1>1 DEF OpenTmp, StateTypeOK
  <2>2. /\ saves' \in [Saves -> [what : Conversations \cup {Nobody}, stage : Stages, into : Files]]
        /\ saves'[k].what = saves[k].what /\ saves'[k].stage = "opened" /\ saves'[k].into = f
        /\ \A j \in Saves \ {k} : saves'[j] = saves[j]
        /\ Made' = Made /\ Saving' = Saving \cup {k} /\ k \in Saving
    <3>1. /\ saves' \in [Saves -> [what : Conversations \cup {Nobody}, stage : Stages, into : Files]]
          /\ saves'[k].what = saves[k].what /\ saves'[k].stage = "opened" /\ saves'[k].into = f
          /\ \A j \in Saves \ {k} : saves'[j] = saves[j]
      <4>1. f \in Files /\ "opened" \in Stages
        BY <2>1 DEF Stages
      <4> HIDE DEF f
      <4> QED BY <2>1, <4>1 DEF StateTypeOK
    <3>2. Made' = Made
      BY <2>1, <3>1 DEF Made
    <3>3. Saving' = Saving \cup {k} /\ k \in Saving
      BY <2>1, <3>1 DEF Saving, Under
    <3> QED BY <3>1, <3>2, <3>3
  <2>3. data' \in [Saves -> Contents] /\ data'[f] = Empty /\ \A g \in Saves \ {f} : data'[g] = data[g]
    BY <2>1 DEF StateTypeOK, Contents
  <2>4. StateTypeOK'
    BY <2>1, <2>2, <2>3 DEF StateTypeOK
  <2>5. SpokenInv'
    BY <2>1, <2>2, <2>3 DEF SpokenInv, Made
  <2>6. ASSUME ~overlapped' PROVE OneAtATime' /\ KeptInv'
    <3>1. ~overlapped /\ Saving = {k} /\ Saving' = {k} /\ OneAtATime /\ KeptInv
      <4>1. ~overlapped /\ OneAtATime /\ KeptInv
        BY <2>1, <2>6 DEF SavingInv
      <4>2. Saving = {k}
        BY <2>2, <4>1 DEF OneAtATime
      <4> QED BY <2>2, <4>1, <4>2
    <3>2. f # file /\ file \in Files
      BY <2>1, <3>1 DEF OneAtATime, StateTypeOK
    <3>3. saves'[f].stage \notin {"none", "new"}
      BY <2>1, <2>2, <3>1 DEF OneAtATime
    <3>4. \A j \in Saves \ {k} : saves'[j].stage \notin Under
      BY <2>2, <3>1 DEF Saving
    <3>5. OneAtATime'
      BY <2>1, <2>2, <2>3, <3>1, <3>2, <3>3, <3>4 DEF OneAtATime, Under
    <3>6. KeptInv'
      BY <2>1, <2>3, <3>1, <3>2 DEF KeptInv
    <3> QED BY <3>5, <3>6
  <2> QED BY <2>4, <2>5, <2>6 DEF SavingInv
<1>2. CASE WriteTmp(k)
  <2>1. PICK content \in {saves[k].what, Torn} :
          /\ content = Torn => data[saves[k].into] # Empty
          /\ data' = [data EXCEPT ![saves[k].into] = content]
    BY <1>2 DEF WriteTmp
  <2>2. /\ saves[k].stage = "opened"
        /\ saves' = [saves EXCEPT ![k].stage = "written"]
        /\ UNCHANGED <<last, tmp, file, overlapped, failed, kept>>
    BY <1>2 DEF WriteTmp
  <2>3. /\ saves' \in [Saves -> [what : Conversations \cup {Nobody}, stage : Stages, into : Files]]
        /\ saves'[k].what = saves[k].what /\ saves'[k].stage = "written" /\ saves'[k].into = saves[k].into
        /\ \A j \in Saves \ {k} : saves'[j] = saves[j]
        /\ Made' = Made /\ Saving' = Saving \cup {k} /\ k \in Saving /\ k \in Made
    <3>1. saves[k].stage # "none" /\ "written" \in Stages \ {"none"} /\ "written" \in Under
      BY <2>2 DEF Stages, Under
    <3>2. k \in Saving
      BY <2>2 DEF Saving, Under
    <3> QED BY <2>2, <3>1, <3>2, SaveMoves
  <2>4. saves[k].what \in spoken /\ saves[k].what \in Conversations \cup {Nobody}
    BY <2>3 DEF SpokenInv, StateTypeOK
  <2>5. saves[k].what \in Conversations
    BY <2>4
  <2>6. /\ data' \in [Saves -> Contents]
        /\ \A g \in Saves : data'[g] = IF g = saves[k].into THEN content ELSE data[g]
    BY <2>1, <2>5 DEF StateTypeOK, Contents
  <2>7. StateTypeOK'
    BY <2>2, <2>3, <2>6 DEF StateTypeOK
  <2>8. SpokenInv'
    BY <2>1, <2>2, <2>3, <2>4, <2>6 DEF SpokenInv, Made
  <2>9. ASSUME ~overlapped' PROVE OneAtATime' /\ KeptInv'
    <3>1. ~overlapped /\ Saving = {k} /\ Saving' = {k} /\ OneAtATime /\ KeptInv
      BY <2>2, <2>3, <2>9 DEF SavingInv, OneAtATime
    <3>2. tmp \in Saves /\ saves[k].into = tmp /\ tmp # file /\ data[tmp] = Empty /\ file \in Files
      BY <2>2, <3>1 DEF OneAtATime, StateTypeOK
    <3>3. content = saves[k].what
      BY <2>1, <3>2
    <3>4. \A j \in Saves \ {k} : saves'[j].stage \notin Under
      BY <2>3, <3>1 DEF Saving
    <3>5. OneAtATime'
      BY <2>2, <2>3, <2>6, <3>1, <3>2, <3>3, <3>4 DEF OneAtATime, Under
    <3>6. KeptInv'
      BY <2>2, <2>6, <3>1, <3>2 DEF KeptInv
    <3> QED BY <3>5, <3>6
  <2> QED BY <2>7, <2>8, <2>9 DEF SavingInv
<1>3. CASE RenameTmp(k)
  <2>1. /\ saves[k].stage = "written" /\ tmp # 0
        /\ file' = tmp /\ tmp' = 0 /\ kept' = saves[k].what
        /\ saves' = [saves EXCEPT ![k].stage = "over"]
        /\ UNCHANGED <<last, data, overlapped, failed>>
    BY <1>3 DEF RenameTmp
  <2>2. /\ saves' \in [Saves -> [what : Conversations \cup {Nobody}, stage : Stages, into : Files]]
        /\ saves'[k].what = saves[k].what /\ saves'[k].stage = "over"
        /\ \A j \in Saves \ {k} : saves'[j] = saves[j]
        /\ Made' = Made /\ Saving' = Saving \ {k} /\ k \in Saving
    <3>1. saves[k].stage # "none" /\ "over" \in Stages \ {"none"}
      BY <2>1 DEF Stages
    <3>2. k \in Saving
      BY <2>1 DEF Saving, Under
    <3> QED BY <2>1, <3>1, <3>2, SaveMoves
  <2>3. StateTypeOK'
    BY <2>1, <2>2 DEF StateTypeOK
  <2>4. SpokenInv'
    BY <2>1, <2>2 DEF SpokenInv, Made
  <2>5. ASSUME ~overlapped' PROVE OneAtATime' /\ KeptInv'
    <3>1. ~overlapped /\ Saving = {k} /\ Saving' = {} /\ OneAtATime /\ KeptInv
      BY <2>1, <2>2, <2>5 DEF SavingInv, OneAtATime
    <3>2. tmp \in Saves /\ data[tmp] = saves[k].what /\ saves[k].what = last /\ last \in Conversations
      BY <2>1, <2>2, <3>1 DEF OneAtATime, StateTypeOK
    <3>3. saves'[tmp].stage \notin {"none", "new"}
      BY <2>1, <2>2, <3>1, <3>2 DEF OneAtATime
    <3>4. \A j \in Saves : saves'[j].stage \notin Under
      BY <2>2, <3>1 DEF Saving
    <3>5. OneAtATime'
      BY <2>1, <3>1, <3>2, <3>3, <3>4 DEF OneAtATime, Under
    <3>6. KeptInv'
      BY <2>1, <3>1, <3>2 DEF KeptInv
    <3> QED BY <3>5, <3>6
  <2> QED BY <2>3, <2>4, <2>5 DEF SavingInv
<1>4. CASE RenameMissed(k) \/ RemoveTmp(k)
  <2> DEFINE s == IF saves[k].stage = "written" THEN "missed" ELSE "over"
  <2>1. /\ saves[k].stage \in {"written", "missed"} /\ s \in Stages /\ tmp' = 0
        /\ saves[k].stage = "written" => tmp = 0
        /\ saves' = [saves EXCEPT ![k].stage = s]
        /\ failed' \in BOOLEAN
        /\ UNCHANGED <<last, file, data, overlapped, kept>>
    BY <1>4 DEF RenameMissed, RemoveTmp, Stages, StateTypeOK
  <2>2. /\ saves' \in [Saves -> [what : Conversations \cup {Nobody}, stage : Stages, into : Files]]
        /\ saves'[k].what = saves[k].what
        /\ Made' = Made /\ \A j \in Saves : saves'[j].what = saves[j].what
    <3>1. saves[k].stage # "none" /\ s \in Stages \ {"none"}
      BY <2>1
    <3> HIDE DEF s
    <3> QED BY <2>1, <3>1, SaveMoves
  <2>3. StateTypeOK'
    BY <2>1, <2>2 DEF StateTypeOK
  <2>4. SpokenInv'
    BY <2>1, <2>2 DEF SpokenInv
  <2>5. overlapped'
    BY <2>1 DEF SavingInv, OneAtATime, StateTypeOK
  <2> QED BY <2>3, <2>4, <2>5 DEF SavingInv
<1>5. CASE SaveFails(k)
  <2>1. /\ saves[k].stage \in {"new", "opened"}
        /\ saves' = [saves EXCEPT ![k].stage = "over"] /\ failed'
        /\ UNCHANGED <<last, tmp, file, data, overlapped, kept>>
    BY <1>5 DEF SaveFails
  <2>2. /\ saves' \in [Saves -> [what : Conversations \cup {Nobody}, stage : Stages, into : Files]]
        /\ saves'[k].what = saves[k].what /\ saves'[k].stage = "over"
        /\ \A j \in Saves \ {k} : saves'[j] = saves[j]
        /\ Made' = Made /\ Saving' = Saving \ {k} /\ k \in Saving
    <3>1. saves[k].stage # "none" /\ "over" \in Stages \ {"none"}
      BY <2>1 DEF Stages
    <3>2. k \in Saving
      BY <2>1 DEF Saving, Under
    <3> QED BY <2>1, <3>1, <3>2, SaveMoves
  <2>3. StateTypeOK'
    BY <1>5, <2>1, <2>2 DEF StateTypeOK, SaveFails
  <2>4. SpokenInv'
    BY <2>1, <2>2 DEF SpokenInv, Made
  <2>5. ASSUME ~overlapped' PROVE OneAtATime' /\ KeptInv'
    <3>1. ~overlapped /\ Saving = {k} /\ Saving' = {} /\ OneAtATime /\ KeptInv
      BY <2>1, <2>2, <2>5 DEF SavingInv, OneAtATime
    <3>2. /\ tmp # 0 => saves'[tmp].stage \notin {"none", "new"}
          /\ file # 0 => saves'[file].stage \notin {"none", "new"}
      <4>1. \A j \in Saves : saves[j].stage \notin {"none", "new"} => saves'[j].stage \notin {"none", "new"}
        BY <2>2
      <4> QED BY <3>1, <4>1 DEF OneAtATime, StateTypeOK
    <3>3. \A j \in Saves : saves'[j].stage \notin Under
      BY <2>2, <3>1 DEF Saving
    <3>4. OneAtATime'
      BY <2>1, <3>1, <3>2, <3>3 DEF OneAtATime, Under
    <3>5. KeptInv'
      BY <2>1, <3>1 DEF KeptInv
    <3> QED BY <3>4, <3>5
  <2> QED BY <2>3, <2>4, <2>5 DEF SavingInv
<1> QED BY <1>1, <1>2, <1>3, <1>4, <1>5 DEF SaveStep

(* A process that ends has saved or lost what it had; the next one reads   *)
(* what the file holds.                                                    *)
LEMMA StopKeeps ==
  ASSUME StateTypeOK, SpokenInv, SavingInv, ~up', up' \in BOOLEAN, StopSaving, UNCHANGED spoken
  PROVE  StateTypeOK' /\ SpokenInv' /\ SavingInv'
<1> USE Distinct
<1>1. /\ saves' \in [Saves -> [what : Conversations \cup {Nobody}, stage : Stages, into : Files]]
      /\ \A k \in Saves : /\ saves'[k].what = saves[k].what
                          /\ IF k \in Saving THEN saves'[k].stage = "over" ELSE saves'[k] = saves[k]
  BY DEF StopSaving, StateTypeOK, Stages
<1>2. Made' = Made
  BY <1>1 DEF Made, Saving, Under
<1>3. Saving' = {}
  BY <1>1 DEF Saving, Under
<1>4. UNCHANGED <<last, tmp, file, data, overlapped, failed, kept>>
  BY DEF StopSaving
<1>5. StateTypeOK'
  BY <1>1, <1>4 DEF StateTypeOK
<1>6. SpokenInv'
  BY <1>1, <1>2, <1>4 DEF SpokenInv, Made
<1>7. ASSUME ~overlapped' PROVE OneAtATime' /\ KeptInv'
  <2>1. OneAtATime /\ KeptInv
    BY <1>4, <1>7 DEF SavingInv
  <2>2. \A k \in Saves : saves'[k].stage \notin Under
    BY <1>3 DEF Saving
  <2>3. \A k \in Saves : saves[k].stage \notin {"none", "new"} => saves'[k].stage \notin {"none", "new"}
    BY <1>1
  <2>4. OneAtATime'
    BY <1>3, <1>4, <2>1, <2>2, <2>3 DEF OneAtATime, Under, StateTypeOK
  <2>5. KeptInv'
    BY <1>4, <2>1 DEF KeptInv
  <2> QED BY <2>4, <2>5
<1> QED BY <1>3, <1>5, <1>6, <1>7 DEF SavingInv

(* A new process starts from what the file holds and no temporary file.    *)
LEMMA LoadKeeps ==
  ASSUME StateTypeOK, SpokenInv, SavingInv, ~up, up', up' \in BOOLEAN, Load, UNCHANGED spoken
  PROVE  StateTypeOK' /\ SpokenInv' /\ SavingInv'
<1> USE Distinct
<1>1. /\ last' = Stored /\ tmp' = 0
      /\ UNCHANGED <<saves, file, data, overlapped, failed, kept>>
  BY DEF Load
<1>2. /\ Stored \in Conversations \cup {Nobody}
      /\ Stored # Nobody => file # 0 /\ Stored = data[file] /\ Stored \in Conversations
  BY DEF Stored
<1>3. StateTypeOK'
  BY <1>1, <1>2 DEF StateTypeOK
<1>4. SpokenInv'
  BY <1>1, <1>2 DEF SpokenInv, Made, StateTypeOK
<1>5. Saving' = {} /\ Saving = {}
  BY <1>1 DEF SavingInv, Saving
<1>6. ASSUME ~overlapped' PROVE OneAtATime' /\ KeptInv'
  <2>1. OneAtATime /\ KeptInv
    BY <1>1, <1>6 DEF SavingInv
  <2>2. Stored = kept
    BY <2>1 DEF KeptInv, Stored
  <2>3. \A k \in Saves : saves[k].stage \notin Under
    BY <1>5 DEF Saving
  <2>4. OneAtATime'
    BY <1>1, <1>5, <2>1, <2>3 DEF OneAtATime, Under
  <2>5. KeptInv'
    BY <1>1, <2>1, <2>2 DEF KeptInv
  <2> QED BY <2>4, <2>5
<1> QED BY <1>3, <1>4, <1>5, <1>6 DEF SavingInv

-----------------------------------------------------------------------------
(* Lemmas about targets and answers.                                       *)

(* resolve_target returns an address of the right kind, whoever was active *)
(* last.                                                                   *)
LEMMA TargetsAimed ==
  ASSUME settings \in [target : Targets, allowed : BOOLEAN],
         NEW c \in Conversations \cup {Nobody}
  PROVE  ResolveTarget(c) \in Answers /\ Aimed(ResolveTarget(c))
<1> USE HeartbeatAssumption
<1>1. CASE settings.target # None
  <2>1. settings.target \in Channels
    BY <1>1
  <2>2. settings.target \in Names /\ HeartbeatSession[settings.target] \in Sessions
    BY <2>1 DEF Names, Sessions
  <2> QED BY <1>1, <2>2 DEF ResolveTarget, Answers, Addresses, Aimed
<1>2. CASE settings.target = None /\ c # Nobody /\ Prefix[c.session] \notin Internal
  <2>1. c \in Conversations /\ c.session \in DOMAIN Prefix
    BY <1>2
  <2>2. Prefix[c.session] \in Names /\ c.session \in Sessions
    BY <2>1 DEF Names, Sessions
  <2> QED BY <1>2, <2>1, <2>2 DEF ResolveTarget, Answers, Addresses, Aimed
<1>3. CASE settings.target = None /\ ~(c # Nobody /\ Prefix[c.session] \notin Internal)
  <2>1. SystemChannel \in Names /\ FallbackSession \in Sessions
    BY DEF Names, Sessions
  <2> QED BY <1>3, <2>1 DEF ResolveTarget, Answers, Addresses, Aimed
<1> QED BY <1>1, <1>2, <1>3

AnswerType == [to : Addresses, user : Conversations \cup {Nobody}, named : BOOLEAN] \cup {NoAnswer}
AnswerAimed == answer # NoAnswer => answer.to.channel \in Channels /\ (answer.named \/ Aimed(answer))

(* What reaches a channel is as well aimed as what was sent.               *)
LEMMA DeliveredAimed ==
  ASSUME answer \in AnswerType, AnswerAimed, UNCHANGED settings,
         NEW to \in Addresses, NEW user \in Conversations \cup {Nobody}, NEW named \in BOOLEAN,
         named \/ Aimed([to |-> to, user |-> user]),
         Deliver(to, user, named)
  PROVE  answer' \in AnswerType /\ AnswerAimed'
<1>1. CASE to.channel \in Channels
  <2>1. answer' = [to |-> to, user |-> user, named |-> named]
    BY <1>1 DEF Deliver
  <2>2. answer' \in AnswerType
    BY <2>1 DEF AnswerType
  <2>3. answer'.to = to /\ answer'.user = user /\ answer'.named = named
    BY <2>1
  <2>4. answer'.named \/ Aimed(answer)'
    BY <2>3 DEF Aimed
  <2> QED BY <1>1, <2>2, <2>3, <2>4 DEF AnswerAimed
<1>2. CASE to.channel \notin Channels
  BY <1>2 DEF Deliver, AnswerAimed, Aimed
<1> QED BY <1>1, <1>2

-----------------------------------------------------------------------------
(* The invariant and the theorems.                                         *)

Messages == [sender : {"user", "heartbeat"}, to : Addresses \cup Conversations,
             user : Conversations \cup {Nobody}]
MessageAimed(m) ==
  IF m.sender = "user" THEN m.to \in Conversations
  ELSE m.user \in Conversations \cup {Nobody} /\ Aimed(m)

(* The bus stays in order when a message is added or taken.                *)
LEMMA BusKeeps ==
  ASSUME inbound \in Seq(Messages), \A i \in 1..Len(inbound) : MessageAimed(inbound[i]),
         Len(inbound) <= InboundCapacity, UNCHANGED settings,
         \/ UNCHANGED inbound
         \/ inbound' = <<>>
         \/ inbound # <<>> /\ inbound' = Tail(inbound)
         \/ /\ Len(inbound) < InboundCapacity
            /\ \E m \in Messages : MessageAimed(m) /\ inbound' = Append(inbound, m)
  PROVE  /\ inbound' \in Seq(Messages) /\ Len(inbound') <= InboundCapacity
         /\ (\A i \in 1..Len(inbound) : MessageAimed(inbound[i]))'
<1>1. InboundCapacity \in Nat /\ Len(inbound) \in Nat
  BY HeartbeatAssumption
<1>2. inbound' \in Seq(Messages) /\ \A i \in 1..Len(inbound') : MessageAimed(inbound'[i])
  <2>1. CASE UNCHANGED inbound
    BY <2>1
  <2>2. CASE inbound' = <<>>
    BY <2>2
  <2>3. CASE inbound # <<>> /\ inbound' = Tail(inbound)
    BY <2>3
  <2>4. CASE \E m \in Messages : MessageAimed(m) /\ inbound' = Append(inbound, m)
    <3>1. PICK m \in Messages : MessageAimed(m) /\ inbound' = Append(inbound, m)
      BY <2>4
    <3>2. Len(inbound') = Len(inbound) + 1 /\ inbound'[Len(inbound) + 1] = m
          /\ \A i \in 1..Len(inbound) : inbound'[i] = inbound[i]
      BY <3>1
    <3> QED BY <1>1, <3>1, <3>2
  <2> QED BY <2>1, <2>2, <2>3, <2>4
<1>3. (\A i \in 1..Len(inbound) : MessageAimed(inbound[i]))'
  BY <1>2 DEF MessageAimed, Aimed
<1>4. Len(inbound') <= InboundCapacity
  BY <1>1
<1> QED BY <1>2, <1>3, <1>4

(* Inv in the parts the steps change. *)
FileInv == StateTypeOK /\ SpokenInv /\ SavingInv
BusInv ==
  /\ inbound \in Seq(Messages) /\ Len(inbound) <= InboundCapacity
  /\ \A i \in 1..Len(inbound) : MessageAimed(inbound[i])
TasksInv ==
  /\ target \in Answers \cup {NoTarget}
  /\ batch \subseteq Tasks /\ ticks \in 0..MaxTicks
  /\ batch # {} => target \in Answers /\ Aimed(target)
  /\ long \subseteq Answers /\ \A r \in long : Aimed(r)
AnswerInv == answer \in AnswerType /\ AnswerAimed
UsersInv == settings \in [target : Targets, allowed : BOOLEAN] /\ spoken \subseteq Conversations

(* The parts are the invariant.                                            *)
LEMMA Parts == Inv <=> FileInv /\ BusInv /\ TasksInv /\ AnswerInv /\ UsersInv
BY DEF Inv, TypeOK, AimedInv, FileInv, BusInv, TasksInv, AnswerInv, UsersInv, MessageAimed,
       Messages, AnswerType, AnswerAimed

(* A step that leaves the file's variables alone keeps what is known of it. *)
LEMMA FileStays ==
  ASSUME FileInv, UNCHANGED <<up, stateVars, spoken>>
  PROVE  FileInv'
BY DEF FileInv, StateTypeOK, SpokenInv, SavingInv, OneAtATime, KeptInv, Saving, Made, stateVars

(* A step that runs no task keeps the targets of those that run.           *)
LEMMA TasksStay ==
  ASSUME TasksInv, UNCHANGED <<settings, target, batch, ticks, long>>
  PROVE  TasksInv'
BY DEF TasksInv, Aimed

(* A step that answers nothing keeps what is known of the answer.          *)
LEMMA AnswerStays ==
  ASSUME AnswerInv, UNCHANGED <<settings, answer>>
  PROVE  AnswerInv'
BY DEF AnswerInv, AnswerAimed, Aimed

(* The daemon starts in the invariant.                                     *)
LEMMA InvInit == Init => Inv
<1> SUFFICES ASSUME Init PROVE FileInv /\ BusInv /\ TasksInv /\ AnswerInv /\ UsersInv
  BY Parts
<1> USE Distinct
<1>1. FileInv
  <2>1. StateTypeOK
    <3>1. [what |-> Nobody, stage |-> "none", into |-> 0]
            \in [what : Conversations \cup {Nobody}, stage : Stages, into : Files]
      BY DEF Stages
    <3>2. saves \in [Saves -> [what : Conversations \cup {Nobody}, stage : Stages, into : Files]]
      BY <3>1 DEF Init, InitState
    <3>3. data \in [Saves -> Contents]
      BY DEF Init, InitState, Contents
    <3>4. /\ last = Nobody /\ tmp = 0 /\ file = 0 /\ kept = Nobody
      BY DEF Init, InitState
    <3>5. up \in BOOLEAN /\ overlapped \in BOOLEAN /\ failed \in BOOLEAN
      BY DEF Init, InitState
    <3>6. tmp \in Files /\ file \in Files
      BY <3>4
    <3> QED BY <3>2, <3>3, <3>4, <3>5, <3>6 DEF StateTypeOK
  <2>2. Made = {} /\ Saving = {} /\ last = Nobody
    BY DEF Init, InitState, Made, Saving, Under
  <2>3. SpokenInv
    BY <2>2 DEF Init, InitState, SpokenInv
  <2>4. OneAtATime /\ KeptInv
    BY <2>2 DEF Init, InitState, OneAtATime, KeptInv
  <2> QED BY <2>1, <2>2, <2>3, <2>4 DEF FileInv, SavingInv
<1>2. BusInv
  BY HeartbeatAssumption DEF Init, BusInv
<1>3. TasksInv
  BY HeartbeatAssumption DEF Init, TasksInv
<1>4. AnswerInv
  BY DEF Init, AnswerInv, AnswerType, AnswerAimed
<1>5. UsersInv
  BY DEF Init, UsersInv
<1> QED BY <1>1, <1>2, <1>3, <1>4, <1>5

(* No step of the program breaks the invariant.                            *)
LEMMA InvStep == Inv /\ [Next]_vars => Inv'
<1> SUFFICES ASSUME FileInv, BusInv, TasksInv, AnswerInv, UsersInv, [Next]_vars
             PROVE  FileInv' /\ BusInv' /\ TasksInv' /\ AnswerInv' /\ UsersInv'
  BY Parts, PTL
<1>1. ASSUME NEW c \in Conversations, UserMessage(c)
      PROVE  FileInv' /\ BusInv' /\ TasksInv' /\ AnswerInv' /\ UsersInv'
  <2>1. [sender |-> "user", to |-> c, user |-> c] \in Messages
    BY DEF Messages
  <2>2. BusInv'
    <3>1. MessageAimed([sender |-> "user", to |-> c, user |-> c])
      BY DEF MessageAimed
    <3> QED BY <1>1, <2>1, <3>1, BusKeeps DEF UserMessage, BusInv
  <2> QED BY <1>1, <2>2, FileStays, TasksStay, AnswerStays DEF UserMessage, UsersInv
<1>2. ASSUME Tick
      PROVE  FileInv' /\ BusInv' /\ TasksInv' /\ AnswerInv' /\ UsersInv'
  <2>1. last \in Conversations \cup {Nobody}
    BY DEF FileInv, StateTypeOK
  <2>2. ResolveTarget(last) \in Answers /\ Aimed(ResolveTarget(last))
    BY <2>1, TargetsAimed DEF UsersInv
  <2>3. TasksInv'
    BY <1>2, <2>2, HeartbeatAssumption DEF Tick, TasksInv, Aimed
  <2>4. BusInv'
    BY <1>2, BusKeeps DEF Tick, BusInv
  <2> QED BY <1>2, <2>3, <2>4, FileStays, AnswerStays DEF Tick, UsersInv
<1>3. ASSUME NEW t \in Tasks, RunTask(t)
      PROVE  FileInv' /\ BusInv' /\ TasksInv' /\ AnswerInv' /\ UsersInv'
  <2>1. target \in Answers /\ Aimed(target)
    BY <1>3 DEF RunTask, TasksInv
  <2>2. TasksInv'
    BY <1>3, <2>1 DEF RunTask, TasksInv, Aimed
  <2>3. BusInv'
    <3> DEFINE m == [sender |-> "heartbeat", to |-> target.to, user |-> target.user]
    <3>1. m \in Messages /\ MessageAimed(m)
      BY <2>1 DEF Messages, MessageAimed, Answers, Aimed
    <3>2. \/ UNCHANGED inbound
          \/ Len(inbound) < InboundCapacity /\ inbound' = Append(inbound, m)
      BY <1>3 DEF RunTask
    <3> HIDE DEF m
    <3> QED BY <1>3, <3>1, <3>2, BusKeeps DEF RunTask, BusInv
  <2> QED BY <1>3, <2>2, <2>3, FileStays, AnswerStays DEF RunTask, UsersInv
<1>4. ASSUME Dispatch
      PROVE  FileInv' /\ BusInv' /\ TasksInv' /\ AnswerInv' /\ UsersInv'
  <2>1. Head(inbound) \in Messages /\ MessageAimed(Head(inbound))
    BY <1>4 DEF Dispatch, BusInv
  <2>2. BusInv'
    BY <1>4, BusKeeps DEF Dispatch, BusInv
  <2>3. TasksInv'
    BY <1>4, TasksStay DEF Dispatch
  <2>4. CASE Head(inbound).sender = "user"
    <3> DEFINE c == Head(inbound).to
    <3>1. c \in Conversations
      BY <2>1, <2>4 DEF MessageAimed
    <3>2. /\ up /\ up' = up /\ Record(c) /\ spoken' = spoken \cup {c}
          /\ UNCHANGED <<settings, answer>>
      BY <1>4, <2>4 DEF Dispatch
    <3> HIDE DEF c
    <3>3. FileInv'
      BY <3>1, <3>2, RecordKeeps DEF FileInv
    <3> QED BY <2>2, <2>3, <3>1, <3>2, <3>3, AnswerStays DEF UsersInv
  <2>5. CASE Head(inbound).sender # "user"
    <3>1. /\ Head(inbound).to \in Addresses
          /\ Head(inbound).user \in Conversations \cup {Nobody}
          /\ Aimed([to |-> Head(inbound).to, user |-> Head(inbound).user])
      BY <2>1, <2>5 DEF MessageAimed, Aimed
    <3>2. /\ UNCHANGED <<up, stateVars, spoken, settings>>
          /\ Deliver(Head(inbound).to, Head(inbound).user, FALSE) \/ UNCHANGED answer
      BY <1>4, <2>5 DEF Dispatch
    <3>3. AnswerInv'
      BY <3>1, <3>2, DeliveredAimed, AnswerStays DEF AnswerInv
    <3> QED BY <2>2, <2>3, <3>2, <3>3, FileStays DEF UsersInv
  <2> QED BY <2>4, <2>5
<1>5. ASSUME NEW r \in long, LongReport(r)
      PROVE  FileInv' /\ BusInv' /\ TasksInv' /\ AnswerInv' /\ UsersInv'
  <2>1. r \in Answers /\ Aimed(r)
    BY DEF TasksInv
  <2>2. r.to \in Addresses /\ r.user \in Conversations \cup {Nobody} /\ Aimed([to |-> r.to, user |-> r.user])
    BY <2>1 DEF Answers, Aimed
  <2>3. Elsewhere \subseteq Addresses
    BY HeartbeatAssumption DEF Addresses, Names, Sessions
  <2>4. /\ UNCHANGED <<up, settings, stateVars, inbound, target, batch, ticks, long, spoken>>
        /\ \/ Deliver(r.to, r.user, FALSE)
           \/ \E to \in Elsewhere : Deliver(to, r.user, TRUE)
    BY <1>5 DEF LongReport
  <2>5. AnswerInv'
    BY <2>2, <2>3, <2>4, DeliveredAimed DEF AnswerInv
  <2>6. BusInv'
    BY <2>4, BusKeeps DEF BusInv
  <2> QED BY <2>4, <2>5, <2>6, FileStays, TasksStay DEF UsersInv
<1>6. ASSUME NEW r \in long, LongEnd(r)
      PROVE  FileInv' /\ BusInv' /\ TasksInv' /\ AnswerInv' /\ UsersInv'
  <2>1. TasksInv'
    BY <1>6 DEF LongEnd, TasksInv, Aimed
  <2>2. BusInv'
    BY <1>6, BusKeeps DEF LongEnd, BusInv
  <2> QED BY <1>6, <2>1, <2>2, FileStays, AnswerStays DEF LongEnd, UsersInv
<1>7. ASSUME NEW k \in Saves, Save(k)
      PROVE  FileInv' /\ BusInv' /\ TasksInv' /\ AnswerInv' /\ UsersInv'
  <2>1. up /\ SaveStep(k) /\ UNCHANGED <<up, settings, inbound, target, batch, ticks, long, answer, spoken>>
    BY <1>7 DEF Save, beatVars
  <2>2. FileInv'
    BY <2>1, SaveKeeps DEF FileInv, UsersInv
  <2>3. BusInv'
    BY <2>1, BusKeeps DEF BusInv
  <2> QED BY <2>1, <2>2, <2>3, TasksStay, AnswerStays DEF UsersInv
<1>8. ASSUME Stop
      PROVE  FileInv' /\ BusInv' /\ TasksInv' /\ AnswerInv' /\ UsersInv'
  <2>1. FileInv'
    BY <1>8, StopKeeps DEF Stop, FileInv
  <2>2. BusInv'
    BY <1>8, BusKeeps DEF Stop, BusInv
  <2>3. TasksInv'
    BY <1>8 DEF Stop, TasksInv
  <2> QED BY <1>8, <2>1, <2>2, <2>3, AnswerStays DEF Stop, UsersInv
<1>9. ASSUME Restart
      PROVE  FileInv' /\ BusInv' /\ TasksInv' /\ AnswerInv' /\ UsersInv'
  <2>1. ~up /\ up' = TRUE /\ Load
        /\ UNCHANGED <<settings, inbound, target, batch, ticks, long, answer, spoken>>
    BY <1>9 DEF Restart, beatVars
  <2>2. FileInv'
    BY <2>1, LoadKeeps DEF FileInv
  <2>3. BusInv'
    BY <2>1, BusKeeps DEF BusInv
  <2> QED BY <2>1, <2>2, <2>3, TasksStay, AnswerStays DEF UsersInv
<1>10. ASSUME UNCHANGED vars
       PROVE  FileInv' /\ BusInv' /\ TasksInv' /\ AnswerInv' /\ UsersInv'
  <2>1. UNCHANGED <<up, stateVars, settings, inbound, target, batch, ticks, long, answer, spoken>>
    BY <1>10 DEF vars, beatVars
  <2>2. BusInv'
    BY <2>1, BusKeeps DEF BusInv
  <2> QED BY <2>1, <2>2, FileStays, TasksStay, AnswerStays DEF UsersInv
<1> QED BY <1>1, <1>2, <1>3, <1>4, <1>5, <1>6, <1>7, <1>8, <1>9, <1>10 DEF Next

(* The invariant holds in every state the program reaches.                 *)
THEOREM Invariant == Spec => []Inv
<1>1. Init => Inv
  BY InvInit
<1>2. Inv /\ [Next]_vars => Inv'
  BY InvStep
<1> QED BY <1>1, <1>2, PTL DEF Spec

(* Types and capacities, for any number of conversations, saves and ticks. *)
THEOREM TypeCorrect == Spec => []TypeOK
<1>1. Inv => TypeOK
  BY DEF Inv
<1> QED BY <1>1, Invariant, PTL

(* The state file holds the last whole state that was renamed into place,  *)
(* wherever the process stops, unless two saves overlapped.                *)
THEOREM FileDurable == Spec => []Durable
<1>1. Inv => Durable
  <2> SUFFICES ASSUME Inv, ~overlapped PROVE Durable
    BY DEF Durable
  <2>1. KeptInv
    BY DEF Inv, SavingInv
  <2>2. Stored = kept
    BY <2>1 DEF KeptInv, Stored
  <2> QED BY <2>1, <2>2 DEF KeptInv, Durable
<1> QED BY <1>1, Invariant, PTL

(* Only a conversation in which a user has spoken is ever last active,     *)
(* even when saves overlap, fail or are cut off.                           *)
THEOREM NeverItsOwnTarget == Spec => []OnlyUsersAreTargets
<1>1. Inv => OnlyUsersAreTargets
  BY DEF Inv, SpokenInv, OnlyUsersAreTargets
<1> QED BY <1>1, Invariant, PTL

(* Answers reach the configured channel, or the conversation that was      *)
(* active at their tick, whatever happened in between.                     *)
THEOREM AnswersReachTheirUser == Spec => []ToTheLastUser
<1>1. Inv => ToTheLastUser
  <2> SUFFICES ASSUME Inv, answer # NoAnswer, ~answer.named, settings.target = None,
                      OwnName(answer.user)
               PROVE  answer.to = answer.user
    BY DEF ToTheLastUser, Inv, AimedInv, Aimed
  <2>1. Aimed(answer) /\ answer.to.channel \in Channels
    BY DEF Inv, AimedInv
  <2> QED BY <2>1, HeartbeatAssumption DEF Aimed, OwnName
<1> QED BY <1>1, Invariant, PTL
=============================================================================
