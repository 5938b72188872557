------------------------------ MODULE Allowlist ------------------------------
(***************************************************************************)
(* Who may talk to a channel (crates/adaclaw-channels/src/base.rs): the    *)
(* entries of allow_from and allow_from_groups against what a platform     *)
(* says of a sender, which is an id, or an id and a username.              *)
(*                                                                         *)
(* A text is a sequence of letters; "|" parts id and username, "@" may     *)
(* stand before an entry, and "*" makes it a pattern.                      *)
(***************************************************************************)
EXTENDS Codes

CONSTANTS
  Letters,
  AllowLists, GroupLists,       \* what the two lists may hold
  SenderTexts,                  \* what platforms say of senders
  Lower                         \* to_lowercase of the letters that have one

VARIABLES
  allowFrom, allowFromGroups,   \* the lists
  asker,                        \* who sent a message, and whether in a group
  admitted                      \* "open", "yes" or "no"

allowVars == <<allowFrom, allowFromGroups, asker, admitted>>

AllowInit ==
  /\ allowFrom \in AllowLists /\ allowFromGroups \in GroupLists
  /\ asker \in [text : SenderTexts, group : BOOLEAN]
  /\ admitted = "open"

-----------------------------------------------------------------------------
Lowered(text) == [i \in DOMAIN text |-> IF text[i] \in DOMAIN Lower THEN Lower[text[i]] ELSE text[i]]
Has(text, letter) == \E i \in DOMAIN text : text[i] = letter

(* trim_start_matches('@') *)
Trimmed(text) ==
  LET ats == CHOOSE k \in 0..Len(text) :
               (\A i \in 1..k : text[i] = "@") /\ (k < Len(text) => text[k + 1] # "@")
  IN SubSeq(text, ats + 1, Len(text))

(* A pattern is split at its stars: where the part before place i begins.   *)
Before(pattern, i) ==
  CHOOSE j \in 0..(i - 1) : /\ j = 0 \/ pattern[j] = "*"
                            /\ \A k \in (j + 1)..(i - 1) : pattern[k] # "*"
Part(pattern, i) == SubSeq(pattern, Before(pattern, i) + 1, i - 1)
LastPart(pattern) == Part(pattern, Len(pattern) + 1)

Occurs(part, text, k) ==
  k + Len(part) <= Len(text) /\ SubSeq(text, k + 1, k + Len(part)) = part

Finds(part, text, from) == {k \in from..Len(text) : Occurs(part, text, k)}
FirstFind(part, text, from) ==
  CHOOSE k \in Finds(part, text, from) : \A j \in Finds(part, text, from) : k <= j

(* glob_match_pattern: each part where it first occurs after the one before *)
(* it, the first at the beginning.  Past the end of the text means that one *)
(* was not found.                                                           *)
Glob(pattern, text) ==
  LET none == Len(text) + 1
      after[i \in 0..(Len(pattern) + 1)] ==
        IF i = 0 THEN 0
        ELSE LET part == Part(pattern, i)
                 from == after[Before(pattern, i)]
             IN IF part = <<>> THEN from
                ELSE IF \/ Finds(part, text, from) = {}
                        \/ Before(pattern, i) = 0 /\ FirstFind(part, text, from) # 0 THEN none
                ELSE FirstFind(part, text, from) + Len(part)
      end == after[Len(pattern) + 1]
  IN IF ~Has(pattern, "*") THEN pattern = text
     ELSE end # none /\ (LastPart(pattern) = <<>> \/ end = Len(text))

(* The whole of what is said of a sender, its id, and its username. *)
IdAndUser(text) ==
  IF ~Has(text, "|") THEN <<text, <<>>>>
  ELSE LET bar == CHOOSE i \in DOMAIN text : text[i] = "|" /\ \A j \in 1..(i - 1) : text[j] # "|"
       IN <<SubSeq(text, 1, bar - 1), SubSeq(text, bar + 1, Len(text))>>

(* Platforms know no sender without an id. *)
ASSUME AllowAssumption ==
  /\ AllowLists \cup GroupLists \subseteq Seq(Seq(Letters)) /\ SenderTexts \subseteq Seq(Letters)
  /\ \A text \in SenderTexts : IdAndUser(text)[1] # <<>>

(* Mutant: a username that is not there is compared too. *)
NamesAlsoEmpty(text) == {text, IdAndUser(text)[1], IdAndUser(text)[2]}

NamesOf(text) ==
  {text, IdAndUser(text)[1]} \cup (IF IdAndUser(text)[2] = <<>> THEN {} ELSE {IdAndUser(text)[2]})

(* Mutant: a pattern is compared as it is written. *)
AdmitsAsWritten(entry, name) ==
  IF Has(Trimmed(entry), "*") THEN Glob(Trimmed(entry), Lowered(name))
  ELSE name \in {entry, Trimmed(entry)}

Admits(entry, name) ==
  IF Has(Trimmed(entry), "*") THEN Glob(Lowered(Trimmed(entry)), Lowered(name))
  ELSE name \in {entry, Trimmed(entry)}

MatchesAllowlist(list) ==
  \E i \in DOMAIN list : \E name \in NamesOf(asker.text) : Admits(list[i], name)

(* is_allowed and is_group_allowed *)
ListFor ==
  IF asker.group /\ allowFromGroups # <<>> THEN allowFromGroups ELSE allowFrom

Receive ==
  /\ admitted = "open"
  /\ admitted' = IF ListFor = <<>> \/ MatchesAllowlist(ListFor) THEN "yes" ELSE "no"
  /\ UNCHANGED <<allowFrom, allowFromGroups, asker>>

AllowNext == Receive

AllowSpec == AllowInit /\ [][AllowNext]_allowVars

-----------------------------------------------------------------------------
(* What a star means: any letters, or none.  How much of the text the first *)
(* letters of the pattern may stand for.                                    *)
Like(pattern, text) ==
  LET upTo[i \in 0..Len(pattern)] ==
        IF i = 0 THEN {0}
        ELSE IF pattern[i] = "*" THEN {j \in 0..Len(text) : \E k \in upTo[i - 1] : k <= j}
        ELSE {j \in 1..Len(text) : text[j] = pattern[i] /\ j - 1 \in upTo[i - 1]}
  IN Len(text) \in upTo[Len(pattern)]

Said(text) == {text, IdAndUser(text)[1], IdAndUser(text)[2]} \ {<<>>}

(* A list admits nobody who is not on it: some name the sender really has  *)
(* is like an entry.                                                       *)
AdmittedByAName ==
  admitted = "yes" /\ ListFor # <<>> =>
    \E i \in DOMAIN ListFor, name \in Said(asker.text) :
      \/ name = ListFor[i]
      \/ Like(Lowered(Trimmed(ListFor[i])), Lowered(name))

(* Whoever is on the list is admitted, in any order of the entries and any *)
(* case of a pattern; a pattern may fail its own only where what follows   *)
(* its last star occurs in the name before the end, too.                   *)
OnTheListIsAdmitted ==
  admitted = "no" =>
    \A i \in DOMAIN ListFor, name \in Said(asker.text) :
      LET entry == Trimmed(ListFor[i])
          last == LastPart(Lowered(entry))
      IN /\ ~Has(entry, "*") => name # ListFor[i] /\ name # entry
         /\ Has(entry, "*") /\ Like(Lowered(entry), Lowered(name)) =>
              last # <<>> /\ \E k \in 0..(Len(name) - Len(last) - 1) : Occurs(last, Lowered(name), k)

(* Whoever gets in has the code for it or is on the list, and whoever has  *)
(* or is gets in.                                                          *)
OnlyTheAdmittedGetIn ==
  CodesHold /\ AdmittedByAName /\ OnTheListIsAdmitted
=============================================================================
