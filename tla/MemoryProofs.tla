--------------------------- MODULE MemoryProofs ---------------------------
(***************************************************************************)
(* What holds of Memory for any number of keys, writers and files, of      *)
(* Recall for any entries and questions, and of Topics for any messages.   *)
(***************************************************************************)
EXTENDS Memory, Topics, TLAPS, FiniteSetTheorems, SequenceTheorems, WellFoundedInduction

-----------------------------------------------------------------------------
(* The writers of the index.                                               *)

IndexSteps == {"rest", "insert", "index", "unindex", "delete", "unindexOld"}
RowSet == [version : Nat, born : Nat]
WorkSet == [step : IndexSteps, keys : SUBSET MemoryKeys, version : Nat, embedded : BOOLEAN]

IndexTypes ==
  /\ rows \in [MemoryKeys -> RowSet] /\ vectors \in [MemoryKeys -> Nat]
  /\ writer \in [Writers -> WorkSet]
  /\ version \in Nat /\ day \in Nat /\ mixed \subseteq MemoryKeys

(* What a writer has in hand at each of its steps. *)
HandInv ==
  \A w \in Writers :
    /\ Stands(w, "rest") => writer[w].keys = {}
    /\ writer[w].step \in {"insert", "index", "unindex", "delete"} =>
         \E k \in MemoryKeys : writer[w].keys = {k}

(* A key whose halves are not mixed is in one writer's hands at most. *)
AloneInv ==
  \A k \in MemoryKeys \ mixed : \A v, w \in Writers :
    k \in Touches(v) /\ k \in Touches(w) => v = w

Follows(k) == vectors[k] \in {0, rows[k].version}

(* How far that writer has put it right. *)
InOrder(k, w) ==
  /\ Stands(w, "index") => rows[k].version = writer[w].version
  /\ Stands(w, "delete") => vectors[k] = 0
  /\ Stands(w, "unindexOld") => k \in writer[w].keys \/ vectors[k] = 0 \/ (~Old(k) /\ Follows(k))

KeyInv ==
  \A k \in MemoryKeys \ mixed :
    /\ k \notin InHand => Follows(k)
    /\ \A w \in Writers : k \in Touches(w) => InOrder(k, w)

IndexInv == IndexTypes /\ HandInv /\ AloneInv /\ KeyInv

-----------------------------------------------------------------------------
(* A pass of the consolidation.                                            *)

EntryCategories == {"none", "Core", "Global"}
EntrySet == [facts : SUBSET Nat, category : EntryCategories]
ListedSet == [key : EntryKeys, facts : SUBSET Nat]
Listings == Seq(ListedSet)
NameLists == Seq(STRING)
Clusterings == Seq(NameLists)
PassSet ==
  [step : {"none", "ask", "cluster", "merge", "store", "forget"}, left : Listings, batch : Listings,
   category : EntryCategories, clusters : Clusterings, losers : NameLists]

ConsolidationTypes ==
  /\ entries \in [EntryKeys -> EntrySet] /\ pass \in PassSet
  /\ nextFact \in Nat /\ rounds \in Nat
  /\ told \subseteq Nat /\ overtaken \subseteq Nat /\ orderly \in BOOLEAN

(* The facts that no pass may lose. *)
Owed == told \ overtaken

(* What is owed of an entry is what was listed of it. *)
AsListed(r) == entries[r.key].facts \cap Owed \subseteq r.facts

LeftInv ==
  pass.step # "none" =>
    /\ \A i \in DOMAIN pass.left : AsListed(pass.left[i])
    /\ \A i, j \in DOMAIN pass.left : i # j => pass.left[i].key # pass.left[j].key
    /\ \A i \in DOMAIN pass.left, j \in DOMAIN pass.batch : pass.left[i].key # pass.batch[j].key

(* Of the present batch that holds for all, and then for those that are    *)
(* named in a cluster still to come.                                       *)
BatchInv ==
  /\ NamesOnce(pass.clusters)
  /\ pass.step = "cluster" => \A i \in DOMAIN pass.batch : AsListed(pass.batch[i])
  /\ pass.step \in {"merge", "store", "forget"} =>
       \A i \in DOMAIN pass.batch : pass.batch[i].key \in Named(pass.clusters) => AsListed(pass.batch[i])

(* There is something to merge. *)
MergeInv == pass.step = "store" => pass.clusters # <<>> /\ Members # {}

(* What is owed of the entries to forget is in another one. *)
LoserInv ==
  pass.step = "forget" =>
    \E w \in EntryKeys : \A j \in DOMAIN pass.losers :
      InBatch(pass.losers[j]) =>
        pass.losers[j] # w /\ entries[pass.losers[j]].facts \cap Owed \subseteq entries[w].facts

ConsolidationInv ==
  /\ ConsolidationTypes /\ MergeInv
  /\ orderly => LeftInv /\ BatchInv /\ LoserInv /\ FactsKept

-----------------------------------------------------------------------------
(* The Markdown files.                                                     *)

EntryOfFile == [key : FileKeys, version : Nat, length : TextLengths]
EntryTexts == Seq(EntryOfFile)
FileSet == [is : {"absent", "file"}, entries : EntryTexts]
StorerSet == [step : {"none", "open"}, entry : EntryOfFile \cup {<<>>}, linked : BOOLEAN]
ListingSet == [step : {"none", "reads", "done"}, left : SUBSET MdFiles, found : SUBSET EntryTexts]

MarkdownTypes ==
  /\ mdFiles \in [MdFiles -> FileSet] /\ storer \in [Storers -> StorerSet] /\ stores \in Nat
  /\ wasStored \subseteq EntryOfFile /\ raced \subseteq MdFiles
  /\ listing \in ListingSet /\ stood \subseteq EntryOfFile

StorerInv == \A w \in Storers : storer[w].step = "open" => storer[w].entry \in wasStored

(* A file holds entries of its own; while it is written nothing is known   *)
(* to stand in it, and it is empty unless another store overlaps.          *)
FileInv ==
  \A f \in MdFiles :
    LET text == mdFiles[f].entries
    IN /\ text # <<>> =>
            /\ mdFiles[f].is = "file" /\ text[1] \in wasStored /\ FileOf[text[1].key] = f
            /\ f \notin raced => Len(text) = 1
       /\ Writing(f) # {} => mdFiles[f].is = "file" /\ \A e \in stood : FileOf[e.key] # f
       /\ f \notin raced /\ Writing(f) # {} => text = <<>> /\ \A v, w \in Writing(f) : v = w

FoundInv == EntriesAreWhole /\ \A text \in listing.found : text # <<>>

(* What has stood since the listing began was found or is still to be read.*)
StoodInv ==
  /\ listing.step # "reads" => listing.left = {}
  /\ \A e \in stood :
       \/ \E text \in listing.found : text[1] = e
       \/ /\ FileOf[e.key] \in listing.left
          /\ mdFiles[FileOf[e.key]].entries # <<>> /\ mdFiles[FileOf[e.key]].entries[1] = e

MarkdownInv == MarkdownTypes /\ StorerInv /\ FileInv /\ FoundInv /\ StoodInv

(* Which keys a writer has in hand. *)
LEMMA HandFacts ==
  /\ \A k : k \in InHand <=> \E v \in Writers : k \in Touches(v)
  /\ IndexTypes => InHand \subseteq MemoryKeys
<1>1. \A k : k \in InHand <=> \E v \in Writers : k \in Touches(v)
  BY DEF InHand
<1>2. ASSUME IndexTypes PROVE InHand \subseteq MemoryKeys
  <2>1. \A v \in Writers : Touches(v) \subseteq MemoryKeys
    BY <1>2 DEF IndexTypes, WorkSet, Touches
  <2> QED BY <1>1, <2>1
<1> QED BY <1>1, <1>2

(* A writer that rests has nothing in hand, others what they work on. *)
LEMMA TouchedKeys ==
  ASSUME IndexTypes, HandInv, NEW w \in Writers
  PROVE  /\ writer[w] \in WorkSet
         /\ Stands(w, "rest") => Touches(w) = {}
         /\ ~Stands(w, "unindexOld") => Touches(w) = writer[w].keys
         /\ Stands(w, "unindexOld") => Touches(w) = MemoryKeys
BY DEF IndexTypes, HandInv, Touches, Stands

(* To take up work leaves the invariant as it is: keys that others have in *)
(* hand are mixed from now on, and of the rest nothing is asked yet.       *)
LEMMA BeginKeeps ==
  ASSUME IndexInv, NEW w \in Writers, NEW work \in WorkSet, NEW keys \in SUBSET MemoryKeys,
         Begin(w, work, keys),
         UNCHANGED <<rows, vectors, day>>, version' \in Nat,
         \/ work.step \in {"insert", "unindex"} /\ work.keys = keys /\ \E k \in MemoryKeys : keys = {k}
         \/ work.step = "unindexOld" /\ keys = MemoryKeys /\ work.keys = {k \in MemoryKeys : Old(k)}
  PROVE  IndexInv'
<1> USE DEF IndexInv
<1>1. /\ writer' = [writer EXCEPT ![w] = work] /\ writer \in [Writers -> WorkSet]
      /\ Stands(w, "rest") /\ rows' = rows /\ vectors' = vectors /\ day' = day
      /\ mixed' = (mixed \cup (keys \cap InHand)) \ (IF work.keys = keys THEN keys \ InHand ELSE {})
  BY DEF Begin, IndexTypes
<1>2. IndexTypes'
  <2>1. mixed' \subseteq MemoryKeys /\ writer' \in [Writers -> WorkSet]
    BY <1>1 DEF IndexTypes
  <2> QED BY <1>1, <2>1 DEF IndexTypes
<1>3. writer'[w] = work /\ \A v \in Writers : v # w => writer'[v] = writer[v]
  BY <1>1
<1>4. HandInv'
  BY <1>3 DEF HandInv, Stands
<1>5. Touches(w) = {} /\ Touches(w)' = keys /\ \A v \in Writers : v # w => Touches(v)' = Touches(v)
  <2>1. Touches(w) = {}
    BY <1>1, TouchedKeys
  <2>2. Touches(w)' = keys
    BY <1>3 DEF Touches, Stands
  <2>3. \A v \in Writers : v # w => Touches(v)' = Touches(v)
    BY <1>3 DEF Touches, Stands
  <2> QED BY <2>1, <2>2, <2>3
<1>6. \A k \in MemoryKeys \ mixed' : k \in keys => k \notin InHand /\ (k \in mixed => work.keys = keys)
  BY <1>1
<1>7. \A k \in MemoryKeys \ mixed' : k \notin keys => k \notin mixed
  BY <1>1
<1>8. \A k : k \in InHand <=> \E v \in Writers : k \in Touches(v)
  BY HandFacts
<1>9. \A k : k \in InHand' <=> \E v \in Writers : k \in Touches(v)'
  BY DEF InHand
<1>10. AloneInv'
  <2> SUFFICES ASSUME NEW k \in MemoryKeys \ mixed', NEW v \in Writers, NEW u \in Writers,
                      k \in Touches(v)', k \in Touches(u)'
               PROVE  v = u
    BY DEF AloneInv
  <2>1. CASE k \in keys
    BY <2>1, <1>5, <1>6, <1>8
  <2>2. CASE k \notin keys
    BY <2>2, <1>5, <1>7 DEF AloneInv
  <2> QED BY <2>1, <2>2
<1>11. KeyInv'
  <2> SUFFICES ASSUME NEW k \in MemoryKeys \ mixed'
               PROVE  /\ k \notin InHand' => Follows(k)'
                      /\ \A v \in Writers : k \in Touches(v)' => InOrder(k, v)'
    BY DEF KeyInv
  <2>1. Follows(k)' <=> Follows(k)
    BY <1>1 DEF Follows
  <2>2. Old(k)' <=> Old(k)
    BY <1>1 DEF Old
  <2>3. CASE k \in keys
    <3>1. k \in InHand' /\ \A v \in Writers : k \in Touches(v)' => v = w
      BY <2>3, <1>5, <1>6, <1>8, <1>9
    <3>2. InOrder(k, w)'
      <4>1. CASE work.step = "unindexOld"
        <5>1. k \in work.keys \/ (~Old(k) /\ k \notin mixed /\ k \notin InHand)
          BY <4>1, <1>6, <2>3
        <5>2. k \in work.keys \/ (~Old(k) /\ Follows(k))
          BY <5>1 DEF KeyInv
        <5> QED BY <4>1, <5>2, <2>1, <2>2, <1>3 DEF InOrder, Stands
      <4>2. CASE work.step # "unindexOld"
        BY <4>2, <1>3 DEF InOrder, Stands
      <4> QED BY <4>1, <4>2
    <3> QED BY <3>1, <3>2
  <2>4. CASE k \notin keys
    <3>1. k \in MemoryKeys \ mixed /\ (k \in InHand' <=> k \in InHand)
      BY <2>4, <1>5, <1>7, <1>8, <1>9
    <3>2. ASSUME NEW v \in Writers, k \in Touches(v)' PROVE InOrder(k, v)'
      <4>1. v # w /\ k \in Touches(v)
        BY <3>2, <1>5, <2>4
      <4>2. InOrder(k, v)
        BY <4>1, <3>1 DEF KeyInv
      <4> QED BY <4>1, <4>2, <1>1, <1>3, <2>1, <2>2 DEF InOrder, Stands
    <3> QED BY <3>1, <3>2, <2>1 DEF KeyInv
  <2> QED BY <2>3, <2>4
<1> QED BY <1>2, <1>4, <1>10, <1>11

(* A step of a writer's work keeps the invariant if it changes nothing but *)
(* what the writer has in hand, and puts that in order.                    *)
LEMMA WorkKeeps ==
  ASSUME IndexInv, NEW w \in Writers,
         IndexTypes', HandInv', day' = day, mixed \subseteq mixed',
         \A v \in Writers : v # w => writer'[v] = writer[v],
         Touches(w)' \subseteq Touches(w),
         \A k \in MemoryKeys \ Touches(w) : rows'[k] = rows[k] /\ vectors'[k] = vectors[k],
         \A k \in Touches(w) \ mixed' : k \in Touches(w)' => InOrder(k, w)',
         \A k \in Touches(w) \ mixed' : k \notin Touches(w)' => Follows(k)'
  PROVE  IndexInv'
<1> USE DEF IndexInv
<1>1. \A v \in Writers : v # w => Touches(v)' = Touches(v)
  BY DEF Touches, Stands
<1>2. \A k : k \in InHand <=> \E v \in Writers : k \in Touches(v)
  BY HandFacts
<1>3. \A k : k \in InHand' <=> \E v \in Writers : k \in Touches(v)'
  BY DEF InHand
<1>4. AloneInv'
  <2> SUFFICES ASSUME NEW k \in MemoryKeys \ mixed', NEW v \in Writers, NEW u \in Writers,
                      k \in Touches(v)', k \in Touches(u)'
               PROVE  v = u
    BY DEF AloneInv
  <2>1. k \notin mixed /\ k \in Touches(v) /\ k \in Touches(u)
    BY <1>1
  <2> QED BY <2>1 DEF AloneInv
<1>5. KeyInv'
  <2> SUFFICES ASSUME NEW k \in MemoryKeys \ mixed'
               PROVE  /\ k \notin InHand' => Follows(k)'
                      /\ \A v \in Writers : k \in Touches(v)' => InOrder(k, v)'
    BY DEF KeyInv
  <2>1. k \in MemoryKeys \ mixed
    OBVIOUS
  <2>2. CASE k \in Touches(w)
    <3>1. \A v \in Writers : k \in Touches(v)' => v = w
      BY <2>1, <2>2, <1>1 DEF AloneInv
    <3> QED BY <3>1, <2>2, <1>3
  <2>3. CASE k \notin Touches(w)
    <3>1. rows'[k] = rows[k] /\ vectors'[k] = vectors[k]
      BY <2>3
    <3>2. (Follows(k)' <=> Follows(k)) /\ (Old(k)' <=> Old(k))
      BY <3>1 DEF Follows, Old
    <3>3. k \in InHand' <=> k \in InHand
      BY <2>3, <1>1, <1>2, <1>3
    <3>4. ASSUME NEW v \in Writers, k \in Touches(v)' PROVE InOrder(k, v)'
      <4>1. v # w /\ k \in Touches(v) /\ writer'[v] = writer[v]
        BY <3>4, <2>3, <1>1
      <4>2. InOrder(k, v)
        BY <4>1, <2>1 DEF KeyInv
      <4> QED BY <4>1, <4>2, <3>1, <3>2 DEF InOrder, Stands
    <3> QED BY <3>2, <3>3, <3>4, <2>1 DEF KeyInv
  <2> QED BY <2>2, <2>3
<1> QED BY <1>4, <1>5

LEMMA InsertKeeps ==
  ASSUME IndexInv, NEW w \in Writers, Insert(w)
  PROVE  IndexInv'
<1> USE DEF IndexInv
<1>1. PICK k \in MemoryKeys : writer[w].keys = {k}
  BY DEF Insert, HandInv, Stands
<1>2. /\ rows' = [rows EXCEPT ![k] = [version |-> writer[w].version, born |-> IF @.version = 0 THEN day ELSE @.born]]
      /\ mixed' = IF writer[w].embedded \/ vectors[k] = 0 THEN mixed ELSE mixed \cup {k}
      /\ IF writer[w].embedded THEN GoOn(w, "index") ELSE Rest(w)
      /\ Stands(w, "insert") /\ UNCHANGED <<vectors, version, day>>
  BY <1>1 DEF Insert
<1>3. writer[w] \in WorkSet /\ rows[k] \in RowSet /\ writer \in [Writers -> WorkSet]
  BY DEF IndexTypes
<1>4. /\ rows'[k].version = writer[w].version
      /\ \A j \in MemoryKeys : j # k => rows'[j] = rows[j]
      /\ rows' \in [MemoryKeys -> RowSet]
  BY <1>2, <1>3 DEF IndexTypes, RowSet, WorkSet
<1>5. /\ writer' \in [Writers -> WorkSet] /\ \A v \in Writers : v # w => writer'[v] = writer[v]
      /\ writer[w].embedded => writer'[w] = [writer[w] EXCEPT !.step = "index"]
      /\ ~writer[w].embedded => writer'[w] = Resting
  <2>1. Resting \in WorkSet /\ [writer[w] EXCEPT !.step = "index"] \in WorkSet
    BY <1>3 DEF Resting, Work, WorkSet, IndexSteps
  <2> QED BY <2>1, <1>2, <1>3 DEF GoOn, Rest
<1>6. IndexTypes'
  BY <1>2, <1>4, <1>5 DEF IndexTypes
<1>7. HandInv'
  BY <1>1, <1>3, <1>5 DEF HandInv, Stands, Resting, Work, WorkSet
<1>8. Touches(w) = {k}
  BY <1>1, <1>2 DEF Touches, Stands
<1>9. Touches(w)' = IF writer[w].embedded THEN {k} ELSE {}
  <2>1. CASE writer[w].embedded
    BY <2>1, <1>1, <1>3, <1>5 DEF Touches, Stands, WorkSet
  <2>2. CASE ~writer[w].embedded
    BY <2>2, <1>5 DEF Touches, Stands, Resting, Work
  <2> QED BY <2>1, <2>2
<1>10. writer[w].embedded => InOrder(k, w)'
  BY <1>3, <1>4, <1>5 DEF InOrder, Stands, WorkSet
<1>11. ~writer[w].embedded /\ k \notin mixed' => Follows(k)'
  BY <1>2, <1>4 DEF Follows
<1> QED BY <1>2, <1>4, <1>5, <1>6, <1>7, <1>8, <1>9, <1>10, <1>11, WorkKeeps

LEMMA IndexKeeps ==
  ASSUME IndexInv, NEW w \in Writers, Index(w)
  PROVE  IndexInv'
<1> USE DEF IndexInv
<1>1. PICK k \in MemoryKeys : writer[w].keys = {k}
  BY DEF Index, HandInv, Stands
<1>2. /\ vectors' = [vectors EXCEPT ![k] = writer[w].version]
      /\ Rest(w) /\ Stands(w, "index") /\ UNCHANGED <<rows, version, day, mixed>>
  BY <1>1 DEF Index
<1>3. writer[w] \in WorkSet /\ writer \in [Writers -> WorkSet]
  BY DEF IndexTypes
<1>4. /\ vectors'[k] = writer[w].version /\ vectors' \in [MemoryKeys -> Nat]
      /\ \A j \in MemoryKeys : j # k => vectors'[j] = vectors[j]
  BY <1>2, <1>3 DEF IndexTypes, WorkSet
<1>5. /\ writer' \in [Writers -> WorkSet] /\ \A v \in Writers : v # w => writer'[v] = writer[v]
      /\ writer'[w] = Resting
  BY <1>2, <1>3 DEF Rest, Resting, Work, WorkSet, IndexSteps
<1>6. IndexTypes'
  BY <1>2, <1>4, <1>5 DEF IndexTypes
<1>7. HandInv'
  BY <1>5 DEF HandInv, Stands, Resting, Work
<1>8. Touches(w) = {k} /\ Touches(w)' = {}
  BY <1>1, <1>2, <1>5 DEF Touches, Stands, Resting, Work
<1>9. k \notin mixed => Follows(k)'
  <2>1. k \notin mixed => InOrder(k, w)
    BY <1>8 DEF KeyInv
  <2> QED BY <2>1, <1>2, <1>4 DEF Follows, InOrder
<1> QED BY <1>2, <1>4, <1>5, <1>6, <1>7, <1>8, <1>9, WorkKeeps

LEMMA UnindexKeeps ==
  ASSUME IndexInv, NEW w \in Writers, Unindex(w)
  PROVE  IndexInv'
<1> USE DEF IndexInv
<1>1. PICK k \in MemoryKeys : writer[w].keys = {k}
  BY DEF Unindex, HandInv, Stands
<1>2. /\ vectors' = [j \in MemoryKeys |-> IF j \in {k} THEN 0 ELSE vectors[j]]
      /\ GoOn(w, "delete") /\ Stands(w, "unindex") /\ UNCHANGED <<rows, version, day, mixed>>
  BY <1>1 DEF Unindex
<1>3. writer[w] \in WorkSet /\ writer \in [Writers -> WorkSet]
  BY DEF IndexTypes
<1>4. /\ vectors'[k] = 0 /\ vectors' \in [MemoryKeys -> Nat]
      /\ \A j \in MemoryKeys : j # k => vectors'[j] = vectors[j]
  BY <1>2 DEF IndexTypes
<1>5. /\ writer' \in [Writers -> WorkSet] /\ \A v \in Writers : v # w => writer'[v] = writer[v]
      /\ writer'[w] = [writer[w] EXCEPT !.step = "delete"]
  BY <1>2, <1>3 DEF GoOn, WorkSet, IndexSteps
<1>6. IndexTypes'
  BY <1>2, <1>4, <1>5 DEF IndexTypes
<1>7. HandInv'
  BY <1>1, <1>3, <1>5 DEF HandInv, Stands, WorkSet
<1>8. Touches(w) = {k} /\ Touches(w)' = {k}
  BY <1>1, <1>2, <1>3, <1>5 DEF Touches, Stands, WorkSet
<1>9. InOrder(k, w)'
  BY <1>3, <1>4, <1>5 DEF InOrder, Stands, WorkSet
<1> QED BY <1>2, <1>4, <1>5, <1>6, <1>7, <1>8, <1>9, WorkKeeps

LEMMA DeleteKeeps ==
  ASSUME IndexInv, NEW w \in Writers, Delete(w)
  PROVE  IndexInv'
<1> USE DEF IndexInv
<1>1. PICK k \in MemoryKeys : writer[w].keys = {k}
  BY DEF Delete, HandInv, Stands
<1>2. /\ rows' = [j \in MemoryKeys |-> IF j \in {k} THEN NoRow ELSE rows[j]]
      /\ Rest(w) /\ Stands(w, "delete") /\ UNCHANGED <<vectors, version, day, mixed>>
  BY <1>1 DEF Delete
<1>3. writer[w] \in WorkSet /\ writer \in [Writers -> WorkSet]
  BY DEF IndexTypes
<1>4. /\ rows' \in [MemoryKeys -> RowSet]
      /\ \A j \in MemoryKeys : j # k => rows'[j] = rows[j]
  BY <1>2 DEF IndexTypes, NoRow, RowSet
<1>5. /\ writer' \in [Writers -> WorkSet] /\ \A v \in Writers : v # w => writer'[v] = writer[v]
      /\ writer'[w] = Resting
  BY <1>2, <1>3 DEF Rest, Resting, Work, WorkSet, IndexSteps
<1>6. IndexTypes'
  BY <1>2, <1>4, <1>5 DEF IndexTypes
<1>7. HandInv'
  BY <1>5 DEF HandInv, Stands, Resting, Work
<1>8. Touches(w) = {k} /\ Touches(w)' = {}
  BY <1>1, <1>2, <1>5 DEF Touches, Stands, Resting, Work
<1>9. k \notin mixed => Follows(k)'
  <2>1. k \notin mixed => InOrder(k, w)
    BY <1>8 DEF KeyInv
  <2> QED BY <2>1, <1>2 DEF Follows, InOrder
<1> QED BY <1>2, <1>4, <1>5, <1>6, <1>7, <1>8, <1>9, WorkKeeps

LEMMA UnindexOldKeeps ==
  ASSUME IndexInv, NEW w \in Writers, NEW k \in MemoryKeys, UnindexOld(w, k)
  PROVE  IndexInv'
<1> USE DEF IndexInv
<1>1. /\ vectors' = [vectors EXCEPT ![k] = 0]
      /\ writer' = [writer EXCEPT ![w].keys = @ \ {k}]
      /\ Stands(w, "unindexOld") /\ k \in writer[w].keys /\ UNCHANGED <<rows, version, day, mixed>>
  BY DEF UnindexOld
<1>2. writer[w] \in WorkSet /\ writer \in [Writers -> WorkSet]
  BY DEF IndexTypes
<1>3. /\ vectors'[k] = 0 /\ vectors' \in [MemoryKeys -> Nat]
      /\ \A j \in MemoryKeys : j # k => vectors'[j] = vectors[j]
  BY <1>1 DEF IndexTypes
<1>4. /\ writer' \in [Writers -> WorkSet] /\ \A v \in Writers : v # w => writer'[v] = writer[v]
      /\ writer'[w].keys = writer[w].keys \ {k} /\ writer'[w].step = writer[w].step
  BY <1>1, <1>2 DEF WorkSet
<1>5. IndexTypes'
  BY <1>1, <1>3, <1>4 DEF IndexTypes
<1>6. HandInv'
  BY <1>1, <1>4 DEF HandInv, Stands
<1>7. Touches(w) = MemoryKeys /\ Touches(w)' = MemoryKeys /\ Stands(w, "unindexOld")'
  BY <1>1, <1>4 DEF Touches, Stands
<1>8. ASSUME NEW j \in MemoryKeys \ mixed' PROVE InOrder(j, w)'
  <2>1. InOrder(j, w) /\ j \notin mixed
    BY <1>1, <1>7, <1>8 DEF KeyInv
  <2>2. CASE j = k
    BY <2>2, <1>3, <1>7 DEF InOrder, Stands
  <2>3. CASE j # k
    <3>1. (Follows(j)' <=> Follows(j)) /\ (Old(j)' <=> Old(j)) /\ vectors'[j] = vectors[j]
      BY <2>3, <1>1, <1>3 DEF Follows, Old
    <3>2. j \in writer'[w].keys <=> j \in writer[w].keys
      BY <2>3, <1>4
    <3> QED BY <2>1, <3>1, <3>2, <1>1, <1>7 DEF InOrder, Stands
  <2> QED BY <2>2, <2>3
<1> QED BY <1>1, <1>4, <1>5, <1>6, <1>7, <1>8, WorkKeeps

LEMMA DeleteOldKeeps ==
  ASSUME IndexInv, NEW w \in Writers, DeleteOld(w)
  PROVE  IndexInv'
<1> USE DEF IndexInv
<1>1. /\ rows' = [k \in MemoryKeys |-> IF Old(k) THEN NoRow ELSE rows[k]]
      /\ Rest(w) /\ Stands(w, "unindexOld") /\ writer[w].keys = {} /\ UNCHANGED <<vectors, version, day, mixed>>
  BY DEF DeleteOld
<1>2. writer[w] \in WorkSet /\ writer \in [Writers -> WorkSet]
  BY DEF IndexTypes
<1>3. rows' \in [MemoryKeys -> RowSet]
  BY <1>1 DEF IndexTypes, NoRow, RowSet
<1>4. /\ writer' \in [Writers -> WorkSet] /\ \A v \in Writers : v # w => writer'[v] = writer[v]
      /\ writer'[w] = Resting
  BY <1>1, <1>2 DEF Rest, Resting, Work, WorkSet, IndexSteps
<1>5. IndexTypes'
  BY <1>1, <1>3, <1>4 DEF IndexTypes
<1>6. HandInv'
  BY <1>4 DEF HandInv, Stands, Resting, Work
<1>7. Touches(w) = MemoryKeys /\ Touches(w)' = {}
  BY <1>1, <1>4 DEF Touches, Stands, Resting, Work
<1>8. ASSUME NEW j \in MemoryKeys \ mixed' PROVE Follows(j)'
  <2>1. InOrder(j, w)
    BY <1>1, <1>7 DEF KeyInv
  <2>2. vectors[j] = 0 \/ (~Old(j) /\ Follows(j))
    BY <2>1, <1>1 DEF InOrder
  <2> QED BY <2>2, <1>1 DEF Follows
<1> QED BY <1>1, <1>4, <1>5, <1>6, <1>7, <1>8, WorkKeeps

LEMMA BreaksOffKeeps ==
  ASSUME IndexInv, NEW w \in Writers, BreaksOff(w)
  PROVE  IndexInv'
<1> USE DEF IndexInv
<1>1. /\ mixed' = mixed \cup Touches(w) /\ Rest(w) /\ UNCHANGED <<rows, vectors, version, day>>
  BY DEF BreaksOff
<1>2. writer \in [Writers -> WorkSet] /\ Touches(w) \subseteq MemoryKeys
  BY DEF IndexTypes, Touches, WorkSet
<1>3. /\ writer' \in [Writers -> WorkSet] /\ \A v \in Writers : v # w => writer'[v] = writer[v]
      /\ writer'[w] = Resting
  BY <1>1, <1>2 DEF Rest, Resting, Work, WorkSet, IndexSteps
<1>4. IndexTypes'
  BY <1>1, <1>2, <1>3 DEF IndexTypes
<1>5. HandInv'
  BY <1>3 DEF HandInv, Stands, Resting, Work
<1>6. Touches(w)' = {}
  BY <1>3 DEF Touches, Stands, Resting, Work
<1> QED BY <1>1, <1>3, <1>4, <1>5, <1>6, WorkKeeps

(* A day makes rows old; one whose vector hygiene did not take is mixed.   *)
LEMMA DayKeeps ==
  ASSUME IndexInv, DayPasses
  PROVE  IndexInv'
<1> USE DEF IndexInv
<1>1. /\ day' = day + 1 /\ UNCHANGED <<rows, vectors, writer, version>> /\ mixed \subseteq mixed'
      /\ mixed' = IF \E w \in Writers : Stands(w, "unindexOld")
                  THEN mixed \cup {k \in MemoryKeys : rows[k].version > 0 /\ rows[k].born + TtlDays = day}
                  ELSE mixed
  BY DEF DayPasses
<1>2. IndexTypes'
  BY <1>1 DEF IndexTypes
<1>3. HandInv'
  BY <1>1 DEF HandInv, Stands
<1>4. (\A v \in Writers : Touches(v)' = Touches(v)) /\ InHand' = InHand
  BY <1>1 DEF Touches, Stands, InHand
<1>5. AloneInv'
  BY <1>1, <1>4 DEF AloneInv
<1>6. KeyInv'
  <2> SUFFICES ASSUME NEW k \in MemoryKeys \ mixed'
               PROVE  /\ k \notin InHand' => Follows(k)'
                      /\ \A v \in Writers : k \in Touches(v)' => InOrder(k, v)'
    BY DEF KeyInv
  <2>1. k \notin mixed /\ (Follows(k)' <=> Follows(k))
    BY <1>1 DEF Follows
  <2>2. ASSUME NEW v \in Writers, k \in Touches(v)' PROVE InOrder(k, v)'
    <3>1. InOrder(k, v)
      BY <2>1, <2>2, <1>4 DEF KeyInv
    <3>2. Stands(v, "unindexOld") /\ ~Old(k) => ~Old(k)'
      <4>1. rows[k].version \in Nat /\ rows[k].born \in Nat /\ day \in Nat /\ TtlDays \in Nat
        BY IndexAssumption DEF IndexTypes, RowSet
      <4>2. Stands(v, "unindexOld") => ~(rows[k].version > 0 /\ rows[k].born + TtlDays = day)
        BY <1>1
      <4> QED BY <4>1, <4>2, <1>1 DEF Old
    <3> QED BY <3>1, <3>2, <2>1, <1>1 DEF InOrder, Stands
  <2> QED BY <2>1, <2>2, <1>4 DEF KeyInv
<1> QED BY <1>2, <1>3, <1>5, <1>6

(* A key that nobody works on, whose row and vector were not mixed by two  *)
(* calls or a broken one, has the vector of its content or none.           *)
THEOREM VectorsAreOfTheRows == IndexSpec => []VectorsFollowRows
<1> USE DEF IndexInv
<1>1. IndexInit => IndexInv
  <2> SUFFICES ASSUME IndexInit PROVE IndexInv
    OBVIOUS
  <2>1. IndexTypes
    BY DEF IndexInit, IndexTypes, NoRow, Resting, Work, RowSet, WorkSet, IndexSteps
  <2>2. \A w \in Writers : writer[w] = Resting /\ Touches(w) = {}
    BY DEF IndexInit, Touches, Stands, Resting, Work
  <2>3. HandInv /\ AloneInv
    BY <2>2 DEF HandInv, AloneInv, Stands, Resting, Work
  <2>4. KeyInv
    BY <2>2 DEF KeyInv, Follows, IndexInit
  <2> QED BY <2>1, <2>3, <2>4
<1>2. IndexInv /\ [IndexNext]_indexVars => IndexInv'
  <2> SUFFICES ASSUME IndexInv, [IndexNext]_indexVars PROVE IndexInv'
    OBVIOUS
  <2>1. ASSUME NEW w \in Writers, NEW k \in MemoryKeys, NEW embedded \in BOOLEAN, BeginStore(w, k, embedded)
        PROVE  IndexInv'
    <3>1. Work("insert", {k}, version + 1, embedded) \in WorkSet
      BY DEF Work, WorkSet, IndexSteps, IndexTypes
    <3>2. version' \in Nat
      BY <2>1 DEF BeginStore, IndexTypes
    <3> QED BY <2>1, <3>1, <3>2, BeginKeeps DEF BeginStore, Work
  <2>2. ASSUME NEW w \in Writers, NEW k \in MemoryKeys, BeginForget(w, k)
        PROVE  IndexInv'
    <3>1. Work("unindex", {k}, 0, FALSE) \in WorkSet
      BY DEF Work, WorkSet, IndexSteps
    <3> QED BY <2>2, <3>1, BeginKeeps DEF BeginForget, Work, IndexTypes
  <2>3. ASSUME NEW w \in Writers, BeginHygiene(w)
        PROVE  IndexInv'
    <3>1. Work("unindexOld", {k \in MemoryKeys : Old(k)}, 0, FALSE) \in WorkSet
      BY DEF Work, WorkSet, IndexSteps
    <3> QED BY <2>3, <3>1, BeginKeeps DEF BeginHygiene, Work, IndexTypes
  <2>4. CASE UNCHANGED indexVars
    <3>1. IndexTypes' /\ HandInv'
      BY <2>4 DEF indexVars, IndexTypes, HandInv, Stands
    <3>2. AloneInv'
      BY <2>4 DEF indexVars, AloneInv, Touches, Stands
    <3>3. KeyInv'
      BY <2>4 DEF indexVars, KeyInv, InHand, Touches, Stands, Follows, InOrder, Old
    <3> QED BY <3>1, <3>2, <3>3
  <2> QED BY <2>1, <2>2, <2>3, <2>4, InsertKeeps, IndexKeeps, UnindexKeeps, DeleteKeeps, UnindexOldKeeps,
             DeleteOldKeeps, BreaksOffKeeps, DayKeeps DEF IndexNext
<1>3. IndexInv => VectorsFollowRows
  BY DEF KeyInv, Follows, VectorsFollowRows
<1> QED BY <1>1, <1>2, <1>3, PTL DEF IndexSpec

-----------------------------------------------------------------------------
(* The path of an entry that is being written.                             *)
LEMMA StorerFacts ==
  ASSUME MarkdownTypes, NEW w \in Storers
  PROVE  /\ storer[w] \in StorerSet
         /\ StorerInv /\ storer[w].step = "open" =>
              /\ storer[w].entry \in EntryOfFile /\ Path(w) \in MdFiles
              /\ storer[w].linked => w \in Writing(Path(w))
<1>1. storer[w] \in StorerSet
  BY DEF MarkdownTypes
<1>2. ASSUME StorerInv, storer[w].step = "open" PROVE storer[w].entry \in EntryOfFile
  BY <1>2 DEF MarkdownTypes, StorerInv
<1>3. ASSUME storer[w].entry \in EntryOfFile PROVE Path(w) \in MdFiles
  BY <1>3 DEF Path, MdFiles, EntryOfFile
<1>4. storer[w].step = "open" /\ storer[w].linked => w \in Writing(Path(w))
  BY DEF Writing
<1> QED BY <1>1, <1>2, <1>3, <1>4

LEMMA OpenEntryKeeps ==
  ASSUME MarkdownInv, NEW w \in Storers, NEW k \in FileKeys, NEW n \in TextLengths, OpenEntry(w, k, n)
  PROVE  MarkdownInv'
<1> USE DEF MarkdownInv
<1> DEFINE f == FileOf[k]
           entry == [key |-> k, version |-> stores + 1, length |-> n]
           job == [step |-> "open", entry |-> entry, linked |-> TRUE]
<1>1. /\ storer[w].step = "none"
      /\ storer' = [storer EXCEPT ![w] = job]
      /\ mdFiles' = [mdFiles EXCEPT ![f] = Emptied]
      /\ wasStored' = wasStored \cup {entry}
      /\ raced' = IF Writing(f) # {} THEN raced \cup {f} ELSE raced
      /\ stood' = {e \in stood : FileOf[e.key] # f}
      /\ stores' = stores + 1 /\ listing' = listing
  BY DEF OpenEntry
<1>2. f \in MdFiles /\ entry \in EntryOfFile /\ job \in StorerSet /\ Emptied \in FileSet
  BY DEF MdFiles, EntryOfFile, StorerSet, Emptied, FileSet, EntryTexts, MarkdownTypes
<1>3. /\ storer'[w] = job /\ \A v \in Storers : v # w => storer'[v] = storer[v]
      /\ mdFiles'[f] = Emptied /\ \A g \in MdFiles : g # f => mdFiles'[g] = mdFiles[g]
  BY <1>1, <1>2 DEF MarkdownTypes
<1>4. MarkdownTypes'
  <2>1. mdFiles' \in [MdFiles -> FileSet] /\ storer' \in [Storers -> StorerSet]
    BY <1>1, <1>2 DEF MarkdownTypes
  <2>2. wasStored' \subseteq EntryOfFile /\ raced' \subseteq MdFiles /\ stood' \subseteq EntryOfFile
    BY <1>1, <1>2 DEF MarkdownTypes
  <2> QED BY <2>1, <2>2, <1>1 DEF MarkdownTypes
<1>5. StorerInv'
  BY <1>1, <1>3 DEF StorerInv
<1>6. \A v \in Storers : v # w => Path(v)' = Path(v)
  BY <1>3 DEF Path
<1>7. Path(w)' = f
  BY <1>3 DEF Path
<1>8. \A g \in MdFiles : g # f => Writing(g)' = Writing(g)
  BY <1>1, <1>3, <1>6, <1>7 DEF Writing
<1>9. Writing(f)' = Writing(f) \cup {w} /\ w \notin Writing(f)
  BY <1>1, <1>3, <1>6, <1>7 DEF Writing
<1>10. FileInv'
  <2> SUFFICES ASSUME NEW g \in MdFiles
               PROVE  LET text == mdFiles'[g].entries
                      IN /\ text # <<>> =>
                              /\ mdFiles'[g].is = "file" /\ text[1] \in wasStored' /\ FileOf[text[1].key] = g
                              /\ g \notin raced' => Len(text) = 1
                         /\ Writing(g)' # {} => mdFiles'[g].is = "file" /\ \A e \in stood' : FileOf[e.key] # g
                         /\ g \notin raced' /\ Writing(g)' # {} => text = <<>> /\ \A v, u \in Writing(g)' : v = u
    BY DEF FileInv
  <2>1. CASE g = f
    <3>1. mdFiles'[g].entries = <<>> /\ mdFiles'[g].is = "file"
      BY <2>1, <1>3 DEF Emptied
    <3>2. \A e \in stood' : FileOf[e.key] # g
      BY <2>1, <1>1
    <3>3. g \notin raced' => \A v, u \in Writing(g)' : v = u
      BY <2>1, <1>1, <1>9
    <3> QED BY <3>1, <3>2, <3>3
  <2>2. CASE g # f
    <3>1. mdFiles'[g] = mdFiles[g] /\ Writing(g)' = Writing(g)
      BY <2>2, <1>3, <1>8
    <3>2. wasStored \subseteq wasStored' /\ stood' \subseteq stood /\ (g \notin raced' => g \notin raced)
      BY <1>1
    <3> QED BY <3>1, <3>2 DEF FileInv
  <2> QED BY <2>1, <2>2
<1>11. FoundInv'
  BY <1>1 DEF FoundInv, EntriesAreWhole
<1>12. StoodInv'
  <2> SUFFICES ASSUME NEW e \in stood'
               PROVE  \/ \E text \in listing.found : text[1] = e
                      \/ /\ FileOf[e.key] \in listing.left
                         /\ mdFiles'[FileOf[e.key]].entries # <<>> /\ mdFiles'[FileOf[e.key]].entries[1] = e
    BY <1>1 DEF StoodInv
  <2>1. e \in stood /\ FileOf[e.key] # f /\ FileOf[e.key] \in MdFiles
    BY <1>1 DEF MarkdownTypes, EntryOfFile, MdFiles
  <2> QED BY <2>1, <1>3 DEF StoodInv
<1> QED BY <1>4, <1>5, <1>10, <1>11, <1>12

(* What a file holds after a write begins with what was written.           *)
LEMMA WrittenOverFacts ==
  ASSUME NEW old \in EntryTexts, NEW entry \in EntryOfFile
  PROVE  /\ WrittenOver(old, entry) \in EntryTexts
         /\ WrittenOver(old, entry) # <<>> /\ WrittenOver(old, entry)[1] = entry
         /\ old = <<>> => Len(WrittenOver(old, entry)) = 1
<1>1. <<entry>> \in EntryTexts /\ <<entry>> # <<>> /\ <<entry>>[1] = entry /\ Len(<<entry>>) = 1
  BY DEF EntryTexts
<1>2. CASE old = <<>>
  BY <1>1, <1>2 DEF WrittenOver
<1>3. CASE old # <<>>
  <2>1. PICK rest \in EntryOfFile : rest = old[1]
    BY <1>3 DEF EntryTexts
  <2>2. <<entry, rest>> \in EntryTexts /\ <<entry, rest>> # <<>> /\ <<entry, rest>>[1] = entry
    BY DEF EntryTexts
  <2>3. WrittenOver(old, entry) = <<entry, rest>> \/ WrittenOver(old, entry) = <<entry>>
    BY <2>1 DEF WrittenOver
  <2>4. CASE WrittenOver(old, entry) = <<entry, rest>>
    BY <2>2, <2>4, <1>3
  <2>5. CASE WrittenOver(old, entry) = <<entry>>
    BY <1>1, <2>5, <1>3
  <2> QED BY <2>3, <2>4, <2>5
<1> QED BY <1>2, <1>3

(* A storer that is done with its file, whatever it wrote: what is left is *)
(* in one file, of which nobody else knew anything.                        *)
LEMMA WriteEntryKeeps ==
  ASSUME MarkdownInv, NEW w \in Storers, WriteEntry(w) \/ WriteEntryFails(w)
  PROVE  MarkdownInv'
<1> USE DEF MarkdownInv
<1>0. PICK f \in MdFiles, mine \in EntryOfFile :
         /\ f = Path(w) /\ mine = storer[w].entry /\ mine \in wasStored /\ FileOf[mine.key] = f
         /\ storer[w].linked => w \in Writing(f)
  BY StorerFacts DEF WriteEntry, WriteEntryFails, StorerInv, Path
<1>1. /\ storer[w].step = "open" /\ storer' = [storer EXCEPT ![w] = Idler]
      /\ UNCHANGED <<stores, wasStored, raced, listing, stood>>
      /\ mdFiles' = mdFiles \/ (storer[w].linked /\ mdFiles' = [mdFiles EXCEPT ![f].entries = WrittenOver(@, mine)])
  BY <1>0 DEF WriteEntry, WriteEntryFails
<1>2. /\ mine \in EntryOfFile /\ mine \in wasStored /\ f \in MdFiles /\ FileOf[mine.key] = f
      /\ storer[w].linked => w \in Writing(f)
  BY <1>0
<1>3. mdFiles[f] \in FileSet /\ mdFiles[f].entries \in EntryTexts
  BY <1>2 DEF MarkdownTypes, FileSet
<1>4. PICK over \in EntryTexts :
        /\ over = WrittenOver(mdFiles[f].entries, mine)
        /\ over # <<>> /\ over[1] = mine /\ (mdFiles[f].entries = <<>> => Len(over) = 1)
  BY <1>3, WrittenOverFacts
<1>5. /\ storer'[w] = Idler /\ \A v \in Storers : v # w => storer'[v] = storer[v]
      /\ \A v \in Storers : v # w => Path(v)' = Path(v)
  BY <1>1 DEF MarkdownTypes, Path
<1>6. \A g \in MdFiles : Writing(g)' = Writing(g) \ {w}
  <2> SUFFICES ASSUME NEW g \in MdFiles, NEW v \in Storers
               PROVE  v \in Writing(g)' <=> v \in Writing(g) /\ v # w
    BY DEF Writing
  <2> QED BY <1>5 DEF Writing, Idler
<1>7. \A g \in MdFiles : g # f => mdFiles'[g] = mdFiles[g]
  BY <1>1, <1>2 DEF MarkdownTypes
<1>8. CASE mdFiles' = mdFiles
  <2>1. MarkdownTypes'
    <3>1. storer' \in [Storers -> StorerSet]
      BY <1>1 DEF MarkdownTypes, StorerSet, Idler
    <3> QED BY <3>1, <1>1, <1>8 DEF MarkdownTypes
  <2>2. StorerInv'
    BY <1>1, <1>5 DEF StorerInv, Idler
  <2>3. FileInv'
    BY <1>1, <1>6, <1>8 DEF FileInv
  <2>4. FoundInv' /\ StoodInv'
    BY <1>1, <1>8 DEF FoundInv, EntriesAreWhole, StoodInv
  <2> QED BY <2>1, <2>2, <2>3, <2>4
<1>9. CASE storer[w].linked /\ mdFiles' = [mdFiles EXCEPT ![f].entries = WrittenOver(@, mine)]
  <2>1. mdFiles'[f].entries = over /\ mdFiles'[f].is = mdFiles[f].is /\ mdFiles' \in [MdFiles -> FileSet]
    BY <1>2, <1>3, <1>4, <1>9 DEF MarkdownTypes, FileSet
  <2>2. MarkdownTypes'
    <3>1. storer' \in [Storers -> StorerSet]
      BY <1>1 DEF MarkdownTypes, StorerSet, Idler
    <3> QED BY <3>1, <1>1, <2>1 DEF MarkdownTypes
  <2>3. StorerInv'
    BY <1>1, <1>5 DEF StorerInv, Idler
  <2>4. w \in Writing(f) /\ mdFiles[f].is = "file" /\ \A e \in stood : FileOf[e.key] # f
    BY <1>2, <1>9 DEF FileInv
  <2>5. f \notin raced => mdFiles[f].entries = <<>> /\ Writing(f)' = {}
    <3>1. f \notin raced => mdFiles[f].entries = <<>> /\ \A v, u \in Writing(f) : v = u
      BY <2>4, <1>2 DEF FileInv
    <3>2. Writing(f)' = Writing(f) \ {w}
      BY <1>2, <1>6
    <3> QED BY <3>1, <3>2, <2>4
  <2>6. FileInv'
    <3> SUFFICES ASSUME NEW g \in MdFiles
                 PROVE  LET text == mdFiles'[g].entries
                        IN /\ text # <<>> =>
                                /\ mdFiles'[g].is = "file" /\ text[1] \in wasStored /\ FileOf[text[1].key] = g
                                /\ g \notin raced => Len(text) = 1
                           /\ Writing(g)' # {} => mdFiles'[g].is = "file" /\ \A e \in stood : FileOf[e.key] # g
                           /\ g \notin raced /\ Writing(g)' # {} => text = <<>> /\ \A v, u \in Writing(g)' : v = u
      BY <1>1 DEF FileInv
    <3>1. CASE g = f
      <4>1. mdFiles'[g].entries = over /\ mdFiles'[g].is = "file"
        BY <3>1, <2>1, <2>4
      <4>2. over[1] \in wasStored /\ FileOf[over[1].key] = g
        BY <3>1, <1>2, <1>4
      <4>3. g \notin raced => Len(over) = 1 /\ Writing(g)' = {}
        BY <3>1, <2>5, <1>4
      <4>4. \A e \in stood : FileOf[e.key] # g
        BY <3>1, <2>4
      <4> QED BY <4>1, <4>2, <4>3, <4>4
    <3>2. CASE g # f
      <4>1. mdFiles'[g] = mdFiles[g] /\ Writing(g)' \subseteq Writing(g)
        BY <3>2, <1>6, <1>7
      <4> QED BY <4>1 DEF FileInv
    <3> QED BY <3>1, <3>2
  <2>7. FoundInv'
    BY <1>1 DEF FoundInv, EntriesAreWhole
  <2>8. StoodInv'
    <3> SUFFICES ASSUME NEW e \in stood
                 PROVE  \/ \E text \in listing.found : text[1] = e
                        \/ /\ FileOf[e.key] \in listing.left
                           /\ mdFiles'[FileOf[e.key]].entries # <<>> /\ mdFiles'[FileOf[e.key]].entries[1] = e
      BY <1>1 DEF StoodInv
    <3>1. FileOf[e.key] # f /\ FileOf[e.key] \in MdFiles
      BY <2>4 DEF MarkdownTypes, EntryOfFile, MdFiles
    <3> QED BY <3>1, <1>7 DEF StoodInv
  <2> QED BY <2>2, <2>3, <2>6, <2>7, <2>8
<1> QED BY <1>1, <1>8, <1>9

LEMMA ForgetEntryKeeps ==
  ASSUME MarkdownInv, NEW w \in Storers, NEW k \in FileKeys, ForgetEntry(w, k)
  PROVE  MarkdownInv'
<1> USE DEF MarkdownInv
<1> DEFINE f == FileOf[k]
<1>1. /\ mdFiles' = [mdFiles EXCEPT ![f] = NoFile]
      /\ storer' = [u \in Storers |-> IF u \in Writing(f) THEN [storer[u] EXCEPT !.linked = FALSE] ELSE storer[u]]
      /\ stores' = stores + 1 /\ stood' = {e \in stood : FileOf[e.key] # f}
      /\ UNCHANGED <<wasStored, raced, listing>>
  BY DEF ForgetEntry
<1>2. f \in MdFiles /\ NoFile \in FileSet
  BY DEF MdFiles, NoFile, FileSet, EntryTexts
<1>3. mdFiles'[f] = NoFile /\ \A g \in MdFiles : g # f => mdFiles'[g] = mdFiles[g]
  BY <1>1, <1>2 DEF MarkdownTypes
<1>4. \A u \in Storers :
        /\ storer'[u] \in StorerSet /\ storer'[u].step = storer[u].step /\ storer'[u].entry = storer[u].entry
        /\ storer'[u].linked <=> storer[u].linked /\ u \notin Writing(f)
  BY <1>1 DEF MarkdownTypes, StorerSet
<1>5. MarkdownTypes'
  <2>1. storer' \in [Storers -> StorerSet] /\ mdFiles' \in [MdFiles -> FileSet]
    BY <1>1, <1>2, <1>4 DEF MarkdownTypes
  <2> QED BY <2>1, <1>1 DEF MarkdownTypes
<1>6. StorerInv'
  BY <1>1, <1>4 DEF StorerInv
<1>7. \A g \in MdFiles : Writing(g)' = IF g = f THEN {} ELSE Writing(g)
  <2> SUFFICES ASSUME NEW g \in MdFiles, NEW u \in Storers
               PROVE  u \in Writing(g)' <=> u \in Writing(g) /\ g # f
    BY DEF Writing
  <2>1. Path(u)' = Path(u)
    BY <1>4 DEF Path
  <2> QED BY <2>1, <1>4 DEF Writing
<1>8. FileInv'
  <2> SUFFICES ASSUME NEW g \in MdFiles
               PROVE  LET text == mdFiles'[g].entries
                      IN /\ text # <<>> =>
                              /\ mdFiles'[g].is = "file" /\ text[1] \in wasStored /\ FileOf[text[1].key] = g
                              /\ g \notin raced => Len(text) = 1
                         /\ Writing(g)' # {} => mdFiles'[g].is = "file" /\ \A e \in stood' : FileOf[e.key] # g
                         /\ g \notin raced /\ Writing(g)' # {} => text = <<>> /\ \A v, u \in Writing(g)' : v = u
    BY <1>1 DEF FileInv
  <2>1. CASE g = f
    BY <2>1, <1>3, <1>7 DEF NoFile
  <2>2. CASE g # f
    <3>1. mdFiles'[g] = mdFiles[g] /\ Writing(g)' = Writing(g) /\ stood' \subseteq stood
      BY <2>2, <1>1, <1>3, <1>7
    <3> QED BY <3>1 DEF FileInv
  <2> QED BY <2>1, <2>2
<1>9. FoundInv'
  BY <1>1 DEF FoundInv, EntriesAreWhole
<1>10. StoodInv'
  <2> SUFFICES ASSUME NEW e \in stood'
               PROVE  \/ \E text \in listing.found : text[1] = e
                      \/ /\ FileOf[e.key] \in listing.left
                         /\ mdFiles'[FileOf[e.key]].entries # <<>> /\ mdFiles'[FileOf[e.key]].entries[1] = e
    BY <1>1 DEF StoodInv
  <2>1. e \in stood /\ FileOf[e.key] # f /\ FileOf[e.key] \in MdFiles
    BY <1>1 DEF MarkdownTypes, EntryOfFile, MdFiles
  <2> QED BY <2>1, <1>3 DEF StoodInv
<1> QED BY <1>5, <1>6, <1>8, <1>9, <1>10

(* What is read of a file. *)
LEMMA FileFacts ==
  ASSUME MarkdownInv, NEW f \in MdFiles
  PROVE  /\ mdFiles[f].entries \in EntryTexts
         /\ InFile(f) \subseteq EntryTexts
         /\ \A text \in InFile(f) :
              /\ text = mdFiles[f].entries /\ text # <<>> /\ text[1] \in wasStored /\ FileOf[text[1].key] = f
              /\ f \notin raced => Len(text) = 1
         /\ mdFiles[f].entries # <<>> => mdFiles[f].entries \in InFile(f) /\ mdFiles[f].entries[1] \in EntryOfFile
<1> USE DEF MarkdownInv
<1>1. mdFiles[f].entries \in EntryTexts
  BY DEF MarkdownTypes, FileSet
<1>2. mdFiles[f].entries # <<>> => mdFiles[f].entries[1] \in EntryOfFile
  BY <1>1 DEF EntryTexts
<1> QED BY <1>1, <1>2 DEF InFile, FileInv

LEMMA BeginListingKeeps ==
  ASSUME MarkdownInv, BeginListing
  PROVE  MarkdownInv'
<1> USE DEF MarkdownInv
<1> DEFINE still == {g \in MdFiles : mdFiles[g].entries # <<>> /\ Writing(g) = {}}
<1>1. /\ listing' = [step |-> "reads", left |-> {f \in MdFiles : mdFiles[f].is = "file"}, found |-> {}]
      /\ stood' = {mdFiles[f].entries[1] : f \in still}
      /\ UNCHANGED <<mdFiles, storer, stores, wasStored, raced>>
  BY DEF BeginListing
<1>2. \A e \in stood' : \E f \in still : e = mdFiles[f].entries[1] /\ e \in EntryOfFile /\ FileOf[e.key] = f /\ mdFiles[f].is = "file"
  <2> SUFFICES ASSUME NEW f \in still
               PROVE  LET e == mdFiles[f].entries[1]
                      IN e \in EntryOfFile /\ FileOf[e.key] = f /\ mdFiles[f].is = "file"
    BY <1>1
  <2> QED BY FileFacts DEF FileInv
<1>3. MarkdownTypes'
  <2>1. stood' \subseteq EntryOfFile
    BY <1>2
  <2>2. listing' \in ListingSet
    BY <1>1 DEF ListingSet
  <2> QED BY <2>1, <2>2, <1>1 DEF MarkdownTypes
<1>4. StorerInv'
  BY <1>1 DEF StorerInv
<1>5. \A g \in MdFiles : Writing(g)' = Writing(g)
  BY <1>1 DEF Writing, Path
<1>6. FileInv'
  <2>1. \A g \in MdFiles : Writing(g) # {} => \A e \in stood' : FileOf[e.key] # g
    BY <1>2
  <2> QED BY <2>1, <1>1, <1>5 DEF FileInv
<1>7. FoundInv'
  BY <1>1 DEF FoundInv, EntriesAreWhole
<1>8. StoodInv'
  BY <1>1, <1>2 DEF StoodInv
<1> QED BY <1>3, <1>4, <1>6, <1>7, <1>8

LEMMA ReadEntryKeeps ==
  ASSUME MarkdownInv, NEW f \in MdFiles, ReadEntry(f)
  PROVE  MarkdownInv'
<1> USE DEF MarkdownInv
<1>1. /\ f \in listing.left
      /\ listing' = [listing EXCEPT !.left = @ \ {f}, !.found = @ \cup InFile(f)]
      /\ UNCHANGED <<mdFiles, storer, stores, wasStored, raced, stood>>
  BY DEF ReadEntry
<1>2. listing \in ListingSet
  BY DEF MarkdownTypes
<1>3. /\ listing' \in ListingSet /\ listing'.step = listing.step /\ listing'.left = listing.left \ {f}
      /\ listing'.found = listing.found \cup InFile(f)
  BY <1>1, <1>2, FileFacts DEF ListingSet
<1>4. MarkdownTypes' /\ StorerInv'
  BY <1>1, <1>3 DEF MarkdownTypes, StorerInv
<1>5. FileInv'
  BY <1>1 DEF FileInv, Writing, Path
<1>6. FoundInv'
  BY <1>1, <1>3, FileFacts DEF FoundInv, EntriesAreWhole
<1>7. StoodInv'
  <2>1. listing'.step # "reads" => listing'.left = {}
    BY <1>3 DEF StoodInv
  <2>2. ASSUME NEW e \in stood
        PROVE  \/ \E text \in listing'.found : text[1] = e
               \/ /\ FileOf[e.key] \in listing'.left
                  /\ mdFiles[FileOf[e.key]].entries # <<>> /\ mdFiles[FileOf[e.key]].entries[1] = e
    <3>1. CASE \E text \in listing.found : text[1] = e
      BY <3>1, <1>3
    <3>2. CASE /\ FileOf[e.key] \in listing.left
               /\ mdFiles[FileOf[e.key]].entries # <<>> /\ mdFiles[FileOf[e.key]].entries[1] = e
      <4>1. CASE FileOf[e.key] = f
        BY <4>1, <3>2, <1>3, FileFacts
      <4>2. CASE FileOf[e.key] # f
        BY <4>2, <3>2, <1>3
      <4> QED BY <4>1, <4>2
    <3> QED BY <3>1, <3>2 DEF StoodInv
  <2> QED BY <2>1, <2>2, <1>1 DEF StoodInv
<1> QED BY <1>4, <1>5, <1>6, <1>7

(* What a list reads is an entry that was stored under this file, and none *)
(* that stood all the time is missing from it.                             *)
THEOREM FilesAreRead == MarkdownSpec => [](EntriesAreWhole /\ ListsWhatStands)
<1> USE DEF MarkdownInv
<1>1. MarkdownInit => MarkdownInv
  <2> SUFFICES ASSUME MarkdownInit PROVE MarkdownInv
    OBVIOUS
  <2>1. MarkdownTypes
    <3>1. NoFile \in FileSet /\ Idler \in StorerSet /\ NoListing \in ListingSet
      BY DEF NoFile, FileSet, EntryTexts, Idler, StorerSet, NoListing, ListingSet
    <3> QED BY <3>1 DEF MarkdownInit, MarkdownTypes
  <2>2. StorerInv /\ \A f \in MdFiles : Writing(f) = {}
    BY DEF MarkdownInit, StorerInv, Writing, Idler
  <2>3. FileInv
    BY <2>2 DEF MarkdownInit, FileInv, NoFile
  <2>4. FoundInv /\ StoodInv
    BY DEF MarkdownInit, FoundInv, EntriesAreWhole, StoodInv, NoListing
  <2> QED BY <2>1, <2>2, <2>3, <2>4
<1>2. MarkdownInv /\ [MarkdownNext]_markdownVars => MarkdownInv'
  <2> SUFFICES ASSUME MarkdownInv, [MarkdownNext]_markdownVars PROVE MarkdownInv'
    OBVIOUS
  <2>1. CASE EndListing
    <3>1. listing \in ListingSet /\ listing.left = {} /\ listing' = [listing EXCEPT !.step = "done"]
          /\ UNCHANGED <<mdFiles, storer, stores, wasStored, raced, stood>>
      BY <2>1 DEF EndListing, MarkdownTypes
    <3>2. listing' \in ListingSet /\ listing'.left = {} /\ listing'.found = listing.found /\ listing'.step = "done"
      BY <3>1 DEF ListingSet
    <3>3. MarkdownTypes' /\ StorerInv' /\ FileInv'
      BY <3>1, <3>2 DEF MarkdownTypes, StorerInv, FileInv, Writing, Path
    <3>4. FoundInv' /\ StoodInv'
      BY <3>1, <3>2 DEF FoundInv, EntriesAreWhole, StoodInv
    <3> QED BY <3>3, <3>4
  <2>2. CASE UNCHANGED markdownVars
    BY <2>2 DEF markdownVars, MarkdownTypes, StorerInv, FileInv, Writing, Path, FoundInv, EntriesAreWhole, StoodInv
  <2> QED BY <2>1, <2>2, OpenEntryKeeps, WriteEntryKeeps, ForgetEntryKeeps, BeginListingKeeps, ReadEntryKeeps
          DEF MarkdownNext
<1>3. MarkdownInv => EntriesAreWhole /\ ListsWhatStands
  BY DEF FoundInv, StoodInv, ListsWhatStands
<1> QED BY <1>1, <1>2, <1>3, PTL DEF MarkdownSpec

-----------------------------------------------------------------------------
(* A part of a sequence has its elements in their places.                  *)
LEMMA PartOf ==
  ASSUME NEW S, NEW s \in Seq(S), NEW m \in 1..Len(s) + 1, NEW n \in 0..Len(s)
  PROVE  /\ SubSeq(s, m, n) \in Seq(S)
         /\ DOMAIN SubSeq(s, m, n) = 1..(IF m <= n THEN n - m + 1 ELSE 0)
         /\ \A i \in DOMAIN SubSeq(s, m, n) : m + i - 1 \in m..n /\ SubSeq(s, m, n)[i] = s[m + i - 1]
<1>1. \A i \in m..n : s[i] \in S
  OBVIOUS
<1>2. /\ SubSeq(s, m, n) \in Seq(S) /\ Len(SubSeq(s, m, n)) = IF m <= n THEN n - m + 1 ELSE 0
      /\ \A i \in 1 .. n - m + 1 : SubSeq(s, m, n)[i] = s[m + i - 1]
  BY <1>1, SubSeqProperties
<1> QED BY <1>2

(* What is left of a sequence without its head. *)
LEMMA RestOf ==
  ASSUME NEW S, NEW s \in Seq(S), s # <<>>
  PROVE  /\ Tail(s) \in Seq(S) /\ Head(s) = s[1] /\ Head(s) \in S /\ 1 \in DOMAIN s
         /\ \A i \in DOMAIN Tail(s) : i \in Nat \ {0} /\ i + 1 \in DOMAIN s /\ Tail(s)[i] = s[i + 1]
<1>1. Tail(s) \in Seq(S) /\ Len(Tail(s)) = Len(s) - 1 /\ \A i \in 1..Len(Tail(s)) : Tail(s)[i] = s[i + 1]
  BY HeadTailProperties
<1> QED BY <1>1

LEMMA PassFacts ==
  ASSUME ConsolidationTypes
  PROVE  /\ pass.left \in Listings /\ pass.batch \in Listings /\ pass.clusters \in Clusterings
         /\ pass.losers \in NameLists
         /\ \A i \in DOMAIN pass.left : pass.left[i] \in ListedSet
         /\ \A i \in DOMAIN pass.batch : pass.batch[i] \in ListedSet /\ pass.batch[i].key \in EntryKeys
         /\ \A i \in DOMAIN pass.clusters : pass.clusters[i] \in NameLists
<1>1. pass.left \in Listings /\ pass.batch \in Listings /\ pass.clusters \in Clusterings /\ pass.losers \in NameLists
  BY DEF ConsolidationTypes, PassSet
<1>2. \A s \in Listings : \A i \in DOMAIN s : s[i] \in ListedSet
  BY DEF Listings
<1>3. \A s \in Clusterings : \A i \in DOMAIN s : s[i] \in NameLists
  BY DEF Clusterings
<1>4. \A r \in ListedSet : r.key \in EntryKeys
  BY DEF ListedSet
<1> QED BY <1>1, <1>2, <1>3, <1>4

(* An agent's step: what it takes out of an entry is no longer owed, and   *)
(* what it puts in during a pass is not.                                   *)
LEMMA AgentKeeps ==
  ASSUME ConsolidationInv, NEW k \in EntryKeys, NEW e \in EntrySet,
         entries' = [entries EXCEPT ![k] = e], pass' = pass, orderly' = orderly, ConsolidationTypes',
         Owed' \subseteq (Owed \ entries[k].facts) \cup e.facts,
         pass.step # "none" => e.facts \cap Owed' = {}
  PROVE  ConsolidationInv'
<1>a. Members' = Members
  BY DEF Members, InBatch, Cluster
<1>b. MergeInv'
  BY <1>a DEF ConsolidationInv, MergeInv
<1> SUFFICES ASSUME orderly PROVE LeftInv' /\ BatchInv' /\ LoserInv' /\ FactsKept'
  BY <1>b DEF ConsolidationInv
<1>1. LeftInv /\ BatchInv /\ LoserInv /\ FactsKept /\ ConsolidationTypes
  BY DEF ConsolidationInv
<1>2. entries'[k] = e /\ \A j \in EntryKeys : j # k => entries'[j] = entries[j]
  BY <1>1 DEF ConsolidationTypes
<1>3. FactsKept'
  <2> SUFFICES ASSUME NEW f \in Owed' PROVE \E j \in EntryKeys : f \in entries'[j].facts
    BY DEF FactsKept, Owed, Kept
  <2>1. CASE f \in e.facts
    BY <2>1, <1>2
  <2>2. CASE f \in Owed \ entries[k].facts
    <3>1. PICK j \in EntryKeys : f \in entries[j].facts
      BY <2>2, <1>1 DEF FactsKept, Owed, Kept
    <3> QED BY <2>2, <3>1, <1>2
  <2> QED BY <2>1, <2>2
<1>4. ASSUME pass.step # "none", NEW r \in ListedSet, AsListed(r) PROVE AsListed(r)'
  <2>1. r.key \in EntryKeys
    BY DEF ListedSet
  <2>2. r' = r
    OBVIOUS
  <2> QED BY <1>2, <1>4, <2>1, <2>2 DEF AsListed
<1>5. LeftInv'
  BY <1>1, <1>4, PassFacts DEF LeftInv
<1>6. BatchInv'
  BY <1>1, <1>4, PassFacts DEF BatchInv
<1>7. LoserInv'
  <2> SUFFICES ASSUME pass.step = "forget"
               PROVE  \E w \in EntryKeys : \A j \in DOMAIN pass.losers :
                        InBatch(pass.losers[j])' =>
                          pass.losers[j] # w /\ entries'[pass.losers[j]].facts \cap Owed' \subseteq entries'[w].facts
    BY DEF LoserInv
  <2>1. PICK w \in EntryKeys : \A j \in DOMAIN pass.losers :
           InBatch(pass.losers[j]) => pass.losers[j] # w /\ entries[pass.losers[j]].facts \cap Owed \subseteq entries[w].facts
    BY <1>1 DEF LoserInv
  <2>2. ASSUME NEW j \in DOMAIN pass.losers, InBatch(pass.losers[j])'
        PROVE  pass.losers[j] # w /\ entries'[pass.losers[j]].facts \cap Owed' \subseteq entries'[w].facts
    <3>1. InBatch(pass.losers[j]) /\ pass.losers[j] \in EntryKeys
      BY <2>2, <1>1, PassFacts DEF InBatch
    <3> QED BY <2>1, <3>1, <1>2
  <2> QED BY <2>2
<1> QED BY <1>3, <1>5, <1>6, <1>7

(* While the entries stay, so does what they owe. *)
LEMMA OwedStays ==
  ASSUME UNCHANGED <<entries, told, overtaken>>
  PROVE  Owed' = Owed /\ (FactsKept /\ (orderly' => orderly) => FactsKept')
         /\ \A r : r.key \in EntryKeys /\ AsListed(r) => entries'[r.key].facts \cap Owed' \subseteq r.facts
BY DEF Owed, FactsKept, Kept, AsListed

(* A pass that has begun, or taken another batch. *)
LEMMA PassIs ==
  ASSUME NEW step \in {"none", "ask", "cluster", "merge", "store", "forget"}, NEW left \in Listings,
         NEW batch \in Listings, NEW category \in EntryCategories, NEW clusters \in Clusterings, NEW losers \in NameLists
  PROVE  [step |-> step, left |-> left, batch |-> batch, category |-> category, clusters |-> clusters,
          losers |-> losers] \in PassSet
BY DEF PassSet

LEMMA NothingYet == <<>> \in Listings /\ <<>> \in Clusterings /\ <<>> \in NameLists /\ NoPass \in PassSet
<1>1. <<>> \in Listings /\ <<>> \in Clusterings /\ <<>> \in NameLists
  BY DEF Listings, Clusterings, NameLists
<1> QED BY <1>1, PassIs DEF NoPass, EntryCategories

LEMMA ListKeeps ==
  ASSUME ConsolidationInv, NEW c \in {"Core", "Global"}, List(c)
  PROVE  ConsolidationInv'
<1> DEFINE Listed == {k \in Stored : entries[k].category = c}
<1>1. PICK n \in Nat : n = Cardinality(Listed)
  <2>1. IsFiniteSet(Listed)
    BY ConsolidationAssumption, FS_Subset DEF Stored
  <2> QED BY <2>1, FS_CardinalityType
<1>2. PICK order \in [1..n -> Listed] :
        /\ \A i, j \in 1..n : i # j => order[i] # order[j]
        /\ pass' = [NoPass EXCEPT !.step = "ask", !.category = c,
                                  !.left = [i \in 1..n |-> [key |-> order[i], facts |-> entries[order[i]].facts]]]
        /\ UNCHANGED <<entries, nextFact, told, overtaken, orderly>> /\ rounds' = rounds + 1
  <2>1. PICK order \in [1..Cardinality(Listed) -> Listed] :
          /\ \A i, j \in DOMAIN order : i # j => order[i] # order[j]
          /\ pass' = [NoPass EXCEPT !.step = "ask", !.category = c,
                                    !.left = [i \in DOMAIN order |-> [key |-> order[i], facts |-> entries[order[i]].facts]]]
          /\ UNCHANGED <<entries, nextFact, told, overtaken, orderly>> /\ rounds' = rounds + 1
    BY DEF List
  <2>2. order \in [1..n -> Listed] /\ DOMAIN order = 1..n
    BY <1>1, <2>1
  <2> HIDE DEF Listed
  <2> QED BY <2>1, <2>2
<1>3. PICK list \in [1..n -> ListedSet] : list = [i \in 1..n |-> [key |-> order[i], facts |-> entries[order[i]].facts]]
  <2>1. \A i \in 1..n : order[i] \in EntryKeys /\ entries[order[i]] \in EntrySet
    BY <1>2 DEF Stored, ConsolidationInv, ConsolidationTypes
  <2>2. \A i \in 1..n : [key |-> order[i], facts |-> entries[order[i]].facts] \in ListedSet
    BY <2>1 DEF EntrySet, ListedSet
  <2> QED BY <2>2
<1>4. list \in Listings
  BY SeqDef DEF Listings
<1>5. /\ \A i \in 1..n : list[i].key = order[i] /\ list[i].facts = entries[order[i]].facts /\ list[i].key \in EntryKeys
      /\ DOMAIN list = 1..n
  BY <1>2, <1>3 DEF Stored
<1>6. pass' = [step |-> "ask", left |-> list, batch |-> <<>>, category |-> c, clusters |-> <<>>, losers |-> <<>>]
  BY <1>2, <1>3 DEF NoPass
<1>7. ConsolidationTypes'
  <2>1. pass' \in PassSet
    BY <1>4, <1>6, NothingYet, PassIs DEF EntryCategories
  <2> QED BY <2>1, <1>2 DEF ConsolidationInv, ConsolidationTypes
<1>8. LeftInv'
  <2>1. \A i \in 1..n : entries'[list[i].key].facts \cap Owed' \subseteq list[i].facts
    BY <1>2, <1>5
  <2>2. \A i, j \in 1..n : i # j => list[i].key # list[j].key
    BY <1>2, <1>5
  <2> QED BY <1>5, <1>6, <2>1, <2>2 DEF LeftInv, AsListed
<1>9. BatchInv' /\ LoserInv' /\ MergeInv'
  BY <1>6 DEF BatchInv, LoserInv, MergeInv, NamesOnce
<1> QED BY <1>2, <1>7, <1>8, <1>9, OwedStays DEF ConsolidationInv

LEMMA TakeBatchKeeps ==
  ASSUME ConsolidationInv, TakeBatch
  PROVE  ConsolidationInv'
<1>1. /\ pass.step = "ask" /\ pass' = NextBatch(pass)
      /\ UNCHANGED <<entries, nextFact, rounds, told, overtaken, orderly>>
  BY DEF TakeBatch
<1>2. pass \in PassSet /\ ConsolidationTypes /\ (orderly => LeftInv /\ FactsKept)
  BY DEF ConsolidationInv, ConsolidationTypes
<1>3. CASE pass.left = <<>>
  <2>1. pass' = NoPass
    BY <1>1, <1>3 DEF NextBatch
  <2>2. pass' \in PassSet /\ pass'.step = "none" /\ pass'.clusters = <<>>
    BY <2>1, NothingYet DEF NoPass
  <2>3. ConsolidationTypes'
    BY <2>2, <1>1, <1>2 DEF ConsolidationTypes
  <2>4. LeftInv' /\ BatchInv' /\ LoserInv' /\ MergeInv'
    BY <2>2 DEF LeftInv, BatchInv, LoserInv, MergeInv, NamesOnce
  <2> QED BY <2>3, <2>4, <1>1, <1>2, OwedStays DEF ConsolidationInv
<1>4. CASE pass.left # <<>>
  <2>1. PICK all \in Seq(ListedSet) : all = pass.left
    BY <1>2, PassFacts DEF Listings
  <2>2. PICK n \in 1..Len(all) : n = Least(BatchSize, Len(all))
    BY <1>4, <2>1, ConsolidationAssumption DEF Least
  <2>3. PICK batch \in Seq(ListedSet) :
          /\ batch = SubSeq(all, 1, n)
          /\ \A i \in DOMAIN batch : i \in DOMAIN all /\ i <= n /\ batch[i] = all[i]
    <3>1. 1 \in 1..Len(all) + 1 /\ n \in 0..Len(all)
      OBVIOUS
    <3>2. /\ SubSeq(all, 1, n) \in Seq(ListedSet)
          /\ \A i \in DOMAIN SubSeq(all, 1, n) : 1 + i - 1 \in 1..n /\ SubSeq(all, 1, n)[i] = all[1 + i - 1]
      BY <3>1, PartOf
    <3>3. \A i \in DOMAIN SubSeq(all, 1, n) : i \in Nat
      BY <3>2
    <3>4. \A i \in DOMAIN SubSeq(all, 1, n) : i \in DOMAIN all /\ i <= n /\ 1 + i - 1 = i
      BY <3>2, <3>3
    <3> QED BY <3>2, <3>4
  <2>4. PICK left \in Seq(ListedSet) :
          /\ left = SubSeq(all, n + 1, Len(all))
          /\ \A i \in DOMAIN left : i \in Nat /\ n + i \in DOMAIN all /\ n + i > n /\ left[i] = all[n + i]
    <3>1. n + 1 \in 1..Len(all) + 1 /\ Len(all) \in 0..Len(all)
      OBVIOUS
    <3>2. /\ SubSeq(all, n + 1, Len(all)) \in Seq(ListedSet)
          /\ \A i \in DOMAIN SubSeq(all, n + 1, Len(all)) :
               n + 1 + i - 1 \in n + 1..Len(all) /\ SubSeq(all, n + 1, Len(all))[i] = all[n + 1 + i - 1]
      BY <3>1, PartOf
    <3>3. \A i \in DOMAIN SubSeq(all, n + 1, Len(all)) : i \in Nat \ {0}
      BY <3>2, <2>2
    <3>4. \A i \in DOMAIN SubSeq(all, n + 1, Len(all)) :
            i \in Nat /\ n + i \in DOMAIN all /\ n + i > n /\ n + 1 + i - 1 = n + i
      BY <3>2, <3>3, <2>2
    <3> QED BY <3>2, <3>4
  <2>5. pass' = [pass EXCEPT !.step = "cluster", !.batch = batch, !.left = left, !.clusters = <<>>, !.losers = <<>>]
    BY <1>1, <1>4, <2>1, <2>2, <2>3, <2>4 DEF NextBatch
  <2>6. pass' \in PassSet /\ pass'.step = "cluster" /\ pass'.batch = batch /\ pass'.left = left /\ pass'.clusters = <<>>
    BY <2>5, <1>2, NothingYet DEF PassSet, Listings
  <2>7. ConsolidationTypes' /\ MergeInv'
    BY <2>6, <1>1, <1>2 DEF ConsolidationTypes, MergeInv
  <2>8. ASSUME orderly PROVE LeftInv' /\ BatchInv' /\ LoserInv'
    <3>1. /\ \A i \in DOMAIN all : all[i].key \in EntryKeys /\ entries[all[i].key].facts \cap Owed \subseteq all[i].facts
          /\ \A i, j \in DOMAIN all : i # j => all[i].key # all[j].key
      BY <2>8, <1>1, <1>2, <2>1, PassFacts DEF LeftInv, AsListed, ListedSet
    <3>2. \A i \in DOMAIN batch : entries'[batch[i].key].facts \cap Owed' \subseteq batch[i].facts
      BY <3>1, <2>3, <1>1, OwedStays
    <3>3. \A i \in DOMAIN left : entries'[left[i].key].facts \cap Owed' \subseteq left[i].facts
      BY <3>1, <2>4, <1>1, OwedStays
    <3>4. \A i, j \in DOMAIN left : i # j => left[i].key # left[j].key
      <4> SUFFICES ASSUME NEW i \in DOMAIN left, NEW j \in DOMAIN left, i # j PROVE left[i].key # left[j].key
        OBVIOUS
      <4>1. n + i # n + j
        BY <2>4
      <4> QED BY <4>1, <2>4, <3>1
    <3>5. \A i \in DOMAIN left, j \in DOMAIN batch : left[i].key # batch[j].key
      <4> SUFFICES ASSUME NEW i \in DOMAIN left, NEW j \in DOMAIN batch PROVE left[i].key # batch[j].key
        OBVIOUS
      <4>1. n + i # j
        BY <2>3, <2>4
      <4> QED BY <4>1, <2>3, <2>4, <3>1
    <3>6. LeftInv'
      BY <2>6, <3>3, <3>4, <3>5 DEF LeftInv, AsListed
    <3>7. BatchInv' /\ LoserInv'
      BY <2>6, <3>2 DEF BatchInv, LoserInv, NamesOnce, AsListed
    <3> QED BY <3>6, <3>7
  <2> QED BY <2>7, <2>8, <1>1, <1>2, OwedStays DEF ConsolidationInv
<1> QED BY <1>3, <1>4

(* Named without repetition: what is in the first cluster is in no other.  *)
LEMMA NamesApart ==
  ASSUME NEW named \in Clusterings, named # <<>>
  PROVE  /\ Tail(named) \in Clusterings /\ Head(named) \in NameLists
         /\ \A k \in Named(Tail(named)) : k \in Named(named)
         /\ \A p \in DOMAIN Head(named) : Head(named)[p] \in Named(named)
         /\ NamesOnce(named) =>
              /\ NamesOnce(Tail(named))
              /\ \A p \in DOMAIN Head(named) : Head(named)[p] \notin Named(Tail(named))
              /\ \A p, q \in DOMAIN Head(named) : Head(named)[p] = Head(named)[q] => p = q
<1>1. PICK rest \in Clusterings : rest = Tail(named)
  BY RestOf DEF Clusterings
<1>2. PICK first \in NameLists : first = Head(named) /\ first = named[1] /\ 1 \in DOMAIN named
  BY RestOf DEF Clusterings
<1>3. \A i \in DOMAIN rest : i \in Nat \ {0} /\ i + 1 \in DOMAIN named /\ rest[i] = named[i + 1] /\ i + 1 # 1
  BY <1>1, RestOf DEF Clusterings
<1>4. \A k \in Named(rest) : k \in Named(named)
  <2>1. ASSUME NEW i \in DOMAIN rest, NEW j \in DOMAIN rest[i] PROVE rest[i][j] \in Named(named)
    BY <1>3, <2>1 DEF Named
  <2> QED BY <2>1 DEF Named
<1>5. \A p \in DOMAIN first : first[p] \in Named(named)
  BY <1>2 DEF Named
<1>6. ASSUME NamesOnce(named)
      PROVE  /\ NamesOnce(rest)
             /\ \A p \in DOMAIN first : first[p] \notin Named(rest)
             /\ \A p, q \in DOMAIN first : first[p] = first[q] => p = q
  <2>1. NamesOnce(rest)
    <3> SUFFICES ASSUME NEW i \in DOMAIN rest, NEW j \in DOMAIN rest, NEW p \in DOMAIN rest[i], NEW q \in DOMAIN rest[j],
                        rest[i][p] = rest[j][q]
                 PROVE  i = j /\ p = q
      BY DEF NamesOnce
    <3>1. i + 1 = j + 1 /\ p = q
      BY <1>3, <1>6 DEF NamesOnce
    <3> QED BY <3>1, <1>3
  <2>2. ASSUME NEW p \in DOMAIN first, first[p] \in Named(rest) PROVE FALSE
    <3>1. PICK i \in DOMAIN rest : \E j \in DOMAIN rest[i] : rest[i][j] = first[p]
      BY <2>2 DEF Named
    <3>2. PICK j \in DOMAIN rest[i] : rest[i][j] = first[p]
      BY <3>1
    <3> QED BY <3>2, <1>2, <1>3, <1>6 DEF NamesOnce
  <2>3. \A p, q \in DOMAIN first : first[p] = first[q] => p = q
    BY <1>2, <1>6 DEF NamesOnce
  <2> QED BY <2>1, <2>2, <2>3
<1> QED BY <1>1, <1>2, <1>4, <1>5, <1>6

(* A step of a pass that changes neither the entries nor what is still to  *)
(* come of the pass.                                                       *)
LEMMA SameLeft ==
  ASSUME ConsolidationInv, orderly, pass.step # "none", UNCHANGED <<entries, told, overtaken>>,
         pass'.left = pass.left, pass'.batch = pass.batch
  PROVE  LeftInv' /\ FactsKept'
<1>1. LeftInv /\ FactsKept /\ ConsolidationTypes
  BY DEF ConsolidationInv
<1>2. FactsKept'
  BY <1>1, OwedStays
<1>3. Owed' = Owed
  BY OwedStays
<1>4. LeftInv'
  BY <1>1, <1>3, PassFacts DEF LeftInv, AsListed
<1> QED BY <1>2, <1>4

LEMMA FindClustersKeeps ==
  ASSUME ConsolidationInv, NEW named \in Answers, FindClusters(named)
  PROVE  ConsolidationInv'
<1>1. /\ pass.step = "cluster" /\ pass' = [pass EXCEPT !.step = "merge", !.clusters = named]
      /\ orderly' = (orderly /\ NamesOnce(named))
      /\ UNCHANGED <<entries, nextFact, rounds, told, overtaken>>
  BY DEF FindClusters
<1>2. named \in Clusterings /\ pass \in PassSet /\ ConsolidationTypes
  BY ConsolidationAssumption DEF Clusterings, NameLists, ConsolidationInv, ConsolidationTypes
<1>3. /\ pass' \in PassSet /\ pass'.step = "merge" /\ pass'.clusters = named
      /\ pass'.left = pass.left /\ pass'.batch = pass.batch
  BY <1>1, <1>2 DEF PassSet
<1>4. ConsolidationTypes' /\ MergeInv'
  BY <1>1, <1>2, <1>3 DEF ConsolidationTypes, MergeInv
<1>5. ASSUME orderly' PROVE LeftInv' /\ BatchInv' /\ LoserInv' /\ FactsKept'
  <2>1. orderly /\ BatchInv
    BY <1>1, <1>5 DEF ConsolidationInv
  <2>2. LeftInv' /\ FactsKept'
    BY <1>1, <1>3, <2>1, SameLeft
  <2>3. \A i \in DOMAIN pass.batch : entries'[pass.batch[i].key].facts \cap Owed' \subseteq pass.batch[i].facts
    BY <1>1, <1>2, <2>1, OwedStays, PassFacts DEF BatchInv
  <2>4. BatchInv' /\ LoserInv'
    BY <1>1, <1>3, <1>5, <2>3 DEF BatchInv, LoserInv, AsListed
  <2> QED BY <2>2, <2>4
<1> QED BY <1>4, <1>5 DEF ConsolidationInv

LEMMA GiveUpKeeps ==
  ASSUME ConsolidationInv, GiveUpBatch \/ ClusterDone
  PROVE  ConsolidationInv'
<1>1. PICK step \in {"ask", "merge"} :
        /\ pass' = [pass EXCEPT !.step = step] /\ pass.step # "none"
        /\ step = "merge" => pass.step = "forget"
        /\ UNCHANGED <<entries, nextFact, rounds, told, overtaken, orderly>>
  BY DEF GiveUpBatch, ClusterDone
<1>2. pass \in PassSet /\ ConsolidationTypes
  BY DEF ConsolidationInv, ConsolidationTypes
<1>3. /\ pass' \in PassSet /\ pass'.step = step /\ pass'.clusters = pass.clusters
      /\ pass'.left = pass.left /\ pass'.batch = pass.batch
  BY <1>1, <1>2 DEF PassSet
<1>4. ConsolidationTypes' /\ MergeInv'
  BY <1>1, <1>2, <1>3 DEF ConsolidationTypes, MergeInv
<1>5. ASSUME orderly PROVE LeftInv' /\ BatchInv' /\ LoserInv' /\ FactsKept'
  <2>1. BatchInv
    BY <1>5 DEF ConsolidationInv
  <2>2. LeftInv' /\ FactsKept'
    BY <1>1, <1>3, <1>5, SameLeft
  <2>3. step = "merge" =>
          \A i \in DOMAIN pass.batch : pass.batch[i].key \in Named(pass.clusters) =>
            entries'[pass.batch[i].key].facts \cap Owed' \subseteq pass.batch[i].facts
    BY <1>1, <1>2, <2>1, OwedStays, PassFacts DEF BatchInv
  <2>4. BatchInv' /\ LoserInv'
    BY <1>3, <2>1, <2>3 DEF BatchInv, LoserInv, AsListed
  <2> QED BY <2>2, <2>4
<1> QED BY <1>1, <1>4, <1>5 DEF ConsolidationInv

LEMMA SkipClusterKeeps ==
  ASSUME ConsolidationInv, SkipCluster \/ MergeCluster
  PROVE  ConsolidationInv'
<1>1. /\ pass.step = "merge" /\ pass.clusters # <<>>
      /\ UNCHANGED <<entries, nextFact, rounds, told, overtaken, orderly>>
  BY DEF SkipCluster, MergeCluster
<1>2. pass \in PassSet /\ ConsolidationTypes /\ pass.clusters \in Clusterings
  BY PassFacts DEF ConsolidationInv, ConsolidationTypes
<1>3. /\ pass' \in PassSet /\ pass'.left = pass.left /\ pass'.batch = pass.batch
      /\ \/ pass'.step = "merge" /\ pass'.clusters = Tail(pass.clusters)
         \/ pass'.step = "store" /\ pass'.clusters = pass.clusters /\ Members # {}
  <2>1. CASE SkipCluster
    <3>1. pass' = [pass EXCEPT !.clusters = Tail(pass.clusters)] /\ Tail(pass.clusters) \in Clusterings
      BY <2>1, <1>1, <1>2, NamesApart DEF SkipCluster, NextCluster
    <3> QED BY <3>1, <1>1, <1>2 DEF PassSet
  <2>2. CASE MergeCluster
    BY <2>2, <1>2 DEF MergeCluster, PassSet
  <2> QED BY <2>1, <2>2
<1>4. ConsolidationTypes' /\ MergeInv'
  <2>1. ConsolidationTypes'
    BY <1>1, <1>2, <1>3 DEF ConsolidationTypes
  <2>2. ASSUME pass'.step = "store" PROVE pass'.clusters # <<>> /\ Members' # {}
    <3>1. pass'.clusters = pass.clusters /\ Members # {}
      BY <1>1, <1>3, <2>2
    <3>2. Members' = Members
      BY <1>3, <3>1 DEF Members, InBatch, Cluster
    <3> QED BY <1>1, <3>1, <3>2
  <2> QED BY <2>1, <2>2 DEF MergeInv
<1>5. ASSUME orderly PROVE LeftInv' /\ BatchInv' /\ LoserInv' /\ FactsKept'
  <2>1. BatchInv
    BY <1>5 DEF ConsolidationInv
  <2>2. LeftInv' /\ FactsKept'
    BY <1>1, <1>3, <1>5, SameLeft
  <2>3. NamesOnce(pass'.clusters) /\ \A k \in Named(pass'.clusters) : k \in Named(pass.clusters)
    BY <1>1, <1>2, <1>3, <2>1, NamesApart DEF BatchInv
  <2>4. \A i \in DOMAIN pass.batch : pass.batch[i].key \in Named(pass'.clusters) =>
          entries'[pass.batch[i].key].facts \cap Owed' \subseteq pass.batch[i].facts
    BY <1>1, <1>2, <2>1, <2>3, OwedStays, PassFacts DEF BatchInv
  <2>5. BatchInv' /\ LoserInv'
    BY <1>3, <2>3, <2>4 DEF BatchInv, LoserInv, AsListed
  <2> QED BY <2>2, <2>5
<1> QED BY <1>1, <1>4, <1>5 DEF ConsolidationInv

(* Every set of natural numbers that is not empty has a least element.     *)
LEMMA LeastPosition ==
  ASSUME NEW S \in SUBSET Nat, S # {}
  PROVE  \E n \in S : \A m \in S : n <= m
<1>1. \E n \in S : \A m \in S : ~(<<m, n>> \in OpToRel(<, Nat))
  BY NatLessThanWellFounded, WFMin
<1>2. PICK n \in S : \A m \in S : <<m, n>> \notin OpToRel(<, Nat)
  BY <1>1
<1>3. ASSUME NEW m \in S PROVE n <= m
  <2>1. <<m, n>> \notin {ss \in Nat \X Nat : ss[1] < ss[2]}
    BY <1>2, Zenon DEF OpToRel
  <2>2. ~(m < n)
    BY <2>1
  <2> QED BY <2>2
<1> QED BY <1>3

(* The entry that is to take up the others, and those others. *)
LEMMA MergeFacts ==
  ASSUME ConsolidationTypes, pass.clusters # <<>>, Members # {}
  PROVE  /\ Cluster \in NameLists /\ Tail(pass.clusters) \in Clusterings
         /\ FirstMember \in DOMAIN Cluster /\ InBatch(Cluster[FirstMember])
         /\ Merged \subseteq Nat
         /\ \A i \in DOMAIN pass.batch : \A j \in DOMAIN Cluster :
              pass.batch[i].key = Cluster[j] => pass.batch[i].facts \subseteq Merged
         /\ Losers \in NameLists
         /\ \A j \in DOMAIN Losers : \E p \in DOMAIN Cluster : p # FirstMember /\ Losers[j] = Cluster[p]
<1>1. Cluster \in NameLists /\ Tail(pass.clusters) \in Clusterings
  BY PassFacts, NamesApart DEF Cluster
<1>2. PICK cluster \in Seq(STRING) : cluster = Cluster
  BY <1>1 DEF NameLists
<1>3. FirstMember \in Members
  <2>1. Members \in SUBSET Nat
    BY <1>2 DEF Members
  <2>2. \E j \in Members : \A i \in Members : j <= i
    BY <2>1, LeastPosition
  <2> QED BY <2>2 DEF FirstMember
<1>4. PICK first \in DOMAIN cluster : first = FirstMember /\ InBatch(cluster[first])
  BY <1>2, <1>3 DEF Members
<1>5. Merged \subseteq Nat
  BY PassFacts DEF Merged, ListedSet
<1>6. ASSUME NEW i \in DOMAIN pass.batch, NEW j \in DOMAIN Cluster, pass.batch[i].key = Cluster[j]
      PROVE  pass.batch[i].facts \subseteq Merged
  <2>1. j \in Members
    BY <1>6 DEF Members, InBatch
  <2> QED BY <1>6, <2>1 DEF Merged
<1>7. /\ Losers \in Seq(STRING)
      /\ \A j \in DOMAIN Losers : \E p \in DOMAIN cluster : p # first /\ Losers[j] = cluster[p]
  <2>1. first + 1 \in 1..Len(cluster) + 1 /\ Len(cluster) \in 0..Len(cluster) /\ first \in Nat
    OBVIOUS
  <2>2. PICK losers \in Seq(STRING) :
          /\ losers = SubSeq(cluster, first + 1, Len(cluster))
          /\ \A j \in DOMAIN losers :
               first + 1 + j - 1 \in first + 1..Len(cluster) /\ losers[j] = cluster[first + 1 + j - 1]
    <3>1. /\ SubSeq(cluster, first + 1, Len(cluster)) \in Seq(STRING)
          /\ \A j \in DOMAIN SubSeq(cluster, first + 1, Len(cluster)) :
               /\ first + 1 + j - 1 \in first + 1..Len(cluster)
               /\ SubSeq(cluster, first + 1, Len(cluster))[j] = cluster[first + 1 + j - 1]
      BY <2>1, PartOf
    <3> QED BY <3>1
  <2>3. Losers = losers
    BY <1>2, <1>4, <2>2 DEF Losers
  <2>4. ASSUME NEW j \in DOMAIN losers PROVE \E p \in DOMAIN cluster : p # first /\ losers[j] = cluster[p]
    <3>1. first + 1 + j - 1 \in first + 1..Len(cluster) /\ losers[j] = cluster[first + 1 + j - 1]
      BY <2>2
    <3>2. \A p \in first + 1..Len(cluster) : p \in DOMAIN cluster /\ p # first
      BY <2>1
    <3> QED BY <3>1, <3>2
  <2> QED BY <2>2, <2>3, <2>4
<1> QED BY <1>1, <1>2, <1>4, <1>5, <1>6, <1>7 DEF NameLists

LEMMA StoreMergedKeeps ==
  ASSUME ConsolidationInv, StoreMerged
  PROVE  ConsolidationInv'
<1>1. ConsolidationTypes /\ pass \in PassSet /\ entries \in [EntryKeys -> EntrySet]
  BY DEF ConsolidationInv, ConsolidationTypes
<1>2. /\ pass.step = "store" /\ pass' = [NextCluster EXCEPT !.step = "forget", !.losers = Losers]
      /\ entries' = [entries EXCEPT ![Cluster[FirstMember]] = [facts |-> Merged, category |-> pass.category]]
      /\ UNCHANGED <<nextFact, rounds, told, overtaken, orderly>>
  BY DEF StoreMerged
<1>3. pass.clusters # <<>> /\ Members # {}
  BY <1>2 DEF ConsolidationInv, MergeInv
<1>4. PICK w \in EntryKeys, i \in DOMAIN pass.batch, first \in DOMAIN Cluster :
        first = FirstMember /\ w = Cluster[first] /\ pass.batch[i].key = w
  BY <1>1, <1>3, MergeFacts, PassFacts DEF InBatch
<1>5. PICK merged \in SUBSET Nat : merged = Merged
  BY <1>1, <1>3, MergeFacts
<1>6. PICK losers \in NameLists, rest \in Clusterings : losers = Losers /\ rest = Tail(pass.clusters)
  BY <1>1, <1>3, MergeFacts
<1>7. /\ pass' \in PassSet /\ pass'.step = "forget" /\ pass'.losers = losers /\ pass'.clusters = rest
      /\ pass'.left = pass.left /\ pass'.batch = pass.batch
  BY <1>1, <1>2, <1>6 DEF NextCluster, PassSet
<1>8. /\ entries' \in [EntryKeys -> EntrySet] /\ entries'[w].facts = merged
      /\ \A k \in EntryKeys : k # w => entries'[k] = entries[k]
  <2>1. [facts |-> merged, category |-> pass.category] \in EntrySet
    BY <1>1 DEF PassSet, EntrySet
  <2> QED BY <2>1, <1>1, <1>2, <1>4, <1>5
<1>9. ConsolidationTypes' /\ MergeInv'
  BY <1>1, <1>2, <1>7, <1>8 DEF ConsolidationTypes, MergeInv
<1>10. ASSUME orderly PROVE LeftInv' /\ BatchInv' /\ LoserInv' /\ FactsKept'
  <2>1. LeftInv /\ BatchInv /\ FactsKept /\ Owed' = Owed
    BY <1>2, <1>10 DEF ConsolidationInv, Owed
  <2>2. /\ NamesOnce(rest) /\ \A k \in Named(rest) : k \in Named(pass.clusters) /\ k # w
        /\ \A p \in DOMAIN Cluster : Cluster[p] \in Named(pass.clusters) /\ (p # first => Cluster[p] # w)
    BY <1>1, <1>3, <1>4, <1>6, <2>1, PassFacts, NamesApart DEF BatchInv, Cluster
  <2>3. \A j \in DOMAIN pass.batch : pass.batch[j].key \in Named(pass.clusters) =>
          entries[pass.batch[j].key].facts \cap Owed \subseteq pass.batch[j].facts
    BY <1>2, <2>1 DEF BatchInv, AsListed
  <2>4. \A p \in DOMAIN Cluster : InBatch(Cluster[p]) =>
          Cluster[p] \in EntryKeys /\ entries[Cluster[p]].facts \cap Owed \subseteq merged
    <3> SUFFICES ASSUME NEW p \in DOMAIN Cluster, NEW j \in DOMAIN pass.batch, pass.batch[j].key = Cluster[p]
                 PROVE  Cluster[p] \in EntryKeys /\ entries[Cluster[p]].facts \cap Owed \subseteq merged
      BY DEF InBatch
    <3>1. pass.batch[j].facts \subseteq merged
      BY <1>1, <1>3, <1>5, MergeFacts
    <3> QED BY <3>1, <2>2, <2>3, <1>1, PassFacts
  <2>5. entries[w].facts \cap Owed \subseteq merged
    BY <1>4, <2>4 DEF InBatch
  <2>6. FactsKept'
    <3> SUFFICES ASSUME NEW f \in Owed PROVE \E k \in EntryKeys : f \in entries'[k].facts
      BY <2>1 DEF FactsKept, Owed, Kept
    <3>1. PICK k \in EntryKeys : f \in entries[k].facts
      BY <1>10, <2>1 DEF FactsKept, Owed, Kept
    <3> QED BY <3>1, <2>5, <1>8
  <2>7. LeftInv'
    <3>1. \A j \in DOMAIN pass.left : pass.left[j].key \in EntryKeys /\ pass.left[j].key # w
      BY <1>1, <1>2, <1>4, <2>1, PassFacts DEF LeftInv, ListedSet
    <3>2. \A j \in DOMAIN pass.left : entries'[pass.left[j].key].facts \cap Owed' \subseteq pass.left[j].facts
      BY <3>1, <1>2, <1>8, <2>1 DEF LeftInv, AsListed
    <3> QED BY <3>2, <1>2, <1>7, <2>1 DEF LeftInv, AsListed
  <2>8. BatchInv'
    <3>1. \A j \in DOMAIN pass.batch : pass.batch[j].key \in Named(rest) =>
            entries'[pass.batch[j].key].facts \cap Owed' \subseteq pass.batch[j].facts
      BY <1>1, <1>8, <2>1, <2>2, <2>3, PassFacts
    <3> QED BY <3>1, <1>7, <2>2 DEF BatchInv, AsListed
  <2>9. LoserInv'
    <3>1. ASSUME NEW j \in DOMAIN losers, InBatch(losers[j])
          PROVE  losers[j] # w /\ entries'[losers[j]].facts \cap Owed' \subseteq entries'[w].facts
      <4>1. PICK p \in DOMAIN Cluster : p # first /\ losers[j] = Cluster[p]
        BY <1>1, <1>3, <1>4, <1>6, MergeFacts
      <4> QED BY <4>1, <3>1, <1>8, <2>1, <2>2, <2>4
    <3>2. \A k : InBatch(k)' <=> InBatch(k)
      BY <1>7 DEF InBatch
    <3> QED BY <3>1, <3>2, <1>7 DEF LoserInv
  <2> QED BY <2>6, <2>7, <2>8, <2>9
<1> QED BY <1>2, <1>9, <1>10 DEF ConsolidationInv

LEMMA ForgetLoserKeeps ==
  ASSUME ConsolidationInv, NEW fails \in BOOLEAN, ForgetLoser(fails)
  PROVE  ConsolidationInv'
<1>1. ConsolidationTypes /\ pass \in PassSet /\ entries \in [EntryKeys -> EntrySet] /\ pass.losers \in NameLists
  BY PassFacts DEF ConsolidationInv, ConsolidationTypes
<1>2. /\ pass.step = "forget" /\ pass.losers # <<>> /\ pass' = [pass EXCEPT !.losers = Tail(@)]
      /\ entries' = IF fails \/ ~InBatch(Head(pass.losers)) THEN entries
                    ELSE [entries EXCEPT ![Head(pass.losers)] = NoEntry]
      /\ UNCHANGED <<nextFact, rounds, told, overtaken, orderly>>
  BY DEF ForgetLoser
<1>3. PICK rest \in NameLists, h \in STRING :
        /\ rest = Tail(pass.losers) /\ h = Head(pass.losers) /\ 1 \in DOMAIN pass.losers /\ h = pass.losers[1]
        /\ \A j \in DOMAIN rest : j + 1 \in DOMAIN pass.losers /\ rest[j] = pass.losers[j + 1]
  <2>1. pass.losers \in Seq(STRING) /\ pass.losers # <<>>
    BY <1>1, <1>2 DEF NameLists
  <2>2. /\ Tail(pass.losers) \in Seq(STRING) /\ Head(pass.losers) = pass.losers[1] /\ Head(pass.losers) \in STRING
        /\ 1 \in DOMAIN pass.losers
        /\ \A j \in DOMAIN Tail(pass.losers) : j + 1 \in DOMAIN pass.losers /\ Tail(pass.losers)[j] = pass.losers[j + 1]
    BY <2>1, RestOf
  <2> QED BY <2>2 DEF NameLists
<1>4. /\ pass' \in PassSet /\ pass'.step = "forget" /\ pass'.losers = rest /\ pass'.clusters = pass.clusters
      /\ pass'.left = pass.left /\ pass'.batch = pass.batch
  BY <1>1, <1>2, <1>3 DEF PassSet
<1>5. InBatch(h) => h \in EntryKeys
  BY <1>1, PassFacts DEF InBatch
<1>6. /\ entries' \in [EntryKeys -> EntrySet] /\ \A k \in EntryKeys : entries'[k].facts \subseteq entries[k].facts
      /\ \A k \in EntryKeys : k # h \/ ~InBatch(h) => entries'[k] = entries[k]
  <2>1. NoEntry \in EntrySet /\ NoEntry.facts = {}
    BY DEF NoEntry, EntrySet, EntryCategories
  <2>2. CASE fails \/ ~InBatch(h)
    BY <2>2, <1>1, <1>2, <1>3
  <2>3. CASE ~fails /\ InBatch(h)
    <3>1. entries' = [entries EXCEPT ![h] = NoEntry]
      BY <2>3, <1>2, <1>3
    <3> QED BY <3>1, <2>1, <2>3, <1>1, <1>5
  <2> QED BY <2>2, <2>3
<1>7. ConsolidationTypes' /\ MergeInv'
  BY <1>1, <1>2, <1>4, <1>6 DEF ConsolidationTypes, MergeInv
<1>8. ASSUME orderly PROVE LeftInv' /\ BatchInv' /\ LoserInv' /\ FactsKept'
  <2>1. LeftInv /\ BatchInv /\ LoserInv /\ FactsKept /\ Owed' = Owed
    BY <1>2, <1>8 DEF ConsolidationInv, Owed
  <2>2. PICK w \in EntryKeys : \A j \in DOMAIN pass.losers : InBatch(pass.losers[j]) =>
          pass.losers[j] # w /\ entries[pass.losers[j]].facts \cap Owed \subseteq entries[w].facts
    BY <1>2, <2>1 DEF LoserInv
  <2>3. InBatch(h) => h # w /\ entries[h].facts \cap Owed \subseteq entries[w].facts
    BY <1>3, <2>2
  <2>4. entries'[w] = entries[w]
    BY <1>6, <2>3
  <2>5. FactsKept'
    <3> SUFFICES ASSUME NEW f \in Owed PROVE \E k \in EntryKeys : f \in entries'[k].facts
      BY <2>1 DEF FactsKept, Owed, Kept
    <3>1. PICK k \in EntryKeys : f \in entries[k].facts
      BY <1>8, <2>1 DEF FactsKept, Owed, Kept
    <3>2. CASE k # h \/ ~InBatch(h)
      BY <3>1, <3>2, <1>6
    <3>3. CASE k = h /\ InBatch(h)
      BY <3>1, <3>3, <2>3, <2>4
    <3> QED BY <3>2, <3>3
  <2>6. ASSUME NEW r \in ListedSet, entries[r.key].facts \cap Owed \subseteq r.facts
        PROVE  entries'[r.key].facts \cap Owed \subseteq r.facts
    <3>1. r.key \in EntryKeys
      BY DEF ListedSet
    <3> QED BY <3>1, <2>6, <1>6
  <2>7. LeftInv'
    <3>1. \A j \in DOMAIN pass.left : entries'[pass.left[j].key].facts \cap Owed' \subseteq pass.left[j].facts
      BY <1>1, <1>2, <2>1, <2>6, PassFacts DEF LeftInv, AsListed
    <3> QED BY <3>1, <1>2, <1>4, <2>1 DEF LeftInv, AsListed
  <2>8. BatchInv'
    <3>1. \A j \in DOMAIN pass.batch : pass.batch[j].key \in Named(pass.clusters) =>
            entries'[pass.batch[j].key].facts \cap Owed' \subseteq pass.batch[j].facts
      BY <1>1, <1>2, <2>1, <2>6, PassFacts DEF BatchInv, AsListed
    <3> QED BY <3>1, <1>4, <2>1 DEF BatchInv, AsListed
  <2>9. LoserInv'
    <3>1. ASSUME NEW j \in DOMAIN rest, InBatch(rest[j])
          PROVE  rest[j] # w /\ entries'[rest[j]].facts \cap Owed' \subseteq entries'[w].facts
      <4>1. j + 1 \in DOMAIN pass.losers /\ rest[j] = pass.losers[j + 1] /\ rest[j] \in EntryKeys
        BY <1>1, <1>3, <3>1, PassFacts DEF InBatch
      <4>2. rest[j] # w /\ entries[rest[j]].facts \cap Owed \subseteq entries[w].facts
        BY <4>1, <3>1, <2>2
      <4> QED BY <4>1, <4>2, <1>6, <2>1, <2>4
    <3>2. \A k : InBatch(k)' <=> InBatch(k)
      BY <1>4 DEF InBatch
    <3> QED BY <3>1, <3>2, <1>4 DEF LoserInv
  <2> QED BY <2>5, <2>7, <2>8, <2>9
<1> QED BY <1>2, <1>7, <1>8 DEF ConsolidationInv

LEMMA PassBreaksOffKeeps ==
  ASSUME ConsolidationInv, PassBreaksOff
  PROVE  ConsolidationInv'
<1>1. pass' = NoPass /\ UNCHANGED <<entries, nextFact, rounds, told, overtaken, orderly>>
  BY DEF PassBreaksOff
<1>2. pass' \in PassSet /\ pass'.step = "none" /\ pass'.clusters = <<>>
  BY <1>1, NothingYet DEF NoPass
<1>3. ConsolidationTypes' /\ MergeInv' /\ LeftInv' /\ BatchInv' /\ LoserInv'
  BY <1>1, <1>2 DEF ConsolidationInv, ConsolidationTypes, MergeInv, LeftInv, BatchInv, LoserInv, NamesOnce
<1>4. orderly' => FactsKept'
  BY <1>1, OwedStays DEF ConsolidationInv
<1> QED BY <1>3, <1>4 DEF ConsolidationInv

LEMMA AgentStepKeeps ==
  ASSUME ConsolidationInv, NEW k \in EntryKeys,
         AgentForgets(k) \/ \E c \in {"Core", "Global"} : AgentStores(k, c)
  PROVE  ConsolidationInv'
<1>1. ConsolidationTypes
  BY DEF ConsolidationInv
<1>2. CASE AgentForgets(k)
  <2>1. /\ entries' = [entries EXCEPT ![k] = NoEntry] /\ told' = told \ entries[k].facts
        /\ UNCHANGED <<pass, nextFact, rounds, overtaken, orderly>>
    BY <1>2 DEF AgentForgets
  <2>2. NoEntry \in EntrySet /\ NoEntry.facts = {}
    BY DEF NoEntry, EntrySet, EntryCategories
  <2>3. ConsolidationTypes'
    BY <1>1, <2>1, <2>2 DEF ConsolidationTypes
  <2>4. Owed' \subseteq (Owed \ entries[k].facts) \cup NoEntry.facts
    BY <2>1 DEF Owed
  <2> QED BY <2>1, <2>2, <2>3, <2>4, AgentKeeps
<1>3. ASSUME NEW c \in {"Core", "Global"}, AgentStores(k, c) PROVE ConsolidationInv'
  <2>1. PICK e \in EntrySet : e = [facts |-> {nextFact}, category |-> c]
    BY <1>1 DEF EntrySet, EntryCategories, ConsolidationTypes
  <2>2. /\ entries' = [entries EXCEPT ![k] = e] /\ told' = (told \ entries[k].facts) \cup {nextFact}
        /\ overtaken' = (IF pass.step = "none" THEN overtaken ELSE overtaken \cup {nextFact})
        /\ nextFact' = nextFact + 1 /\ UNCHANGED <<pass, rounds, orderly>>
    BY <1>3, <2>1 DEF AgentStores
  <2>3. ConsolidationTypes'
    <3>1. nextFact \in Nat /\ told \subseteq Nat /\ overtaken \subseteq Nat /\ entries \in [EntryKeys -> EntrySet]
      BY <1>1 DEF ConsolidationTypes
    <3>2. nextFact' \in Nat /\ told' \subseteq Nat /\ entries' \in [EntryKeys -> EntrySet]
      <4>1. nextFact + 1 \in Nat
        BY <3>1
      <4>2. \A f \in (told \ entries[k].facts) \cup {nextFact} : f \in Nat
        BY <3>1
      <4> QED BY <4>1, <4>2, <2>2, <3>1
    <3>3. overtaken' \subseteq Nat
      BY <2>2, <3>1
    <3> QED BY <1>1, <2>2, <3>2, <3>3 DEF ConsolidationTypes
  <2>4. e.facts = {nextFact} /\ Owed' \subseteq (Owed \ entries[k].facts) \cup e.facts
    BY <2>1, <2>2 DEF Owed
  <2>5. pass.step # "none" => e.facts \cap Owed' = {}
    BY <2>2, <2>4 DEF Owed
  <2> QED BY <2>2, <2>3, <2>4, <2>5, AgentKeeps
<1> QED BY <1>2, <1>3

(* Merging similar entries loses none of the facts the agents told, at no  *)
(* moment and wherever it breaks off, while the model names no key twice   *)
(* and but for what they tell while it is going on.                        *)
THEOREM FactsAreKept == ConsolidationSpec => []FactsKept
<1>1. ConsolidationInit => ConsolidationInv
  <2> SUFFICES ASSUME ConsolidationInit PROVE ConsolidationInv
    OBVIOUS
  <2>1. NoEntry \in EntrySet
    BY DEF NoEntry, EntrySet, EntryCategories
  <2>2. ConsolidationTypes
    BY <2>1, NothingYet DEF ConsolidationInit, ConsolidationTypes
  <2>3. pass.step = "none" /\ pass.clusters = <<>>
    BY DEF ConsolidationInit, NoPass
  <2>4. MergeInv /\ LeftInv /\ BatchInv /\ LoserInv
    BY <2>3 DEF MergeInv, LeftInv, BatchInv, LoserInv, NamesOnce
  <2>5. FactsKept
    BY DEF ConsolidationInit, FactsKept
  <2> QED BY <2>2, <2>4, <2>5 DEF ConsolidationInv
<1>2. ConsolidationInv /\ [ConsolidationNext]_consolidationVars => ConsolidationInv'
  <2> SUFFICES ASSUME ConsolidationInv, [ConsolidationNext]_consolidationVars PROVE ConsolidationInv'
    OBVIOUS
  <2>1. CASE \E k \in EntryKeys : AgentForgets(k) \/ \E c \in {"Core", "Global"} : AgentStores(k, c)
    BY <2>1, AgentStepKeeps
  <2>2. CASE \E c \in {"Core", "Global"} : List(c)
    BY <2>2, ListKeeps
  <2>3. CASE \E named \in Answers : FindClusters(named)
    BY <2>3, FindClustersKeeps
  <2>4. CASE TakeBatch
    BY <2>4, TakeBatchKeeps
  <2>5. CASE GiveUpBatch \/ ClusterDone
    BY <2>5, GiveUpKeeps
  <2>6. CASE SkipCluster \/ MergeCluster
    BY <2>6, SkipClusterKeeps
  <2>7. CASE StoreMerged
    BY <2>7, StoreMergedKeeps
  <2>8. CASE \E fails \in BOOLEAN : ForgetLoser(fails)
    BY <2>8, ForgetLoserKeeps
  <2>9. CASE PassBreaksOff
    BY <2>9, PassBreaksOffKeeps
  <2>10. CASE UNCHANGED consolidationVars
    BY <2>10 DEF consolidationVars, ConsolidationInv, ConsolidationTypes, MergeInv, LeftInv, BatchInv, LoserInv,
                 FactsKept, Kept, Owed, AsListed, Members, InBatch, Cluster
  <2> QED BY <2>1, <2>2, <2>3, <2>4, <2>5, <2>6, <2>7, <2>8, <2>9, <2>10 DEF ConsolidationNext
<1>3. ConsolidationInv => FactsKept
  BY DEF ConsolidationInv, FactsKept
<1> QED BY <1>1, <1>2, <1>3, PTL DEF ConsolidationSpec

-----------------------------------------------------------------------------
(* The three together: what was stored is what is found.                   *)
THEOREM MemoryIsKept == MemorySpec => []MemoryKeeps
<1>1. IndexSpec => []VectorsFollowRows
  BY VectorsAreOfTheRows
<1>2. ConsolidationSpec => []FactsKept
  BY FactsAreKept
<1>3. MarkdownSpec => [](EntriesAreWhole /\ ListsWhatStands)
  BY FilesAreRead
<1>4. VectorsFollowRows /\ FactsKept /\ (EntriesAreWhole /\ ListsWhatStands) => MemoryKeeps
  BY DEF MemoryKeeps
<1> QED BY <1>1, <1>2, <1>3, <1>4, PTL DEF MemorySpec

-----------------------------------------------------------------------------
(* Recall: a finite set of ranks and how it is counted.                    *)

Better(i, ranks) == {j \in ranks : j < i}
FiniteRanks(ranks) == ranks \subseteq Nat /\ IsFiniteSet(ranks)

LEMMA BetterAreFewer ==
  ASSUME NEW ranks, FiniteRanks(ranks)
  PROVE  /\ Cardinality(ranks) \in Nat
         /\ \A i \in ranks : Cardinality(Better(i, ranks)) \in 0..(Cardinality(ranks) - 1)
         /\ \A i, j \in ranks : i < j => Cardinality(Better(i, ranks)) < Cardinality(Better(j, ranks))
<1>1. IsFiniteSet(ranks) /\ ranks \subseteq Nat /\ Cardinality(ranks) \in Nat
  BY FS_CardinalityType DEF FiniteRanks
<1>2. ASSUME NEW U \in SUBSET ranks, NEW T \in SUBSET U, NEW x \in U, x \notin T
      PROVE  Cardinality(T) \in Nat /\ Cardinality(T) < Cardinality(U)
  <2>1. IsFiniteSet(U)
    BY <1>1, FS_Subset
  <2>2. IsFiniteSet(T) /\ Cardinality(T) <= Cardinality(U) /\ (Cardinality(U) = Cardinality(T) => U = T)
    BY <2>1, FS_Subset
  <2>3. U # T
    BY <1>2
  <2>4. Cardinality(T) \in Nat /\ Cardinality(U) \in Nat
    BY <2>1, <2>2, FS_CardinalityType
  <2> QED BY <2>2, <2>3, <2>4
<1>3. ASSUME NEW i \in ranks PROVE Cardinality(Better(i, ranks)) \in 0..(Cardinality(ranks) - 1)
  <2>1. Better(i, ranks) \in SUBSET ranks /\ i \notin Better(i, ranks) /\ ranks \in SUBSET ranks
    BY <1>1 DEF Better
  <2>2. Cardinality(Better(i, ranks)) \in Nat /\ Cardinality(Better(i, ranks)) < Cardinality(ranks)
    BY <1>2, <2>1
  <2> QED BY <1>1, <2>2
<1>4. ASSUME NEW i \in ranks, NEW j \in ranks, i < j
      PROVE  Cardinality(Better(i, ranks)) < Cardinality(Better(j, ranks))
  <2>1. \A m \in ranks : m < i => m < j
    BY <1>1, <1>4
  <2>2. Better(j, ranks) \in SUBSET ranks /\ Better(i, ranks) \in SUBSET Better(j, ranks)
    BY <2>1, Zenon DEF Better
  <2>3. i \in Better(j, ranks) /\ i \notin Better(i, ranks)
    BY <1>1, <1>4 DEF Better
  <2> QED BY <1>2, <2>2, <2>3
<1> QED BY <1>1, <1>3, <1>4

(* The n best are n, or there are no others.                               *)
LEMMA BestAreSoMany ==
  ASSUME NEW n \in Nat, NEW ranks, FiniteRanks(ranks)
  PROVE  /\ Best(n, ranks) \subseteq ranks /\ FiniteRanks(Best(n, ranks))
         /\ Cardinality(Best(n, ranks)) \in 0..n
         /\ Best(n, ranks) = ranks \/ Cardinality(Best(n, ranks)) = n
         /\ Cardinality(ranks) <= n => Best(n, ranks) = ranks
<1> DEFINE best == Best(n, ranks)  Count(i) == Cardinality(Better(i, ranks))
           place == [i \in best |-> Count(i)]
<1>1. /\ best \subseteq ranks /\ ranks \subseteq Nat
      /\ \A i \in ranks : i \in best <=> Count(i) < n
  BY DEF Best, FiniteRanks, Better
<1>2. IsFiniteSet(best) /\ Cardinality(best) \in Nat /\ FiniteRanks(best)
  BY <1>1, FS_Subset, FS_CardinalityType DEF FiniteRanks
<1>3. /\ Cardinality(ranks) \in Nat
      /\ \A i \in ranks : Count(i) \in 0..(Cardinality(ranks) - 1)
      /\ \A i, j \in ranks : i < j => Count(i) < Count(j)
  BY BetterAreFewer
<1>4. IsFiniteSet(0..(n - 1)) /\ Cardinality(0..(n - 1)) = n
  BY FS_Interval
<1>5. Cardinality(best) <= n
  <2> HIDE DEF best, Count
  <2>1. place \in [best -> 0..(n - 1)]
    BY <1>1, <1>3
  <2>2. ASSUME NEW i \in best, NEW j \in best, place[i] = place[j] PROVE i = j
    <3>1. Count(i) = Count(j) /\ i \in ranks /\ j \in ranks /\ i \in Nat /\ j \in Nat
      BY <1>1, <2>2
    <3>2. ~(i < j) /\ ~(j < i) /\ Count(i) \in Nat
      BY <1>3, <3>1
    <3> QED BY <3>1, <3>2
  <2> HIDE DEF place
  <2>3. place \in Injection(best, 0..(n - 1))
    BY <2>1, <2>2 DEF Injection, IsInjective
  <2> QED BY <2>3, <1>4, FS_Injection
<1>6. ASSUME best # ranks PROVE Cardinality(best) >= n
  <2>1. PICK i \in ranks : i \notin best
    BY <1>1, <1>6
  <2>2. Count(i) >= n
    BY <1>1, <1>3, <2>1
  <2> DEFINE out == {k \in ranks : k \notin best}
  <2>3. out \in SUBSET Nat /\ out # {}
    BY <1>1, <2>1
  <2>4. PICK k \in out : \A m \in out : k <= m
    BY <2>3, LeastPosition
  <2>5. k \in ranks /\ k \notin best /\ Count(k) >= n
    BY <1>1, <1>3, <2>4
  <2>6. Better(k, ranks) \subseteq best
    <3> SUFFICES ASSUME NEW m \in ranks, m < k, m \notin best PROVE FALSE
      BY <1>1 DEF Better
    <3>1. m \in out
      OBVIOUS
    <3> QED BY <2>4, <3>1, <1>1
  <2>7. Count(k) <= Cardinality(best)
    BY <1>2, <2>6, FS_Subset
  <2> QED BY <1>2, <1>3, <2>5, <2>7
<1>7. Cardinality(ranks) <= n => best = ranks
  <2>1. Cardinality(ranks) <= n => \A i \in ranks : Count(i) < n
    BY <1>3
  <2>2. (\A i \in ranks : Count(i) < n) => \A i \in ranks : i \in best
    BY <1>1
  <2> QED BY <1>1, <2>1, <2>2
<1>8. Cardinality(best) \in 0..n /\ (best = ranks \/ Cardinality(best) = n)
  BY <1>2, <1>5, <1>6
<1> QED BY <1>1, <1>2, <1>7, <1>8

(* A listing of ranks names each of them once.                             *)
LEMMA AllAreListed ==
  ASSUME NEW ranks, FiniteRanks(ranks)
  PROVE  /\ Cardinality(ranks) \in Nat
         /\ BestFirst(ranks) \in [1..Cardinality(ranks) -> ranks]
         /\ \A i \in ranks : \E m \in 1..Cardinality(ranks) : BestFirst(ranks)[m] = i
         /\ \A m, n \in 1..Cardinality(ranks) : BestFirst(ranks)[m] = BestFirst(ranks)[n] => m = n
<1> DEFINE size == Cardinality(ranks)  Count(i) == Cardinality(Better(i, ranks))
           place == [i \in ranks |-> Count(i)]
<1>1. /\ size \in Nat /\ ranks \subseteq Nat /\ IsFiniteSet(ranks)
      /\ \A i \in ranks : Count(i) \in 0..(size - 1)
      /\ \A i, j \in ranks : i < j => Count(i) < Count(j)
  BY BetterAreFewer DEF FiniteRanks
<1>2. ASSUME NEW i \in ranks, NEW j \in ranks, Count(i) = Count(j) PROVE i = j
  <2>1. ~(i < j) /\ ~(j < i) /\ i \in Nat /\ j \in Nat
    <3> HIDE DEF Count
    <3> QED BY <1>1, <1>2
  <2> QED BY <2>1
<1>3. ASSUME NEW c \in 0..(size - 1) PROVE \E i \in ranks : Count(i) = c
  <2> HIDE DEF Count
  <2>1. IsFiniteSet(0..(size - 1)) /\ Cardinality(0..(size - 1)) = size
    <3> HIDE DEF size
    <3> QED BY <1>1, FS_Interval
  <2>2. place \in [ranks -> 0..(size - 1)] /\ \A i \in ranks : place[i] = Count(i)
    BY <1>1
  <2> HIDE DEF place
  <2>3. place \in Injection(ranks, 0..(size - 1))
    BY <1>2, <2>2 DEF Injection, IsInjective
  <2>4. place \in Surjection(ranks, 0..(size - 1))
    BY <2>1, <2>3, FS_Injection
  <2> QED BY <2>2, <2>4 DEF Surjection
<1>4. ASSUME NEW n \in 1..size
      PROVE  BestFirst(ranks)[n] \in ranks /\ Count(BestFirst(ranks)[n]) = n - 1
  <2>1. BestFirst(ranks)[n] = CHOOSE i \in ranks : Count(i) = n - 1
    BY DEF BestFirst, Better
  <2>2. n - 1 \in 0..(size - 1)
    BY <1>1
  <2>3. \E i \in ranks : Count(i) = n - 1
    BY <1>3, <2>2
  <2> HIDE DEF Count
  <2> QED BY <2>1, <2>3
<1>5. BestFirst(ranks) \in [1..size -> ranks]
  <2>1. BestFirst(ranks) = [n \in 1..size |-> BestFirst(ranks)[n]]
    BY DEF BestFirst
  <2> QED BY <1>4, <2>1
<1>6. ASSUME NEW i \in ranks PROVE \E m \in 1..size : BestFirst(ranks)[m] = i
  <2>1. Count(i) + 1 \in 1..size /\ Count(i) = (Count(i) + 1) - 1
    <3> HIDE DEF Count, size
    <3> QED BY <1>1
  <2>2. BestFirst(ranks)[Count(i) + 1] \in ranks /\ Count(BestFirst(ranks)[Count(i) + 1]) = Count(i)
    BY <1>4, <2>1
  <2>3. BestFirst(ranks)[Count(i) + 1] = i
    BY <1>2, <2>2
  <2> QED BY <2>1, <2>3
<1>7. ASSUME NEW m \in 1..size, NEW n \in 1..size, BestFirst(ranks)[m] = BestFirst(ranks)[n] PROVE m = n
  <2>1. m - 1 = n - 1
    BY <1>4, <1>7
  <2> QED BY <2>1, <1>1
<1> QED BY <1>1, <1>5, <1>6, <1>7

(* A rank that is not behind the n-th of all is among the n best of any.   *)
LEMMA TopIsAmongTheBest ==
  ASSUME NEW n \in Nat, NEW ranks, FiniteRanks(ranks), 0 \notin ranks, NEW i \in ranks, i <= n
  PROVE  i \in Best(n, ranks)
<1>1. i \in Nat \ {0} /\ ranks \subseteq Nat
  BY DEF FiniteRanks
<1>2. \A m \in ranks : m < i => m \in 1..(i - 1)
  BY <1>1
<1>3. Better(i, ranks) \in SUBSET (1..(i - 1))
  BY <1>2, Zenon DEF Better
<1>4. IsFiniteSet(1..(i - 1)) /\ Cardinality(1..(i - 1)) = i - 1
  BY <1>1, FS_Interval
<1>5. Cardinality(Better(i, ranks)) <= i - 1 /\ Cardinality(Better(i, ranks)) \in Nat
  BY <1>3, <1>4, FS_Subset, FS_CardinalityType
<1>6. Cardinality(Better(i, ranks)) < n
  BY <1>1, <1>5
<1> QED BY <1>6, Zenon DEF Best, Better

LEMMA FirstOfSequence ==
  ASSUME NEW X, NEW s \in Seq(X), NEW n \in Nat
  PROVE  /\ First(n, s) \in Seq(X) /\ Len(First(n, s)) \in Nat
         /\ Len(First(n, s)) <= n /\ Len(First(n, s)) <= Len(s)
         /\ Len(First(n, s)) = n \/ Len(First(n, s)) = Len(s)
         /\ \A i \in 1..Len(First(n, s)) : First(n, s)[i] = s[i]
<1>1. PICK l \in Nat : l = Len(s)
  OBVIOUS
<1>2. PICK m \in 0..l : m = (IF n < l THEN n ELSE l) /\ m <= n /\ (m = n \/ m = l)
  <2>1. CASE n < l
    <3>1. n \in 0..l
      BY <2>1
    <3> QED BY <2>1, <3>1
  <2>2. CASE ~(n < l)
    <3>1. l \in 0..l /\ l <= n
      BY <2>2
    <3> QED BY <2>2, <3>1
  <2> QED BY <2>1, <2>2
<1>3. First(n, s) = SubSeq(s, 1, m)
  BY <1>1, <1>2, Zenon DEF First
<1>4. /\ SubSeq(s, 1, m) \in Seq(X) /\ Len(SubSeq(s, 1, m)) = m
      /\ \A i \in 1..m : SubSeq(s, 1, m)[i] = s[i]
  BY <1>1
<1> QED BY <1>1, <1>2, <1>3, <1>4

(* A sequence without repetitions holds as many values as it is long.      *)
LEMMA RangeIsAsLarge ==
  ASSUME NEW X, NEW s \in Seq(X), \A i, j \in DOMAIN s : s[i] = s[j] => i = j
  PROVE  Cardinality({s[i] : i \in DOMAIN s}) = Len(s)
<1> DEFINE R == {s[i] : i \in DOMAIN s}
<1>1. Len(s) \in Nat /\ DOMAIN s = 1..Len(s) /\ s \in [1..Len(s) -> R] /\ \A r \in R : \E i \in 1..Len(s) : s[i] = r
  OBVIOUS
<1>2. IsFiniteSet(1..Len(s)) /\ Cardinality(1..Len(s)) = Len(s)
  <2>1. PICK l \in Nat : l = Len(s)
    BY <1>1
  <2>2. IsFiniteSet(1..l) /\ Cardinality(1..l) = l
    BY FS_Interval
  <2> QED BY <2>1, <2>2
<1> HIDE DEF R
<1>3. s \in Bijection(1..Len(s), R)
  BY <1>1 DEF Bijection, Injection, Surjection, IsInjective
<1> QED BY <1>2, <1>3, FS_Bijection DEF R, ExistsBijection

(* The listing as a sequence. *)
LEMMA ListingIsSequence ==
  ASSUME NEW ranks, FiniteRanks(ranks)
  PROVE  /\ BestFirst(ranks) \in Seq(ranks) /\ Len(BestFirst(ranks)) = Cardinality(ranks)
         /\ DOMAIN BestFirst(ranks) = 1..Cardinality(ranks)
         /\ \A i, j \in DOMAIN BestFirst(ranks) : BestFirst(ranks)[i] = BestFirst(ranks)[j] => i = j
         /\ {BestFirst(ranks)[i] : i \in DOMAIN BestFirst(ranks)} = ranks
<1>1. /\ Cardinality(ranks) \in Nat
      /\ BestFirst(ranks) \in [1..Cardinality(ranks) -> ranks]
      /\ \A i \in ranks : \E m \in 1..Cardinality(ranks) : BestFirst(ranks)[m] = i
      /\ \A m, n \in 1..Cardinality(ranks) : BestFirst(ranks)[m] = BestFirst(ranks)[n] => m = n
  BY AllAreListed
<1>2. DOMAIN BestFirst(ranks) = 1..Cardinality(ranks) /\ BestFirst(ranks) \in Seq(ranks)
  BY <1>1
<1>3. Len(BestFirst(ranks)) = Cardinality(ranks)
  BY <1>1, <1>2
<1>4. {BestFirst(ranks)[i] : i \in 1..Cardinality(ranks)} = ranks
  BY <1>1
<1> QED BY <1>1, <1>2, <1>3, <1>4

-----------------------------------------------------------------------------
(* What the back-ends find of the entries that match.                      *)

RankedOK == ranked \in Seq(EntryKinds)
Talks(i) == ranked[i].category = "Conversation"

LEMMA ScopeSays ==
  ASSUME NEW e, NEW scope \in Scopes, InScope(e, scope)
  PROVE  /\ scope # "Clean" /\ (scope = "FactsOnly" => e.category # "Conversation")
         /\ e.category = "Conversation" /\ scope = "t1" => e.topic = "t1"
BY DEF Scopes, InScope

LEMMA MatchesAreRanks ==
  ASSUME RankedOK
  PROVE  /\ Len(ranked) \in Nat /\ DOMAIN ranked = 1..Len(ranked)
         /\ \A S : S \subseteq DOMAIN ranked =>
              FiniteRanks(S) /\ 0 \notin S /\ Cardinality(S) \in Nat /\ Cardinality(S) <= Len(ranked)
<1>1. PICK l \in Nat : l = Len(ranked) /\ DOMAIN ranked = 1..l
  BY DEF RankedOK
<1>2. IsFiniteSet(1..l) /\ Cardinality(1..l) = l
  BY FS_Interval
<1>3. ASSUME NEW S, S \subseteq 1..l
      PROVE  FiniteRanks(S) /\ 0 \notin S /\ Cardinality(S) \in Nat /\ Cardinality(S) <= l
  <2>1. IsFiniteSet(S) /\ Cardinality(S) <= l
    BY <1>2, <1>3, FS_Subset
  <2>2. Cardinality(S) \in Nat
    BY <2>1, FS_CardinalityType
  <2>3. S \subseteq Nat /\ 0 \notin S
    BY <1>3
  <2> QED BY <2>1, <2>2, <2>3 DEF FiniteRanks
<1> QED BY <1>1, <1>3

LEMMA FetchIsLarge ==
  ASSUME NEW limit \in Limits
  PROVE  /\ limit \in Nat /\ Largest(FetchFactor * limit, FetchLeast) \in Nat
         /\ limit <= Largest(FetchFactor * limit, FetchLeast)
<1>1. limit \in Nat /\ FetchFactor \in Nat /\ FetchFactor >= 1 /\ FetchLeast \in Nat
  BY RecallAssumption
<1>2. PICK product \in Nat : product = FetchFactor * limit /\ product >= limit
  BY <1>1
<1>3. Largest(product, FetchLeast) \in Nat /\ limit <= Largest(product, FetchLeast)
  BY <1>1, <1>2 DEF Largest
<1> QED BY <1>1, <1>2, <1>3

(* What the database hands over, and what is left of it. *)
LEMMA SqliteFinds ==
  ASSUME RankedOK, NEW limit \in Limits, NEW session, NEW scope \in Scopes
  PROVE  LET found == RecallSqlite(limit, session, scope)
             due == {i \in DOMAIN ranked : OfSession(ranked[i], session) /\ InScope(ranked[i], scope)}
         IN /\ found \subseteq due /\ Cardinality(found) \in 0..limit
            /\ \/ due \subseteq found \/ Cardinality(found) = limit
               \/ Len(ranked) > Largest(FetchFactor * limit, FetchLeast)
            /\ \A i \in due : i <= limit => i \in found
<1> DEFINE size == Largest(FetchFactor * limit, FetchLeast)
           own == {i \in DOMAIN ranked : OfSession(ranked[i], session)}
           fetched == Fetched(limit, session)
           left == {i \in fetched : InScope(ranked[i], scope)}
           found == RecallSqlite(limit, session, scope)
           due == {i \in DOMAIN ranked : OfSession(ranked[i], session) /\ InScope(ranked[i], scope)}
<1>1. limit \in Nat /\ size \in Nat /\ limit <= size
  BY FetchIsLarge
<1>2. fetched = Best(size, own)
  BY DEF Fetched
<1> HIDE DEF size
<1>3. Len(ranked) \in Nat /\ FiniteRanks(own) /\ 0 \notin own /\ Cardinality(own) \in Nat /\ Cardinality(own) <= Len(ranked)
  BY MatchesAreRanks
<1>4. /\ fetched \subseteq own
      /\ Cardinality(own) <= size => fetched = own
      /\ \A i \in own : i <= size => i \in fetched
  <2> HIDE DEF fetched, own
  <2>1. Best(size, own) \subseteq own /\ (Cardinality(own) <= size => Best(size, own) = own)
    BY <1>1, <1>3, BestAreSoMany
  <2>2. \A i \in own : i <= size => i \in Best(size, own)
    BY <1>1, <1>3, TopIsAmongTheBest
  <2> QED BY <1>2, <2>1, <2>2
<1> HIDE DEF fetched
<1>5. left \subseteq due /\ left \subseteq DOMAIN ranked
  BY <1>4
<1>6. FiniteRanks(left) /\ 0 \notin left
  BY <1>5, MatchesAreRanks
<1>7. CASE scope = "Clean"
  <2>1. found = {} /\ due = {}
    BY <1>7 DEF RecallSqlite, InScope
  <2>2. Cardinality(found) = 0
    BY <2>1, FS_EmptySet
  <2> QED BY <1>1, <2>1, <2>2
<1>8. CASE scope # "Clean"
  <2>1. found = Best(limit, left)
    BY <1>8 DEF RecallSqlite, fetched
  <2>2. /\ found \subseteq left /\ Cardinality(found) \in 0..limit
        /\ found = left \/ Cardinality(found) = limit
    <3> HIDE DEF found, left
    <3>1. /\ Best(limit, left) \subseteq left /\ Cardinality(Best(limit, left)) \in 0..limit
          /\ Best(limit, left) = left \/ Cardinality(Best(limit, left)) = limit
      BY <1>1, <1>6, BestAreSoMany
    <3> QED BY <2>1, <3>1
  <2>3. ASSUME NEW i \in due, i <= limit PROVE i \in found
    <3>1. i \in own /\ i \in 1..Len(ranked)
      BY MatchesAreRanks
    <3>2. i <= size
      BY <1>1, <1>3, <2>3, <3>1
    <3>3. i \in left
      BY <1>4, <3>1, <3>2
    <3> QED BY <1>1, <1>6, <2>1, <2>3, <3>3, TopIsAmongTheBest
  <2>4. Len(ranked) > size \/ Cardinality(own) <= size
    BY <1>1, <1>3
  <2>5. Cardinality(own) <= size => left = due
    BY <1>4
  <2> HIDE DEF left, due, found, own
  <2>6. \/ due \subseteq found \/ Cardinality(found) = limit \/ Len(ranked) > size
    BY <2>2, <2>4, <2>5
  <2> QED BY <1>5, <2>2, <2>3, <2>6 DEF left, due, found, own, size
<1> QED BY <1>7, <1>8

LEMMA MarkdownFinds ==
  ASSUME RankedOK, NEW limit \in Limits, NEW session, NEW scope \in Scopes
  PROVE  LET found == RecallMarkdown(limit, session, scope)
             due == {i \in DOMAIN ranked : /\ Talks(i) => OfSession(ranked[i], session)
                                           /\ InScope(ranked[i], scope)}
         IN /\ found \subseteq due /\ Cardinality(found) \in 0..limit
            /\ due \subseteq found \/ Cardinality(found) = limit
<1> DEFINE found == RecallMarkdown(limit, session, scope)
           due == {i \in DOMAIN ranked : /\ Talks(i) => OfSession(ranked[i], session)
                                         /\ InScope(ranked[i], scope)}
<1>1. limit \in Nat /\ FiniteRanks(due)
  BY FetchIsLarge, MatchesAreRanks
<1>2. CASE scope = "Clean"
  <2>1. found = {} /\ due = {}
    BY <1>2 DEF RecallMarkdown, InScope
  <2>2. Cardinality(found) = 0
    BY <2>1, FS_EmptySet
  <2> QED BY <1>1, <2>1, <2>2
<1>3. CASE scope # "Clean"
  <2>1. found = Best(limit, due)
    BY <1>3 DEF RecallMarkdown, Talks
  <2> HIDE DEF found, due
  <2>2. /\ Best(limit, due) \subseteq due /\ Cardinality(Best(limit, due)) \in 0..limit
        /\ Best(limit, due) = due \/ Cardinality(Best(limit, due)) = limit
    BY <1>1, BestAreSoMany
  <2>3. found \subseteq due /\ Cardinality(found) \in 0..limit /\ (due \subseteq found \/ Cardinality(found) = limit)
    BY <2>1, <2>2
  <2> QED BY <2>3 DEF found, due
<1> QED BY <1>2, <1>3

-----------------------------------------------------------------------------
(* An answer of a back-end.                                                *)

RecallInv ==
  RankedOK /\ RecallObeys /\ RecallMissesOnlyFloods /\ GlobalsComeFirst /\ FusionAgrees /\ OriginalIsAsked

LEMMA AnswerListed ==
  ASSUME RankedOK, NEW found, found \subseteq DOMAIN ranked, answer'.result = BestFirst(found)
  PROVE  /\ Result' = found /\ Len(answer'.result) = Cardinality(found)
         /\ Cardinality(Result') = Len(answer'.result)
<1>1. FiniteRanks(found)
  BY MatchesAreRanks
<1>2. {BestFirst(found)[i] : i \in DOMAIN BestFirst(found)} = found /\ Len(BestFirst(found)) = Cardinality(found)
  BY <1>1, ListingIsSequence
<1> QED BY <1>2 DEF Result

(* What is asked and what stands when a back-end answers. *)
AskedOf(limit, session, scope, by) ==
  /\ ranked' = ranked /\ answer'.by = by
  /\ question'.limit = limit /\ question'.session = session /\ question'.scope = scope

LEMMA SqliteAnswers ==
  ASSUME RankedOK, NEW limit \in Limits, NEW session \in Sessions, NEW scope \in Scopes,
         AskedOf(limit, session, scope, "sqlite"),
         answer'.result = BestFirst(RecallSqlite(limit, session, scope))
  PROVE  RecallInv'
<1> DEFINE found == RecallSqlite(limit, session, scope)
           due == {i \in DOMAIN ranked : OfSession(ranked[i], session) /\ InScope(ranked[i], scope)}
<1>1. /\ found \subseteq due /\ Cardinality(found) \in 0..limit
      /\ due \subseteq found \/ Cardinality(found) = limit \/ Len(ranked) > Largest(FetchFactor * limit, FetchLeast)
  BY SqliteFinds
<1>2. limit \in Nat /\ found \subseteq DOMAIN ranked
  BY <1>1, FetchIsLarge
<1> HIDE DEF found
<1>3. Result' = found /\ Len(answer'.result) = Cardinality(found) /\ Cardinality(Result') = Len(answer'.result)
  BY <1>2, AnswerListed DEF found
<1>4. RankedOK' /\ Wanted("sqlite")' = due
  BY DEF AskedOf, RankedOK, Wanted
<1>5. /\ RecallObeys'
  <2>1. Len(answer'.result) <= question'.limit
    BY <1>1, <1>2, <1>3 DEF AskedOf
  <2>2. ASSUME NEW i \in found
        PROVE  LET e == ranked[i] IN
           /\ scope # "Clean" /\ (scope = "FactsOnly" => e.category # "Conversation")
           /\ e.category = "Conversation" => /\ OfSession(e, session)
                                             /\ scope = "t1" => e.topic = "t1"
    <3>1. OfSession(ranked[i], session) /\ InScope(ranked[i], scope)
      BY <1>1
    <3> QED BY <3>1, ScopeSays, Zenon
  <2> QED BY <1>3, <2>1, <2>2, Zenon DEF RecallObeys, AskedOf
<1>6. RecallMissesOnlyFloods'
  <2>1. answer'.by = "sqlite" /\ question'.limit = limit /\ ranked' = ranked
    BY DEF AskedOf
  <2> HIDE DEF due
  <2> QED BY <1>1, <1>3, <1>4, <2>1, Zenon DEF RecallMissesOnlyFloods
<1>7. answer'.by \notin {"global", "fusion", "decomposition"}
  BY DEF AskedOf
<1> QED BY <1>4, <1>5, <1>6, <1>7, Zenon DEF RecallInv, GlobalsComeFirst, FusionAgrees, OriginalIsAsked

LEMMA MarkdownAnswers ==
  ASSUME RankedOK, NEW limit \in Limits, NEW session \in Sessions, NEW scope \in Scopes,
         AskedOf(limit, session, scope, "markdown"),
         answer'.result = BestFirst(RecallMarkdown(limit, session, scope))
  PROVE  RecallInv'
<1> DEFINE found == RecallMarkdown(limit, session, scope)
           due == {i \in DOMAIN ranked : /\ Talks(i) => OfSession(ranked[i], session)
                                         /\ InScope(ranked[i], scope)}
<1>1. /\ found \subseteq due /\ Cardinality(found) \in 0..limit
      /\ due \subseteq found \/ Cardinality(found) = limit
  BY MarkdownFinds
<1>2. limit \in Nat /\ found \subseteq DOMAIN ranked
  BY <1>1, FetchIsLarge
<1> HIDE DEF found
<1>3. Result' = found /\ Len(answer'.result) = Cardinality(found) /\ Cardinality(Result') = Len(answer'.result)
  BY <1>2, AnswerListed DEF found
<1>4. RankedOK' /\ Wanted("markdown")' = due
  <2>1. "markdown" # "sqlite"
    OBVIOUS
  <2> QED BY <2>1 DEF AskedOf, RankedOK, Wanted, Talks
<1>5. RecallObeys'
  <2>1. Len(answer'.result) <= question'.limit
    BY <1>1, <1>2, <1>3 DEF AskedOf
  <2>2. ASSUME NEW i \in found
        PROVE  LET e == ranked[i] IN
           /\ scope # "Clean" /\ (scope = "FactsOnly" => e.category # "Conversation")
           /\ e.category = "Conversation" => /\ OfSession(e, session)
                                             /\ scope = "t1" => e.topic = "t1"
    <3>1. (Talks(i) => OfSession(ranked[i], session)) /\ InScope(ranked[i], scope)
      BY <1>1
    <3> QED BY <3>1, ScopeSays, Zenon DEF Talks
  <2> QED BY <1>3, <2>1, <2>2, Zenon DEF RecallObeys, AskedOf
<1>6. RecallMissesOnlyFloods'
  <2>1. answer'.by = "markdown" /\ question'.limit = limit /\ ranked' = ranked
    BY DEF AskedOf
  <2> HIDE DEF due
  <2> QED BY <1>1, <1>3, <1>4, <2>1, Zenon DEF RecallMissesOnlyFloods
<1>7. answer'.by \notin {"global", "fusion", "decomposition"}
  BY DEF AskedOf
<1> QED BY <1>4, <1>5, <1>6, <1>7, Zenon DEF RecallInv, GlobalsComeFirst, FusionAgrees, OriginalIsAsked

LEMMA GlobalAnswers ==
  ASSUME RankedOK, NEW limit \in Limits, NEW session \in Sessions, NEW scope \in Scopes,
         AskedOf(limit, session, scope, "global"),
         answer'.result = RecallGlobal(limit, session, scope)
  PROVE  RecallInv'
<1> DEFINE Globals == {i \in RecallSqlite(limit, "any", "Full") : ranked[i].category = "Global"}
           Private == {i \in RecallSqlite(limit, session, scope) : ranked[i].category # "Global"}
           a == Cardinality(Globals)  b == Cardinality(Private)
           g == BestFirst(Globals)  p == BestFirst(Private)
           whole == g \o p  r == First(limit, whole)
<1>1. limit \in Nat
  BY FetchIsLarge
<1>2. /\ Globals \subseteq DOMAIN ranked /\ RecallSqlite(limit, "any", "Full") \subseteq DOMAIN ranked
      /\ Cardinality(RecallSqlite(limit, "any", "Full")) \in 0..limit
      /\ \A i \in DOMAIN ranked : i <= limit => i \in RecallSqlite(limit, "any", "Full")
  <2> DEFINE found == RecallSqlite(limit, "any", "Full")
             due == {i \in DOMAIN ranked : OfSession(ranked[i], "any") /\ InScope(ranked[i], "Full")}
  <2>1. "Full" \in Scopes
    BY DEF Scopes
  <2>2. found \subseteq due /\ Cardinality(found) \in 0..limit /\ \A i \in due : i <= limit => i \in found
    BY <2>1, SqliteFinds
  <2>3. due = DOMAIN ranked
    <3>1. \A i \in DOMAIN ranked : OfSession(ranked[i], "any") /\ InScope(ranked[i], "Full")
      BY DEF OfSession, InScope
    <3> QED BY <3>1
  <2> HIDE DEF found, due
  <2>4. found \subseteq DOMAIN ranked /\ Cardinality(found) \in 0..limit
        /\ \A i \in DOMAIN ranked : i <= limit => i \in found
    BY <2>2, <2>3
  <2> QED BY <2>4 DEF found
<1>3. /\ Private \subseteq DOMAIN ranked
      /\ \A i \in Private : /\ ranked[i].category # "Global" /\ OfSession(ranked[i], session)
                            /\ InScope(ranked[i], scope)
  <2> DEFINE found == RecallSqlite(limit, session, scope)
             due == {i \in DOMAIN ranked : OfSession(ranked[i], session) /\ InScope(ranked[i], scope)}
  <2>1. found \subseteq due
    BY SqliteFinds
  <2> HIDE DEF found
  <2>2. \A i \in found : i \in DOMAIN ranked /\ OfSession(ranked[i], session) /\ InScope(ranked[i], scope)
    BY <2>1
  <2> QED BY <2>2 DEF found
<1>4. a \in Nat /\ a <= limit /\ FiniteRanks(Globals)
  <2>1. FiniteRanks(RecallSqlite(limit, "any", "Full")) /\ FiniteRanks(Globals) /\ a \in Nat
    BY <1>2, MatchesAreRanks
  <2>2. a <= Cardinality(RecallSqlite(limit, "any", "Full"))
    BY <2>1, FS_Subset DEF FiniteRanks
  <2> HIDE DEF a, Globals
  <2> QED BY <1>1, <1>2, <2>1, <2>2
<1>5. b \in Nat /\ FiniteRanks(Private)
  BY <1>3, MatchesAreRanks
<1>6. Globals \subseteq Nat /\ Private \subseteq Nat /\ Globals \cap Private = {}
  BY <1>4, <1>5 DEF FiniteRanks
<1>7. \A i \in Globals : ranked[i].category = "Global"
  OBVIOUS
<1> HIDE DEF Globals, Private
<1>8. /\ g \in Seq(Nat) /\ Len(g) = a /\ \A i \in 1..a : g[i] \in Globals
      /\ \A i, j \in 1..a : g[i] = g[j] => i = j
      /\ \A x \in Globals : \E i \in 1..a : g[i] = x
  <2>1. /\ BestFirst(Globals) \in Seq(Globals) /\ Len(BestFirst(Globals)) = Cardinality(Globals)
        /\ DOMAIN BestFirst(Globals) = 1..Cardinality(Globals)
        /\ \A i, j \in DOMAIN BestFirst(Globals) : BestFirst(Globals)[i] = BestFirst(Globals)[j] => i = j
        /\ {BestFirst(Globals)[i] : i \in DOMAIN BestFirst(Globals)} = Globals
    BY <1>4, ListingIsSequence
  <2>2. g \in Seq(Globals) /\ Len(g) = a /\ DOMAIN g = 1..a
    BY <2>1
  <2>3. \A i \in 1..a : g[i] \in Globals
    BY <2>2
  <2> HIDE DEF g
  <2>4. g \in Seq(Nat)
    <3>1. \A i \in 1..a : g[i] \in Nat
      BY <1>6, <2>3
    <3>2. g = [i \in 1..a |-> g[i]] /\ a \in Nat
      BY <1>4, <2>2
    <3> HIDE DEF a
    <3> QED BY <3>1, <3>2
  <2> QED BY <2>1, <2>2, <2>3, <2>4 DEF g
<1>9. /\ p \in Seq(Nat) /\ Len(p) = b /\ \A i \in 1..b : p[i] \in Private
      /\ \A i, j \in 1..b : p[i] = p[j] => i = j
  <2>1. /\ BestFirst(Private) \in Seq(Private) /\ Len(BestFirst(Private)) = Cardinality(Private)
        /\ DOMAIN BestFirst(Private) = 1..Cardinality(Private)
        /\ \A i, j \in DOMAIN BestFirst(Private) : BestFirst(Private)[i] = BestFirst(Private)[j] => i = j
    BY <1>5, ListingIsSequence
  <2>2. p \in Seq(Private) /\ Len(p) = b /\ DOMAIN p = 1..b
    BY <2>1
  <2>3. \A i \in 1..b : p[i] \in Private
    BY <2>2
  <2> HIDE DEF p
  <2>4. p \in Seq(Nat)
    <3>1. \A i \in 1..b : p[i] \in Nat
      BY <1>6, <2>3
    <3>2. p = [i \in 1..b |-> p[i]] /\ b \in Nat
      BY <1>5, <2>2
    <3> HIDE DEF b
    <3> QED BY <3>1, <3>2
  <2> QED BY <2>1, <2>2, <2>3, <2>4 DEF p
<1> HIDE DEF g, p, a, b
<1>10. /\ whole \in Seq(Nat) /\ Len(whole) = a + b
       /\ \A i \in 1..a : whole[i] = g[i]
       /\ \A i \in 1..(a + b) : i > a => i - a \in 1..b /\ whole[i] = p[i - a]
  <2>0. g \in Seq(Nat) /\ p \in Seq(Nat)
    BY <1>8, <1>9
  <2>1. whole \in Seq(Nat) /\ Len(whole) = Len(g) + Len(p)
    BY <2>0
  <2>2. \A i \in 1..(Len(g) + Len(p)) : whole[i] = IF i <= Len(g) THEN g[i] ELSE p[i - Len(g)]
    BY <2>0
  <2> HIDE DEF whole
  <2>3. \A i \in 1..a : i \in 1..(a + b) /\ i <= a
    BY <1>4, <1>5
  <2>4. \A i \in 1..(a + b) : i > a => i - a \in 1..b /\ ~(i <= a)
    BY <1>4, <1>5
  <2>5. \A i \in 1..(a + b) : whole[i] = IF i <= a THEN g[i] ELSE p[i - a]
    BY <1>8, <1>9, <2>2
  <2> QED BY <1>8, <1>9, <2>1, <2>3, <2>4, <2>5
<1> HIDE DEF whole
<1>11. /\ r \in Seq(Nat) /\ Len(r) \in Nat /\ Len(r) <= limit /\ Len(r) <= a + b
       /\ Len(r) = limit \/ Len(r) = a + b
       /\ \A i \in 1..Len(r) : r[i] = whole[i]
  BY <1>1, <1>10, FirstOfSequence
<1> HIDE DEF r
<1>12. \A i \in 1..Len(r) : \/ i <= a /\ i \in 1..a /\ r[i] = g[i] /\ r[i] \in Globals
                            \/ i > a /\ i - a \in 1..b /\ r[i] = p[i - a] /\ r[i] \in Private
  <2> TAKE i \in 1..Len(r)
  <2>1. i \in 1..(a + b) /\ r[i] = whole[i]
    BY <1>4, <1>5, <1>11
  <2>2. CASE i <= a
    <3>1. i \in 1..a
      BY <1>4, <2>1, <2>2
    <3> QED BY <1>8, <1>10, <2>1, <2>2, <3>1
  <2>3. CASE i > a
    BY <1>9, <1>10, <2>1, <2>3
  <2> QED BY <1>4, <2>1, <2>2, <2>3
<1>13. ASSUME NEW i \in 1..Len(r), NEW j \in 1..Len(r), r[i] = r[j] PROVE i = j
  <2>1. CASE i <= a /\ j <= a
    <3>1. i \in 1..a /\ j \in 1..a /\ g[i] = g[j]
      BY <1>4, <1>12, <1>13, <2>1
    <3> QED BY <1>8, <3>1
  <2>2. CASE i > a /\ j > a
    <3>1. i - a \in 1..b /\ j - a \in 1..b /\ p[i - a] = p[j - a]
      BY <1>4, <1>12, <1>13, <2>2
    <3>2. i - a = j - a
      BY <1>9, <3>1
    <3> QED BY <1>4, <1>11, <3>2
  <2>3. CASE ~(i <= a /\ j <= a) /\ ~(i > a /\ j > a)
    <3>1. (r[i] \in Globals /\ r[j] \in Private) \/ (r[j] \in Globals /\ r[i] \in Private)
      BY <1>4, <1>11, <1>12, <2>3
    <3> QED BY <1>6, <1>13, <3>1
  <2> QED BY <2>1, <2>2, <2>3
<1>14. DOMAIN r = 1..Len(r)
  BY <1>11
<1>15. RecallGlobal(limit, session, scope) = IF scope = "Clean" THEN <<>> ELSE r
  BY DEF RecallGlobal, r, whole, g, p, Globals, Private, GlobalsFirst
<1>16. answer'.by = "global" /\ ranked' = ranked /\ question'.limit = limit /\ question'.session = session /\ question'.scope = scope
  BY DEF AskedOf
<1>17. RankedOK'
  BY <1>16 DEF RankedOK
<1>18. RecallObeys' /\ GlobalsComeFirst'
  <2>1. CASE scope = "Clean"
    <3>1. answer'.result = <<>>
      BY <1>15, <2>1
    <3>2. Result' = {} /\ Len(answer'.result) = 0 /\ DOMAIN answer'.result = {}
      BY <3>1 DEF Result
    <3>3. Cardinality(Result') = 0
      BY <3>2, FS_EmptySet
    <3>4. RecallObeys'
      BY <1>1, <1>16, <3>2, <3>3 DEF RecallObeys
    <3>5. GlobalsComeFirst'
      BY <1>16, <2>1, <3>2 DEF GlobalsComeFirst
    <3> QED BY <3>4, <3>5
  <2>2. CASE scope # "Clean"
    <3>1. answer'.result = r
      BY <1>15, <2>2
    <3>2. Result' = {r[i] : i \in 1..Len(r)}
      BY <1>14, <3>1 DEF Result
    <3>3. Cardinality(Result') = Len(r)
      <4>1. Cardinality({r[i] : i \in DOMAIN r}) = Len(r)
        BY <1>11, <1>13, <1>14, RangeIsAsLarge
      <4> QED BY <1>14, <3>2, <4>1
    <3>4. ASSUME NEW x \in Result'
          PROVE  LET e == ranked[x] IN
             /\ scope # "Clean" /\ (scope = "FactsOnly" => e.category # "Conversation")
             /\ e.category = "Conversation" => /\ OfSession(e, session)
                                               /\ scope = "t1" => e.topic = "t1"
      <4>1. x \in Globals \/ x \in Private
        BY <1>12, <3>2
      <4>2. CASE x \in Globals
        <5>1. ranked[x].category # "Conversation"
          BY <1>7, <4>2
        <5> QED BY <2>2, <5>1
      <4>3. CASE x \in Private
        BY <1>3, <4>3, ScopeSays, Zenon
      <4> QED BY <4>1, <4>2, <4>3
    <3>5. RecallObeys'
      <4>1. Len(answer'.result) <= question'.limit
        BY <1>11, <1>16, <3>1
      <4> QED BY <1>16, <3>1, <3>3, <3>4, <4>1, Zenon DEF RecallObeys
    <3>6. ASSUME NEW i \in 1..Len(r), NEW j \in 1..Len(r), ranked[r[i]].category # "Global", ranked[r[j]].category = "Global"
          PROVE  j < i
      <4>1. r[i] \notin Globals /\ r[j] \notin Private
        BY <1>3, <1>7, <3>6
      <4>2. i > a /\ j <= a
        BY <1>12, <4>1
      <4> QED BY <1>4, <1>11, <4>2
    <3>7. ASSUME NEW i \in 1..limit, i \in DOMAIN ranked, ranked[i].category = "Global" PROVE i \in Result'
      <4>1. i \in Globals
        BY <1>1, <1>2, <3>7 DEF Globals
      <4>2. PICK m \in 1..a : g[m] = i
        BY <1>8, <4>1
      <4>3. m \in 1..Len(r) /\ r[m] = g[m]
        BY <1>1, <1>4, <1>5, <1>10, <1>11
      <4> QED BY <3>2, <4>2, <4>3
    <3>8. GlobalsComeFirst'
      BY <1>14, <1>16, <3>1, <3>6, <3>7, Zenon DEF GlobalsComeFirst
    <3> QED BY <3>5, <3>8
  <2> QED BY <2>1, <2>2
<1>19. answer'.by \notin {"sqlite", "markdown", "fusion", "decomposition"}
  BY <1>16
<1> QED BY <1>17, <1>18, <1>19, Zenon DEF RecallInv, RecallMissesOnlyFloods, FusionAgrees, OriginalIsAsked

(* A question to a back-end. *)
LEMMA AskKeeps ==
  ASSUME RankedOK, NEW limit \in Limits, NEW session \in Sessions, NEW scope \in Scopes, Ask(limit, session, scope)
  PROVE  RecallInv'
<1>1. /\ question'.limit = limit /\ question'.session = session /\ question'.scope = scope /\ ranked' = ranked
  BY DEF Ask, Answer, NoQuestion
<1>2. \/ answer' = [by |-> "sqlite", result |-> BestFirst(RecallSqlite(limit, session, scope))]
      \/ answer' = [by |-> "markdown", result |-> BestFirst(RecallMarkdown(limit, session, scope))]
      \/ answer' = [by |-> "global", result |-> RecallGlobal(limit, session, scope)]
  BY Zenon DEF Ask, Answer
<1>3. CASE answer' = [by |-> "sqlite", result |-> BestFirst(RecallSqlite(limit, session, scope))]
  BY <1>1, <1>3, SqliteAnswers DEF AskedOf
<1>4. CASE answer' = [by |-> "markdown", result |-> BestFirst(RecallMarkdown(limit, session, scope))]
  BY <1>1, <1>4, MarkdownAnswers DEF AskedOf
<1>5. CASE answer' = [by |-> "global", result |-> RecallGlobal(limit, session, scope)]
  BY <1>1, <1>5, GlobalAnswers DEF AskedOf
<1> QED BY <1>2, <1>3, <1>4, <1>5

-----------------------------------------------------------------------------
(* Fusion: shares are fractions with denominators that are not zero.       *)

LEMMA PlaceInRanking ==
  ASSUME NEW list \in Rankings
  PROVE  /\ Len(list) \in Nat /\ DOMAIN list = 1..Len(list)
         /\ \A i \in DOMAIN list : list[i] \in Documents
         /\ \A i, j \in DOMAIN list : list[i] = list[j] => i = j
<1>1. \A i, j \in DOMAIN list : list[i] = list[j] => i = j
  BY DEF Rankings
<1>2. PICK n \in 0..Cardinality(Documents) : list \in [1..n -> Documents]
  BY DEF Rankings
<1>3. Cardinality(Documents) \in Nat
  BY RecallAssumption, FS_CardinalityType
<1>4. n \in Nat /\ DOMAIN list = 1..n
  BY <1>2, <1>3
<1> QED BY <1>1, <1>2, <1>4

LEMMA WeightOfPlace ==
  ASSUME NEW lists, NEW i \in {1, 2}, lists[i] \in Rankings, NEW key
  PROVE  /\ (\A r \in DOMAIN lists[i] : lists[i][r] # key) => Weight(key, lists, i) = [num |-> 0, den |-> 1]
         /\ \A r \in DOMAIN lists[i] : lists[i][r] = key =>
              Weight(key, lists, i) = [num |-> 1, den |-> RankOffset + r]
<1> DEFINE At == PlacesOf(key, lists[i])
<1>1. Weight(key, lists, i) = IF At = {} THEN NoShare ELSE Reciprocal(CHOOSE r \in At : TRUE)
  BY DEF Weight
<1>2. ASSUME \A r \in DOMAIN lists[i] : lists[i][r] # key
      PROVE  Weight(key, lists, i) = [num |-> 0, den |-> 1]
  <2>1. At = {}
    BY <1>2 DEF PlacesOf
  <2> QED BY <1>1, <2>1 DEF NoShare
<1>3. ASSUME NEW r \in DOMAIN lists[i], lists[i][r] = key
      PROVE  Weight(key, lists, i) = [num |-> 1, den |-> RankOffset + r]
  <2>1. At = {r}
    BY <1>3, PlaceInRanking DEF PlacesOf
  <2>2. (CHOOSE s \in {r} : TRUE) = r
    OBVIOUS
  <2> HIDE DEF At
  <2>3. Weight(key, lists, i) = Reciprocal(r)
    BY <1>1, <2>1, <2>2
  <2> QED BY <2>3 DEF Reciprocal
<1> QED BY <1>2, <1>3

LEMMA ProductsAreOrdered ==
  ASSUME NEW x \in Nat, NEW y \in Nat, NEW c \in Nat
  PROVE  /\ x <= y => x * c <= y * c
         /\ x < y /\ c > 0 => x * c < y * c
         /\ x * c \in Nat
<1>1. x <= y => x * c <= y * c
  BY Z3T(30)
<1>2. x < y /\ c > 0 => x * c < y * c
  BY Z3T(30)
<1> QED BY <1>1, <1>2

(* The sums of two shares each: what has the larger ones, or the only one, *)
(* comes first.                                                            *)
FractionOK(s) == s.num \in {0, 1} /\ s.den \in Nat \ {0}
Bigger(s, t) == s.num = 1 /\ (t.num = 0 \/ s.den < t.den)

LEMMA LargerSharesSumUp ==
  ASSUME NEW s, NEW t, NEW u, NEW v, FractionOK(s), FractionOK(t), FractionOK(u), FractionOK(v),
         Bigger(s, t) \/ t.num = 0, Bigger(u, v) \/ v.num = 0, t.num = 1 \/ v.num = 1
  PROVE  ~AtLeast(Plus(t, v), Plus(s, u))
<1> DEFINE a == s.num  p == s.den  b == u.num  q == u.den
           c == t.num  m == t.den  d == v.num  n == v.den
<1>1. /\ a \in {0, 1} /\ b \in {0, 1} /\ c \in {0, 1} /\ d \in {0, 1}
      /\ p \in Nat \ {0} /\ q \in Nat \ {0} /\ m \in Nat \ {0} /\ n \in Nat \ {0}
      /\ (a = 1 /\ (c = 0 \/ p < m)) \/ c = 0
      /\ (b = 1 /\ (d = 0 \/ q < n)) \/ d = 0
      /\ c = 1 \/ d = 1
  BY DEF FractionOK, Bigger
<1>2. AtLeast(Plus(t, v), Plus(s, u)) <=> (c * n + d * m) * (p * q) >= (a * q + b * p) * (m * n)
  BY DEF AtLeast, Plus
<1> HIDE DEF a, b, c, d, p, q, m, n
<1>3. /\ (c * n + d * m) * (p * q) = (c * p) * (n * q) + (d * q) * (m * p)
      /\ (a * q + b * p) * (m * n) = (a * m) * (n * q) + (b * n) * (m * p)
  BY <1>1
<1>4. n * q \in Nat /\ n * q > 0 /\ m * p \in Nat /\ m * p > 0
  BY <1>1
<1>5. PICK x \in Nat, y \in Nat : x = n * q /\ x > 0 /\ y = m * p /\ y > 0
  BY <1>4
<1>6. /\ c * p \in Nat /\ a * m \in Nat /\ c * p <= a * m /\ (c = 1 => c * p < a * m)
      /\ d * q \in Nat /\ b * n \in Nat /\ d * q <= b * n /\ (d = 1 => d * q < b * n)
  BY <1>1
<1>7. /\ (c * p) * x \in Nat /\ (a * m) * x \in Nat /\ (c * p) * x <= (a * m) * x
      /\ c = 1 => (c * p) * x < (a * m) * x
  BY <1>5, <1>6, ProductsAreOrdered
<1>8. /\ (d * q) * y \in Nat /\ (b * n) * y \in Nat /\ (d * q) * y <= (b * n) * y
      /\ d = 1 => (d * q) * y < (b * n) * y
  BY <1>5, <1>6, ProductsAreOrdered
<1>9. (c * p) * x + (d * q) * y < (a * m) * x + (b * n) * y
  <2> DEFINE e == (c * p) * x  f == (d * q) * y  g == (a * m) * x  h == (b * n) * y
  <2>1. e \in Nat /\ f \in Nat /\ g \in Nat /\ h \in Nat /\ e <= g /\ f <= h /\ (e < g \/ f < h)
    BY <1>1, <1>7, <1>8
  <2> HIDE DEF e, f, g, h
  <2>2. e + f < g + h
    BY <2>1
  <2> QED BY <2>2 DEF e, f, g, h
<1> QED
  <2> DEFINE left == (c * n + d * m) * (p * q)  right == (a * q + b * p) * (m * n)
             e == (c * p) * x + (d * q) * y  g == (a * m) * x + (b * n) * y
  <2>1. left = e /\ right = g
    BY <1>3, <1>5
  <2>2. e \in Nat /\ g \in Nat /\ e < g
    BY <1>7, <1>8, <1>9
  <2> HIDE DEF left, right, e, g
  <2>3. ~(left >= right)
    BY <2>1, <2>2
  <2> QED BY <1>2, <2>3 DEF left, right

(* What is ahead in a ranking, or alone in it, has the larger share of it. *)
LEMMA SharesFollowPlaces ==
  ASSUME NEW lists, NEW n \in {1, 2}, lists[n] \in Rankings, NEW a, NEW b,
         Ahead(lists[n], a, b) \/ ~Knows(lists[n], b)
  PROVE  /\ FractionOK(Weight(a, lists, n)) /\ FractionOK(Weight(b, lists, n))
         /\ Bigger(Weight(a, lists, n), Weight(b, lists, n)) \/ Weight(b, lists, n).num = 0
         /\ Knows(lists[n], b) => Weight(b, lists, n).num = 1
<1> DEFINE list == lists[n]
<1>1. Len(list) \in Nat /\ DOMAIN list = 1..Len(list) /\ RankOffset \in Nat
  BY PlaceInRanking, RecallAssumption
<1>2. ASSUME NEW key, ~Knows(list, key) PROVE Weight(key, lists, n) = [num |-> 0, den |-> 1]
  BY <1>2, WeightOfPlace DEF Knows
<1>3. ASSUME NEW key, NEW r \in DOMAIN list, list[r] = key
      PROVE  Weight(key, lists, n) = [num |-> 1, den |-> RankOffset + r]
  BY <1>3, WeightOfPlace
<1> HIDE DEF list
<1>4. ASSUME NEW key
      PROVE  FractionOK(Weight(key, lists, n)) /\ (Knows(list, key) => Weight(key, lists, n).num = 1)
  <2>1. CASE ~Knows(list, key)
    BY <1>2, <2>1 DEF FractionOK
  <2>2. CASE Knows(list, key)
    <3>1. PICK r \in DOMAIN list : list[r] = key
      BY <2>2 DEF Knows
    <3>2. Weight(key, lists, n) = [num |-> 1, den |-> RankOffset + r]
      BY <1>3, <3>1
    <3>3. RankOffset + r \in Nat \ {0}
      BY <1>1, <3>1
    <3> QED BY <3>2, <3>3 DEF FractionOK
  <2> QED BY <2>1, <2>2
<1>5. Bigger(Weight(a, lists, n), Weight(b, lists, n)) \/ Weight(b, lists, n).num = 0
  <2>1. CASE ~Knows(list, b)
    BY <1>2, <2>1
  <2>2. CASE Ahead(list, a, b) /\ Knows(list, b)
    <3>1. PICK i \in DOMAIN list : list[i] = a /\ \A j \in 1..i : list[j] # b
      BY <2>2 DEF Ahead
    <3>2. PICK k \in DOMAIN list : list[k] = b
      BY <2>2 DEF Knows
    <3>3. i < k /\ RankOffset + i < RankOffset + k
      BY <1>1, <3>1, <3>2
    <3>4. Weight(a, lists, n) = [num |-> 1, den |-> RankOffset + i] /\ Weight(b, lists, n) = [num |-> 1, den |-> RankOffset + k]
      BY <1>3, <3>1, <3>2
    <3> QED BY <3>3, <3>4 DEF Bigger
  <2> QED BY <2>1, <2>2 DEF list
<1> QED BY <1>4, <1>5 DEF list

LEMMA FuseKeeps ==
  ASSUME RankedOK, NEW v \in Rankings, NEW w \in Rankings, Fuse(<<v, w>>)
  PROVE  RecallInv'
<1> DEFINE lists == <<v, w>>
           Found == UNION {{lists[i][j] : j \in DOMAIN lists[i]} : i \in {1, 2}}
           size == Cardinality(Found)
<1>1. PICK f \in Fusions(lists) : answer' = [by |-> "fusion", result |-> f]
  BY DEF Fuse, Answer
<1>2. ranked' = ranked /\ question'.lists = lists
  BY DEF Fuse, Answer, NoQuestion
<1>3. lists[1] = v /\ lists[2] = w
  OBVIOUS
<1>4. size \in Nat
  <2>1. IsFiniteSet(Documents) /\ Found \in SUBSET Documents
    BY <1>3, RecallAssumption, PlaceInRanking
  <2> QED BY <2>1, FS_Subset, FS_CardinalityType
<1>5. /\ f \in [1..size -> Found]
      /\ \A i, j \in 1..size : i < j => AtLeast(Score(f[i], lists), Score(f[j], lists))
  BY DEF Fusions
<1>6. \A x \in Found : Knows(lists[1], x) \/ Knows(lists[2], x)
  BY <1>3 DEF Knows
<1> HIDE DEF Found, lists, size
<1>7. ASSUME NEW i \in DOMAIN f, NEW j \in DOMAIN f,
             \A n \in {1, 2} : Ahead(lists[n], f[i], f[j]) \/ ~Knows(lists[n], f[j])
      PROVE  i <= j
  <2>1. i \in 1..size /\ j \in 1..size /\ f[j] \in Found
    BY <1>5
  <2> SUFFICES ASSUME j < i PROVE FALSE
    BY <1>4, <2>1
  <2> DEFINE s == Weight(f[i], lists, 1)  t == Weight(f[j], lists, 1)
             u == Weight(f[i], lists, 2)  x == Weight(f[j], lists, 2)
  <2>2. FractionOK(s) /\ FractionOK(t) /\ (Bigger(s, t) \/ t.num = 0) /\ (Knows(lists[1], f[j]) => t.num = 1)
    BY <1>3, <1>7, SharesFollowPlaces
  <2>3. FractionOK(u) /\ FractionOK(x) /\ (Bigger(u, x) \/ x.num = 0) /\ (Knows(lists[2], f[j]) => x.num = 1)
    BY <1>3, <1>7, SharesFollowPlaces
  <2>4. AtLeast(Plus(t, x), Plus(s, u))
    BY <1>5, <2>1 DEF Score
  <2>5. t.num = 1 \/ x.num = 1
    BY <1>6, <2>1, <2>2, <2>3
  <2> HIDE DEF s, t, u, x
  <2> QED BY <2>2, <2>3, <2>4, <2>5, LargerSharesSumUp
<1>8. FusionAgrees'
  <2>1. answer'.result = f
    BY <1>1
  <2> QED BY <1>2, <1>7, <2>1, Zenon DEF FusionAgrees
<1>9. RankedOK'
  BY <1>2 DEF RankedOK
<1>10. answer'.by \notin {"sqlite", "markdown", "global", "decomposition"}
  BY <1>1
<1>11. RecallObeys'
  BY <1>10 DEF RecallObeys, Backends
<1> QED BY <1>8, <1>9, <1>10, <1>11, Zenon DEF RecallInv, RecallMissesOnlyFloods, GlobalsComeFirst, OriginalIsAsked

(* Of what is said for the first time within the limit nothing is cut off. *)
LEMMA EarlyPartsAreKept ==
  ASSUME NEW all \in Seq(Sayings), NEW i \in DOMAIN all, i <= MaxQueries
  PROVE  \E n \in DOMAIN BestFirst(Best(MaxQueries, Once(all))) :
           all[BestFirst(Best(MaxQueries, Once(all)))[n]] = all[i]
<1> DEFINE once == Once(all)  kept == BestFirst(Best(MaxQueries, once))
           places == {k \in DOMAIN all : all[k] = all[i]}
<1>1. PICK l \in Nat : l = Len(all) /\ DOMAIN all = 1..l
  OBVIOUS
<1>2. FiniteRanks(once) /\ 0 \notin once
  <2>1. once \in SUBSET (1..l)
    BY <1>1 DEF Once
  <2> HIDE DEF once
  <2>2. IsFiniteSet(1..l)
    BY FS_Interval
  <2>3. IsFiniteSet(once)
    BY <2>1, <2>2, FS_Subset
  <2> QED BY <2>1, <2>3 DEF FiniteRanks
<1>3. MaxQueries \in Nat
  BY RecallAssumption
<1>4. places \in SUBSET Nat /\ places # {}
  BY <1>1
<1>5. PICK k \in places : \A m \in places : k <= m
  BY <1>4, LeastPosition
<1>6. k \in 1..l /\ all[k] = all[i] /\ k <= i /\ i \in 1..l
  BY <1>1, <1>5
<1>7. k <= MaxQueries
  BY <1>3, <1>6
<1>8. \A j \in 1..(k - 1) : j \in 1..l /\ ~(k <= j)
  BY <1>1, <1>6
<1>9. \A j \in 1..(k - 1) : all[j] # all[k]
  BY <1>1, <1>5, <1>6, <1>8
<1>10. k \in once
  BY <1>1, <1>6, <1>9 DEF Once
<1> HIDE DEF once
<1>11. k \in Best(MaxQueries, once) /\ FiniteRanks(Best(MaxQueries, once))
  BY <1>2, <1>3, <1>7, <1>10, TopIsAmongTheBest, BestAreSoMany
<1>12. PICK n \in DOMAIN kept : kept[n] = k
  BY <1>11, ListingIsSequence
<1> QED BY <1>6, <1>12 DEF once

LEMMA DecomposeKeeps ==
  ASSUME RankedOK, NEW said \in Seq(Sayings), Decompose(said)
  PROVE  RecallInv'
<1> DEFINE Asks(q) == q = "the question"
<1>1. answer' = [by |-> "decomposition", result |-> Parts(said)] /\ ranked' = ranked /\ question'.lists[1] = said
  BY DEF Decompose, Answer, NoQuestion
<1>2. MaxQueries \in Nat /\ 1 <= MaxQueries /\ Len(said) \in Nat /\ DOMAIN said = 1..Len(said)
  BY RecallAssumption
<1>3. PICK all \in Seq(Sayings) :
        /\ Parts(said) = [n \in DOMAIN BestFirst(Best(MaxQueries, Once(all))) |->
                           all[BestFirst(Best(MaxQueries, Once(all)))[n]]]
        /\ \/ all = said /\ \E i \in DOMAIN said : Asks(said[i])
           \/ 1 \in DOMAIN all /\ Asks(all[1])
  <2>1. CASE \E i \in DOMAIN said : said[i] = "the question"
    <3>1. Parts(said) = [n \in DOMAIN BestFirst(Best(MaxQueries, Once(said))) |->
                          said[BestFirst(Best(MaxQueries, Once(said)))[n]]]
      BY <2>1, Zenon DEF Parts
    <3> QED BY <2>1, <3>1, Zenon
  <2>2. CASE ~(\E i \in DOMAIN said : said[i] = "the question")
    <3> DEFINE more == AddOriginal(said)
    <3>1. Parts(said) = [n \in DOMAIN BestFirst(Best(MaxQueries, Once(more))) |->
                          more[BestFirst(Best(MaxQueries, Once(more)))[n]]]
      BY <2>2, Zenon DEF Parts
    <3>2. more \in Seq(Sayings) /\ 1 \in DOMAIN more /\ more[1] = "the question"
      <4>1. PICK whole \in Sayings : whole = "the question"
        BY DEF Sayings
      <4>2. more = <<whole>> \o said
        BY <4>1 DEF AddOriginal
      <4>3. more \in Seq(Sayings) /\ 1 \in DOMAIN more /\ more[1] = whole
        <5> HIDE DEF more
        <5> QED BY <4>2
      <4> QED BY <4>1, <4>3
    <3> HIDE DEF more
    <3> QED BY <3>1, <3>2, Zenon
  <2> QED BY <2>1, <2>2
<1>4. \E i \in DOMAIN all : Asks(all[i]) /\ (i <= MaxQueries \/ \E k \in DOMAIN said : k > MaxQueries /\ Asks(said[k]))
  <2> HIDE DEF Asks
  <2>1. CASE all = said /\ \E i \in DOMAIN said : Asks(said[i])
    <3>1. PICK i \in DOMAIN said : Asks(said[i])
      BY <2>1
    <3>2. i \in Nat
      BY <1>2
    <3>3. i <= MaxQueries \/ i > MaxQueries
      BY <1>2, <3>2
    <3> QED BY <2>1, <3>1, <3>3
  <2>2. CASE 1 \in DOMAIN all /\ Asks(all[1])
    BY <1>2, <2>2
  <2> QED BY <1>3, <2>1, <2>2
<1>5. PICK i \in DOMAIN all :
        Asks(all[i]) /\ (i <= MaxQueries \/ \E k \in DOMAIN said : k > MaxQueries /\ Asks(said[k]))
  BY <1>4
<1>6. ASSUME i <= MaxQueries PROVE "the question" \in Result'
  <2>1. PICK n \in DOMAIN BestFirst(Best(MaxQueries, Once(all))) :
          all[BestFirst(Best(MaxQueries, Once(all)))[n]] = all[i]
    BY <1>6, EarlyPartsAreKept
  <2>2. n \in DOMAIN Parts(said) /\ Parts(said)[n] = "the question"
    BY <1>3, <1>5, <2>1
  <2>3. answer'.result = Parts(said)
    BY <1>1
  <2> QED BY <2>2, <2>3 DEF Result
<1>7. OriginalIsAsked'
  BY <1>1, <1>5, <1>6, Zenon DEF OriginalIsAsked
<1>8. RankedOK'
  BY <1>1 DEF RankedOK
<1>9. answer'.by \notin {"sqlite", "markdown", "global", "fusion"}
  BY <1>1
<1>10. RecallObeys'
  BY <1>9 DEF RecallObeys, Backends
<1> QED BY <1>7, <1>8, <1>9, <1>10, Zenon DEF RecallInv, RecallMissesOnlyFloods, GlobalsComeFirst, FusionAgrees

(* What a search returns obeys the question, whoever answers.              *)
THEOREM SearchesObey == RecallSpec => []RecallInv
<1>1. RecallInit => RecallInv
  <2> SUFFICES ASSUME RecallInit PROVE RecallInv
    OBVIOUS
  <2>1. RankedOK
    <3>1. PICK n \in 0..MaxMatches : ranked \in [1..n -> EntryKinds]
      BY DEF RecallInit
    <3>2. n \in Nat
      BY RecallAssumption
    <3> QED BY <3>1, <3>2 DEF RankedOK
  <2>2. answer.by \notin {"sqlite", "markdown", "global", "fusion", "decomposition"}
    BY DEF RecallInit
  <2>3. RecallObeys
    BY <2>2 DEF RecallObeys, Backends
  <2> QED BY <2>1, <2>2, <2>3, Zenon DEF RecallInv, RecallMissesOnlyFloods, GlobalsComeFirst, FusionAgrees, OriginalIsAsked
<1>2. RecallInv /\ [RecallNext]_recallVars => RecallInv'
  <2> SUFFICES ASSUME RecallInv, [RecallNext]_recallVars PROVE RecallInv'
    OBVIOUS
  <2>1. RankedOK
    BY DEF RecallInv
  <2>2. CASE RecallNext
    <3>1. ASSUME NEW limit \in Limits, NEW session \in Sessions, NEW scope \in Scopes, Ask(limit, session, scope)
          PROVE  RecallInv'
      BY <2>1, <3>1, AskKeeps
    <3>2. ASSUME NEW v \in Rankings, NEW f \in Rankings, Fuse(<<v, f>>) PROVE RecallInv'
      BY <2>1, <3>2, FuseKeeps
    <3>3. ASSUME NEW n \in 0..MaxQueries + 1, NEW said \in [1..n -> Sayings], Decompose(said)
          PROVE  RecallInv'
      <4>1. n \in Nat
        BY RecallAssumption
      <4>2. said \in Seq(Sayings)
        BY <4>1
      <4> QED BY <2>1, <3>3, <4>2, DecomposeKeeps
    <3> QED BY <2>2, <3>1, <3>2, <3>3 DEF RecallNext
  <2>3. CASE UNCHANGED recallVars
    <3>1. ranked' = ranked /\ question' = question /\ answer' = answer
      BY <2>3 DEF recallVars
    <3>2. Result' = Result /\ \A by : Wanted(by)' = Wanted(by)
      BY <3>1 DEF Result, Wanted
    <3>3. RankedOK' /\ RecallObeys'
      BY <3>1, <3>2 DEF RecallInv, RankedOK, RecallObeys
    <3>4. RecallMissesOnlyFloods' /\ GlobalsComeFirst'
      BY <3>1, <3>2 DEF RecallInv, RecallMissesOnlyFloods, GlobalsComeFirst
    <3>5. FusionAgrees' /\ OriginalIsAsked'
      BY <3>1, <3>2 DEF RecallInv, FusionAgrees, OriginalIsAsked
    <3> QED BY <3>3, <3>4, <3>5 DEF RecallInv
  <2> QED BY <2>2, <2>3
<1> QED BY <1>1, <1>2, PTL DEF RecallSpec

-----------------------------------------------------------------------------
(* Topics: what is visible is of the present topic, was there before the   *)
(* engine, or was spared.                                                  *)

ShownSet == [topic : Nat, hidden : BOOLEAN]
TopicSet == [id : Nat, label : Labels]

TopicsTypes ==
  /\ newest \in Nat /\ topic \in 1..newest /\ newest <= Len(shown) + 1 /\ newest <= MaxTurns + 1
  /\ recent \in Seq(Messages) /\ Len(recent) <= RollingWindow
  /\ known \in Seq(TopicSet) /\ shown \in Seq(ShownSet)

NumbersInv ==
  /\ \A i \in DOMAIN known : known[i].id \in 1..newest
  /\ \A i, j \in DOMAIN known : i # j => known[i].id # known[j].id
  /\ \A i \in DOMAIN shown : shown[i].topic \in 0..newest

TopicsInv == TopicsTypes /\ NumbersInv /\ VisibleIsCurrent

LEMMA TopicsSafe == TopicsInv => TopicsTypeOK /\ VisibleIsCurrent
<1> SUFFICES ASSUME TopicsInv PROVE TopicsTypeOK /\ VisibleIsCurrent
  OBVIOUS
<1>1. topic \in 1..newest /\ newest \in 1..MaxTurns + 1
  BY TopicsAssumption DEF TopicsInv, TopicsTypes
<1>2. Len(recent) <= RollingWindow /\ \A i \in DOMAIN recent : recent[i] \in Messages
  BY DEF TopicsInv, TopicsTypes
<1>3. /\ \A i, j \in DOMAIN known : i # j => known[i].id # known[j].id
      /\ \A i \in DOMAIN shown : shown[i].topic \in 0..newest
  BY DEF TopicsInv, NumbersInv
<1> QED BY <1>1, <1>2, <1>3, Zenon DEF TopicsInv, TopicsTypeOK

LEMMA TopicsStart == TopicsInit => TopicsInv
<1> SUFFICES ASSUME TopicsInit PROVE TopicsInv
  OBVIOUS
<1>1. topic = 1 /\ newest = 1 /\ recent = <<>> /\ known = <<>> /\ spared = {0} /\ MaxTurns \in Nat /\ RollingWindow \in Nat
  BY TopicsAssumption DEF TopicsInit
<1>2. /\ shown \in Seq(ShownSet) /\ Len(shown) \in Nat
      /\ \A i \in DOMAIN shown : shown[i].topic = 0
  <2>1. CASE shown = <<>>
    BY <2>1
  <2>2. CASE shown = <<[topic |-> 0, hidden |-> FALSE]>>
    <3>1. [topic |-> 0, hidden |-> FALSE] \in ShownSet
      BY DEF ShownSet
    <3> QED BY <2>2, <3>1
  <2> QED BY <2>1, <2>2 DEF TopicsInit
<1>3. TopicsTypes
  BY <1>1, <1>2 DEF TopicsTypes
<1>4. NumbersInv
  BY <1>1, <1>2 DEF NumbersInv
<1>5. VisibleIsCurrent
  BY <1>1, <1>2 DEF VisibleIsCurrent
<1> QED BY <1>3, <1>4, <1>5 DEF TopicsInv

(* The window of recent messages. *)
LEMMA WindowHolds ==
  ASSUME TopicsTypes, NEW m \in Messages
  PROVE  Pushed(m) \in Seq(Messages) /\ Len(Pushed(m)) <= RollingWindow
<1> DEFINE all == Append(recent, m)
<1>1. RollingWindow \in Nat \ {0} /\ recent \in Seq(Messages) /\ Len(recent) \in Nat /\ Len(recent) <= RollingWindow
  BY TopicsAssumption DEF TopicsTypes
<1>2. all \in Seq(Messages) /\ Len(all) = Len(recent) + 1 /\ all # <<>>
  BY <1>1
<1>3. Pushed(m) = IF Len(all) > RollingWindow THEN Tail(all) ELSE all
  BY DEF Pushed
<1> HIDE DEF all
<1>4. Tail(all) \in Seq(Messages) /\ Len(Tail(all)) = Len(all) - 1
  BY <1>2
<1> QED BY <1>1, <1>2, <1>3, <1>4

(* An entry of the present topic is added to what is shown. *)
LEMMA EntryAdded ==
  ASSUME NEW list \in Seq(ShownSet), NEW t \in Nat
  PROVE  /\ AddEntry(list, t) \in Seq(ShownSet) /\ Len(AddEntry(list, t)) = Len(list) + 1
         /\ \A i \in DOMAIN AddEntry(list, t) :
              \/ i \in DOMAIN list /\ AddEntry(list, t)[i] = list[i]
              \/ AddEntry(list, t)[i].topic = t
<1> DEFINE e == [topic |-> t, hidden |-> FALSE]
<1>1. e \in ShownSet /\ e.topic = t
  BY DEF ShownSet
<1>2. AddEntry(list, t) = Append(list, e)
  BY DEF AddEntry
<1> HIDE DEF e
<1>3. /\ Append(list, e) \in Seq(ShownSet) /\ Len(Append(list, e)) = Len(list) + 1
      /\ \A i \in DOMAIN Append(list, e) :
           \/ i \in DOMAIN list /\ Append(list, e)[i] = list[i]
           \/ Append(list, e)[i] = e
  BY <1>1
<1> QED BY <1>1, <1>2, <1>3

LEMMA StayKeeps ==
  ASSUME TopicsInv, Len(shown) < MaxTurns, shown' = AddEntry(shown, topic),
         UNCHANGED <<topic, known, newest, spared>>,
         recent' = recent \/ \E m \in Messages : recent' = Pushed(m)
  PROVE  TopicsInv'
<1>1. topic \in Nat /\ shown \in Seq(ShownSet) /\ topic \in 1..newest /\ newest \in Nat
  BY DEF TopicsInv, TopicsTypes
<1>2. /\ shown' \in Seq(ShownSet) /\ Len(shown') = Len(shown) + 1 /\ Len(shown) \in Nat
      /\ \A i \in DOMAIN shown' : \/ i \in DOMAIN shown /\ shown'[i] = shown[i]
                                 \/ shown'[i].topic = topic
  <2>1. /\ AddEntry(shown, topic) \in Seq(ShownSet) /\ Len(AddEntry(shown, topic)) = Len(shown) + 1
        /\ \A i \in DOMAIN AddEntry(shown, topic) :
             \/ i \in DOMAIN shown /\ AddEntry(shown, topic)[i] = shown[i]
             \/ AddEntry(shown, topic)[i].topic = topic
    BY <1>1, EntryAdded
  <2>2. Len(shown) \in Nat
    BY <1>1
  <2> QED BY <2>1, <2>2, Zenon
<1>3. recent' \in Seq(Messages) /\ Len(recent') <= RollingWindow
  BY WindowHolds DEF TopicsInv, TopicsTypes
<1>4. TopicsTypes'
  BY <1>1, <1>2, <1>3 DEF TopicsInv, TopicsTypes
<1>5. NumbersInv'
  BY <1>1, <1>2 DEF TopicsInv, NumbersInv
<1>6. VisibleIsCurrent'
  BY <1>2 DEF TopicsInv, VisibleIsCurrent
<1> QED BY <1>4, <1>5, <1>6 DEF TopicsInv

(* A topic taken up again has a number already, a new one has the next.    *)
LEMMA TopicsAreNumbered ==
  ASSUME TopicsInv, NEW m \in Messages, NEW t \in NextTopics(m)
  PROVE  t \in 1..newest + 1
<1>1. newest \in Nat /\ \A i \in DOMAIN known : known[i].id \in 1..newest
  BY DEF TopicsInv, TopicsTypes, NumbersInv
<1>2. CASE Candidates(m) = {}
  BY <1>1, <1>2 DEF NextTopics
<1>3. CASE Candidates(m) # {}
  <2>1. PICK i \in Candidates(m) : t = known[i].id
    BY <1>3, Zenon DEF NextTopics
  <2>2. i \in DOMAIN known
    BY <2>1, Zenon DEF Candidates
  <2> QED BY <1>1, <2>1, <2>2
<1> QED BY <1>2, <1>3

LEMMA SwitchKeeps ==
  ASSUME TopicsInv, Len(shown) < MaxTurns, NEW m \in Messages, NEW clean \in BOOLEAN, SwitchTurn(m, clean)
  PROVE  TopicsInv'
<1>1. PICK t \in NextTopics(m) :
        /\ topic' = t /\ newest' = IF t > newest THEN t ELSE newest
        /\ shown' = AddEntry(IF clean THEN shown ELSE Pruned(t), t)
        /\ spared' = IF clean THEN spared \cup {shown[i].topic : i \in {i \in DOMAIN shown : ~shown[i].hidden}}
                              ELSE {}
  BY Zenon DEF SwitchTurn
<1>2. recent' = Pushed(m) /\ known' = known
  BY DEF SwitchTurn
<1>3. newest \in Nat /\ shown \in Seq(ShownSet) /\ Len(shown) \in Nat /\ DOMAIN shown = 1..Len(shown) /\ newest <= Len(shown) + 1
  BY DEF TopicsInv, TopicsTypes
<1>4. t \in 1..newest + 1
  BY TopicsAreNumbered
<1>5. newest' \in Nat /\ newest <= newest' /\ topic' \in 1..newest' /\ newest' <= newest + 1
  BY <1>1, <1>3, <1>4
<1>6. recent' \in Seq(Messages) /\ Len(recent') <= RollingWindow
  BY <1>2, WindowHolds DEF TopicsInv
<1> DEFINE kept == IF clean THEN shown ELSE Pruned(t)
<1>7. /\ kept \in Seq(ShownSet) /\ Len(kept) = Len(shown) /\ DOMAIN kept = DOMAIN shown
      /\ \A i \in DOMAIN shown : kept[i].topic = shown[i].topic
      /\ ~clean => \A i \in DOMAIN shown : ~kept[i].hidden => shown[i].topic = t
      /\ clean => kept = shown
  <2>1. CASE clean
    BY <1>3, <2>1
  <2>2. CASE ~clean
    <3>1. kept = [i \in DOMAIN shown |-> [shown[i] EXCEPT !.hidden = @ \/ shown[i].topic # t]]
      BY <2>2 DEF Pruned
    <3> HIDE DEF kept
    <3>2. \A i \in DOMAIN shown : shown[i] \in ShownSet
      BY <1>3
    <3>3. ASSUME NEW i \in DOMAIN shown
          PROVE  /\ kept[i] \in ShownSet /\ kept[i].topic = shown[i].topic
                 /\ ~kept[i].hidden => shown[i].topic = t
      <4>1. kept[i] = [shown[i] EXCEPT !.hidden = shown[i].hidden \/ shown[i].topic # t]
        BY <3>1
      <4>2. (shown[i].hidden \/ shown[i].topic # t) \in BOOLEAN
        OBVIOUS
      <4>3. kept[i] \in ShownSet /\ kept[i].topic = shown[i].topic
        BY <3>2, <4>1, <4>2 DEF ShownSet
      <4>4. kept[i].hidden = (shown[i].hidden \/ shown[i].topic # t)
        BY <3>2, <4>1 DEF ShownSet
      <4> QED BY <4>3, <4>4
    <3>4. kept \in [1..Len(shown) -> ShownSet]
      BY <1>3, <3>1, <3>3
    <3> QED BY <1>3, <2>2, <3>3, <3>4
  <2> QED BY <2>1, <2>2
<1> HIDE DEF kept
<1>8. /\ shown' \in Seq(ShownSet) /\ Len(shown') = Len(shown) + 1
      /\ \A i \in DOMAIN shown' : (i \in DOMAIN shown /\ shown'[i] = kept[i]) \/ shown'[i].topic = t
  <2>1. shown' = AddEntry(kept, t) /\ t \in Nat
    BY <1>1, <1>3, <1>4 DEF kept
  <2> QED BY <1>7, <2>1, EntryAdded
<1>9. TopicsTypes'
  <2>1. newest' <= MaxTurns + 1 /\ newest' <= Len(shown') + 1
    BY <1>3, <1>5, <1>8, TopicsAssumption
  <2> QED BY <1>2, <1>5, <1>6, <1>8, <2>1 DEF TopicsInv, TopicsTypes
<1>10. NumbersInv'
  <2>1. \A i \in DOMAIN known : known[i].id \in 1..newest'
    BY <1>3, <1>5 DEF TopicsInv, NumbersInv
  <2>2. \A i \in DOMAIN shown : shown[i].topic \in 0..newest'
    BY <1>3, <1>5 DEF TopicsInv, NumbersInv
  <2>3. t \in 0..newest'
    BY <1>1, <1>5
  <2>4. \A i \in DOMAIN shown' : shown'[i].topic \in 0..newest'
    BY <1>7, <1>8, <2>2, <2>3
  <2> QED BY <1>2, <2>1, <2>4 DEF TopicsInv, NumbersInv
<1>11. VisibleIsCurrent'
  <2> SUFFICES ASSUME NEW i \in DOMAIN shown', ~shown'[i].hidden PROVE shown'[i].topic \in {topic'} \cup spared'
    BY DEF VisibleIsCurrent
  <2>1. CASE shown'[i].topic = t
    BY <1>1, <2>1
  <2>2. CASE i \in DOMAIN shown /\ shown'[i] = kept[i] /\ ~clean
    BY <1>1, <1>7, <2>2
  <2>3. CASE i \in DOMAIN shown /\ shown'[i] = kept[i] /\ clean
    <3>1. shown'[i] = shown[i] /\ ~shown[i].hidden
      BY <1>7, <2>3
    <3>2. shown[i].topic \in spared'
      BY <1>1, <2>3, <3>1
    <3> QED BY <3>1, <3>2
  <2> QED BY <1>8, <2>1, <2>2, <2>3
<1> QED BY <1>9, <1>10, <1>11 DEF TopicsInv

LEMMA RegisterKeeps ==
  ASSUME TopicsInv, NEW label \in Labels, RegisterTopic(label)
  PROVE  TopicsInv'
<1> DEFINE e == [id |-> topic, label |-> label]
<1>1. known \in Seq(TopicSet) /\ topic \in 1..newest /\ newest \in Nat
  BY DEF TopicsInv, TopicsTypes
<1>2. e \in TopicSet /\ e.id = topic
  BY <1>1 DEF TopicSet
<1>3. known' = Append(known, e) /\ \A i \in DOMAIN known : known[i].id # topic
  BY DEF RegisterTopic
<1>4. UNCHANGED <<topic, recent, newest, shown, spared>>
  BY DEF RegisterTopic
<1> HIDE DEF e
<1>5. /\ known' \in Seq(TopicSet) /\ Len(known') = Len(known) + 1 /\ Len(known) \in Nat
      /\ DOMAIN known = 1..Len(known) /\ DOMAIN known' = 1..Len(known')
      /\ \A i \in DOMAIN known : known'[i] = known[i]
      /\ known'[Len(known) + 1] = e
  BY <1>1, <1>2, <1>3
<1>6. \A i \in DOMAIN known' : (i \in DOMAIN known /\ known'[i] = known[i]) \/ (i = Len(known) + 1 /\ known'[i] = e)
  BY <1>5
<1>7. TopicsTypes'
  BY <1>4, <1>5 DEF TopicsInv, TopicsTypes
<1>8. NumbersInv'
  <2>1. \A i \in DOMAIN known' : known'[i].id \in 1..newest
    BY <1>1, <1>2, <1>6 DEF TopicsInv, NumbersInv
  <2>2. \A i, j \in DOMAIN known' : i # j => known'[i].id # known'[j].id
    <3> SUFFICES ASSUME NEW i \in DOMAIN known', NEW j \in DOMAIN known', i # j PROVE known'[i].id # known'[j].id
      OBVIOUS
    <3>1. CASE i \in DOMAIN known /\ j \in DOMAIN known
      BY <1>5, <3>1 DEF TopicsInv, NumbersInv
    <3>2. CASE i \in DOMAIN known /\ j = Len(known) + 1
      BY <1>2, <1>3, <1>5, <3>2
    <3>3. CASE i = Len(known) + 1 /\ j \in DOMAIN known
      BY <1>2, <1>3, <1>5, <3>3
    <3> QED BY <1>6, <3>1, <3>2, <3>3
  <2> QED BY <1>4, <2>1, <2>2 DEF TopicsInv, NumbersInv
<1>9. VisibleIsCurrent'
  BY <1>4 DEF TopicsInv, VisibleIsCurrent
<1> QED BY <1>7, <1>8, <1>9 DEF TopicsInv

(* What a model is shown is of the topic that it is asked about.           *)
THEOREM OnlyTheTopicIsShown == TopicsSpec => [](TopicsTypeOK /\ VisibleIsCurrent)
<1>1. TopicsInv /\ [TopicsNext]_topicVars => TopicsInv'
  <2> SUFFICES ASSUME TopicsInv, [TopicsNext]_topicVars PROVE TopicsInv'
    OBVIOUS
  <2>1. CASE Len(shown) < MaxTurns /\ CleanTurn
    BY <2>1, StayKeeps DEF CleanTurn
  <2>2. ASSUME Len(shown) < MaxTurns, NEW m \in Messages, StayTurn(m) PROVE TopicsInv'
    BY <2>2, StayKeeps DEF StayTurn
  <2>3. ASSUME Len(shown) < MaxTurns, NEW m \in Messages, NEW clean \in BOOLEAN, SwitchTurn(m, clean) PROVE TopicsInv'
    BY <2>3, SwitchKeeps
  <2>4. ASSUME NEW label \in Labels, RegisterTopic(label) PROVE TopicsInv'
    BY <2>4, RegisterKeeps
  <2>5. CASE UNCHANGED topicVars
    <3>1. UNCHANGED <<topic, recent, known, newest, shown, spared>>
      BY <2>5 DEF topicVars
    <3> QED BY <3>1 DEF TopicsInv, TopicsTypes, NumbersInv, VisibleIsCurrent
  <2> QED BY <2>1, <2>2, <2>3, <2>4, <2>5 DEF TopicsNext
<1> QED BY <1>1, TopicsStart, TopicsSafe, PTL DEF TopicsSpec

(* What memory shows belongs to the one it is shown to.                    *)
THEOREM MemoryIsOnesOwn == RecallSpec /\ TopicsSpec => []MemoryShowsItsOwn
<1>1. RecallInv /\ TopicsTypeOK /\ VisibleIsCurrent => MemoryShowsItsOwn
  BY Zenon DEF RecallInv, MemoryShowsItsOwn
<1> QED BY <1>1, SearchesObey, OnlyTheTopicIsShown, PTL
=============================================================================
