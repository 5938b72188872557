------------------------------- MODULE Memory -------------------------------
(***************************************************************************)
(* What keeps the long-term memory (crates/adaclaw-memory): the writers of *)
(* the SQLite back-end with its vectors (sqlite.rs), the consolidation of  *)
(* its entries (consolidation.rs), and the Markdown back-end (markdown.rs).*)
(* The three share no state: what a key holds is its content and its age   *)
(* to the first, its facts to the second, and a file to the third.  Recall *)
(* has what a search finds in them.                                        *)
(***************************************************************************)
EXTENDS Naturals, Sequences, FiniteSets

-----------------------------------------------------------------------------
(***************************************************************************)
(* Writers of the SQLite memory (crates/adaclaw-memory/src/sqlite.rs) with *)
(* its vector index: a row and its vector are written by statements of     *)
(* their own, outside of any transaction, over pooled connections.         *)
(* The full text index follows the rows by triggers, in the same statement.*)
(***************************************************************************)
CONSTANTS
  MemoryKeys, Writers,
  TtlDays,
  MaxVersions, MaxDays   \* bounds: contents stored, and days

ASSUME IndexAssumption == TtlDays \in Nat /\ MaxVersions \in Nat /\ MaxDays \in Nat

VARIABLES
  rows,       \* key -> version of its content and day of creation; version 0 for no row
  vectors,    \* key -> the version whose embedding is in memory_vss, 0 for none
  writer,     \* what each writer is doing, and with which keys
  version,
  day,
  mixed       \* history: keys whose row and vector may come of different calls

indexVars == <<rows, vectors, writer, version, day, mixed>>

NoRow == [version |-> 0, born |-> 0]
Work(step, keys, v, embedded) == [step |-> step, keys |-> keys, version |-> v, embedded |-> embedded]
Resting == Work("rest", {}, 0, FALSE)

IndexInit ==
  /\ rows = [k \in MemoryKeys |-> NoRow] /\ vectors = [k \in MemoryKeys |-> 0]
  /\ writer = [w \in Writers |-> Resting]
  /\ version = 0 /\ day = 0 /\ mixed = {}

Stands(w, s) == writer[w].step = s
GoOn(w, s) == writer' = [writer EXCEPT ![w].step = s]
Rest(w) == writer' = [writer EXCEPT ![w] = Resting]
Old(k) == rows[k].version > 0 /\ rows[k].born + TtlDays < day

(* Hygiene may work on any key. *)
Touches(v) == IF Stands(v, "unindexOld") THEN MemoryKeys ELSE writer[v].keys
InHand == UNION {Touches(v) : v \in Writers}

(* A call on keys nobody else works on puts them right again; others may   *)
(* mix them up.                                                            *)
Begin(w, work, keys) ==
  /\ Stands(w, "rest")
  /\ writer' = [writer EXCEPT ![w] = work]
  /\ mixed' = (mixed \cup (keys \cap InHand)) \ (IF work.keys = keys THEN keys \ InHand ELSE {})

-----------------------------------------------------------------------------
(* store: the embedding is made first, and may fail. *)
BeginStore(w, k, embedded) ==
  /\ version < MaxVersions /\ version' = version + 1
  /\ Begin(w, Work("insert", {k}, version + 1, embedded), {k})
  /\ UNCHANGED <<rows, vectors, day>>

(* INSERT ... ON CONFLICT DO UPDATE: a row keeps its day of creation. *)
Insert(w) ==
  /\ Stands(w, "insert")
  /\ \E k \in writer[w].keys :
       /\ rows' = [rows EXCEPT ![k] = [version |-> writer[w].version, born |-> IF @.version = 0 THEN day ELSE @.born]]
       /\ mixed' = IF writer[w].embedded \/ vectors[k] = 0 THEN mixed ELSE mixed \cup {k}
  /\ IF writer[w].embedded THEN GoOn(w, "index") ELSE Rest(w)
  /\ UNCHANGED <<vectors, version, day>>

(* upsert_embedding *)
Index(w) ==
  /\ Stands(w, "index")
  /\ \E k \in writer[w].keys : vectors' = [vectors EXCEPT ![k] = writer[w].version]
  /\ Rest(w)
  /\ UNCHANGED <<rows, version, day, mixed>>

(* forget: the vector first, and then the row. *)
BeginForget(w, k) ==
  /\ Begin(w, Work("unindex", {k}, 0, FALSE), {k})
  /\ UNCHANGED <<rows, vectors, version, day>>

(* Mutant: the vector stays. *)
UnindexNothing(w) ==
  /\ Stands(w, "unindex")
  /\ GoOn(w, "delete")
  /\ UNCHANGED <<rows, vectors, version, day, mixed>>

(* delete_embedding *)
Unindex(w) ==
  /\ Stands(w, "unindex")
  /\ vectors' = [k \in MemoryKeys |-> IF k \in writer[w].keys THEN 0 ELSE vectors[k]]
  /\ GoOn(w, "delete")
  /\ UNCHANGED <<rows, version, day, mixed>>

Delete(w) ==
  /\ Stands(w, "delete")
  /\ rows' = [k \in MemoryKeys |-> IF k \in writer[w].keys THEN NoRow ELSE rows[k]]
  /\ Rest(w)
  /\ UNCHANGED <<vectors, version, day, mixed>>

-----------------------------------------------------------------------------
(* hygiene selects the old keys, takes their vectors one by one, and then  *)
(* deletes the rows that are old by that time.                             *)
BeginHygiene(w) ==
  /\ TtlDays > 0
  /\ Begin(w, Work("unindexOld", {k \in MemoryKeys : Old(k)}, 0, FALSE), MemoryKeys)
  /\ UNCHANGED <<rows, vectors, version, day>>

UnindexOld(w, k) ==
  /\ Stands(w, "unindexOld") /\ k \in writer[w].keys
  /\ vectors' = [vectors EXCEPT ![k] = 0]
  /\ writer' = [writer EXCEPT ![w].keys = @ \ {k}]
  /\ UNCHANGED <<rows, version, day, mixed>>

DeleteOld(w) ==
  /\ Stands(w, "unindexOld") /\ writer[w].keys = {}
  /\ rows' = [k \in MemoryKeys |-> IF Old(k) THEN NoRow ELSE rows[k]]
  /\ Rest(w)
  /\ UNCHANGED <<vectors, version, day, mixed>>

(* A statement fails, or the process ends: what is written is written. *)
BreaksOff(w) ==
  /\ ~Stands(w, "rest")
  /\ mixed' = mixed \cup Touches(w)
  /\ Rest(w)
  /\ UNCHANGED <<rows, vectors, version, day>>

(* A row that grows old between the two looks of hygiene goes without its   *)
(* vector.                                                                 *)
DayPasses ==
  /\ day < MaxDays /\ day' = day + 1
  /\ mixed' = IF \E w \in Writers : Stands(w, "unindexOld")
              THEN mixed \cup {k \in MemoryKeys : rows[k].version > 0 /\ rows[k].born + TtlDays = day}
              ELSE mixed
  /\ UNCHANGED <<rows, vectors, writer, version>>

IndexNext ==
  \/ \E w \in Writers :
       \/ \E k \in MemoryKeys :
            BeginForget(w, k) \/ UnindexOld(w, k) \/ \E embedded \in BOOLEAN : BeginStore(w, k, embedded)
       \/ Insert(w) \/ Index(w) \/ Unindex(w) \/ Delete(w)
       \/ BeginHygiene(w) \/ DeleteOld(w) \/ BreaksOff(w)
  \/ DayPasses

IndexSpec == IndexInit /\ [][IndexNext]_indexVars

-----------------------------------------------------------------------------
(* A key that nobody works on, and where the halves of no two calls were   *)
(* mixed and none was left half done, has either the vector of its present *)
(* content or none: what the vectors find is what was said.                *)
VectorsFollowRows ==
  \A k \in MemoryKeys \ (mixed \cup InHand) : vectors[k] \in {0, rows[k].version}

-----------------------------------------------------------------------------
(***************************************************************************)
(* Memory consolidation (crates/adaclaw-memory/src/consolidation.rs): the  *)
(* entries of a category are listed once, a language model names clusters  *)
(* of keys in each batch, and each cluster is merged into the entry of its *)
(* first key; the others are forgotten.  Agents store and forget meanwhile.*)
(* An entry is a set of facts; what the model merges is their union.       *)
(***************************************************************************)
CONSTANTS
  EntryKeys,
  Answers,      \* what the model may answer: sequences of clusters, which are sequences of keys
  MinEntries,   \* MIN_ENTRIES_FOR_CONSOLIDATION
  BatchSize,
  MaxFacts, MaxRounds   \* bounds

ASSUME ConsolidationAssumption ==
  /\ IsFiniteSet(EntryKeys) /\ Answers \subseteq Seq(Seq(STRING))
  /\ BatchSize \in Nat \ {0} /\ MinEntries \in Nat \ {0}
  /\ MaxFacts \in Nat /\ MaxRounds \in Nat

VARIABLES
  entries,      \* key -> set of facts and category; no facts for no entry
  pass,         \* the pass under way
  nextFact,
  rounds,
  told,         \* history: facts stored and neither overwritten nor forgotten by an agent
  overtaken,    \* history: facts stored while a pass was under way
  orderly       \* history: no answer named a key twice

consolidationVars == <<entries, pass, nextFact, rounds, told, overtaken, orderly>>

NoEntry == [facts |-> {}, category |-> "none"]
Stored == {k \in EntryKeys : entries[k].facts # {}}

(* Between passes.  batch: key -> facts as they were listed. *)
NoPass == [step |-> "none", left |-> <<>>, batch |-> <<>>, category |-> "none",
           clusters |-> <<>>, losers |-> <<>>]

ConsolidationInit ==
  /\ entries = [k \in EntryKeys |-> NoEntry] /\ pass = NoPass
  /\ nextFact = 1 /\ rounds = 0
  /\ told = {} /\ overtaken = {} /\ orderly = TRUE

-----------------------------------------------------------------------------
(* The tools memory_store and memory_forget. *)
AgentStores(k, category) ==
  /\ nextFact <= MaxFacts /\ nextFact' = nextFact + 1
  /\ entries' = [entries EXCEPT ![k] = [facts |-> {nextFact}, category |-> category]]
  /\ told' = (told \ entries[k].facts) \cup {nextFact}
  /\ overtaken' = IF pass.step = "none" THEN overtaken ELSE overtaken \cup {nextFact}
  /\ UNCHANGED <<pass, rounds, orderly>>

AgentForgets(k) ==
  /\ k \in Stored
  /\ entries' = [entries EXCEPT ![k] = NoEntry]
  /\ told' = told \ entries[k].facts
  /\ UNCHANGED <<pass, nextFact, rounds, overtaken, orderly>>

-----------------------------------------------------------------------------
(* consolidate: the entries of one category, in any order; Global is left  *)
(* alone.                                                                  *)
List(category) ==
  LET Listed == {k \in Stored : entries[k].category = category}
  IN /\ pass.step = "none" /\ rounds < MaxRounds /\ rounds' = rounds + 1
     /\ category # "Global" /\ Cardinality(Listed) >= MinEntries
     /\ \E order \in [1..Cardinality(Listed) -> Listed] :
          /\ \A i, j \in DOMAIN order : i # j => order[i] # order[j]
          /\ pass' = [NoPass EXCEPT !.step = "ask", !.category = category,
                                    !.left = [i \in DOMAIN order |-> [key |-> order[i], facts |-> entries[order[i]].facts]]]
     /\ UNCHANGED <<entries, nextFact, told, overtaken, orderly>>

Least(m, n) == IF m < n THEN m ELSE n

(* The next batch, or the end of the pass. *)
NextBatch(p) ==
  IF p.left = <<>> THEN NoPass
  ELSE LET n == Least(BatchSize, Len(p.left))
       IN [p EXCEPT !.step = "cluster", !.batch = SubSeq(p.left, 1, n),
                    !.left = SubSeq(p.left, n + 1, Len(p.left)), !.clusters = <<>>, !.losers = <<>>]

TakeBatch ==
  /\ pass.step = "ask"
  /\ pass' = NextBatch(pass)
  /\ UNCHANGED <<entries, nextFact, rounds, told, overtaken, orderly>>

Named(answer) == UNION {{answer[i][j] : j \in DOMAIN answer[i]} : i \in DOMAIN answer}
NamesOnce(answer) ==
  \A i, j \in DOMAIN answer : \A p \in DOMAIN answer[i], q \in DOMAIN answer[j] :
    answer[i][p] = answer[j][q] => i = j /\ p = q

(* find_similar_clusters: a failure gives up the batch.  Clusters of fewer  *)
(* than two keys, which parse_clusters_json drops, are passed over below.  *)
FindClusters(answer) ==
  /\ pass.step = "cluster"
  /\ pass' = [pass EXCEPT !.step = "merge", !.clusters = answer]
  /\ orderly' = (orderly /\ NamesOnce(answer))
  /\ UNCHANGED <<entries, nextFact, rounds, told, overtaken>>

GiveUpBatch ==
  /\ pass.step \in {"cluster", "store"}
  /\ pass' = [pass EXCEPT !.step = "ask"]
  /\ UNCHANGED <<entries, nextFact, rounds, told, overtaken, orderly>>

(* The entries of a cluster, as they were listed; keys that are not in the *)
(* batch are passed over.  The first becomes the merged entry.             *)
Cluster == Head(pass.clusters)
InBatch(k) == \E i \in DOMAIN pass.batch : pass.batch[i].key = k
Members == {j \in DOMAIN Cluster : InBatch(Cluster[j])}
FirstMember == CHOOSE j \in Members : \A i \in Members : j <= i
Merged == UNION {pass.batch[i].facts : i \in {i \in DOMAIN pass.batch : \E j \in Members :
                                               pass.batch[i].key = Cluster[j]}}

(* Mutant: the merged entry is deleted with the others. *)
LosersAll == SubSeq(Cluster, FirstMember, Len(Cluster))

Losers == SubSeq(Cluster, FirstMember + 1, Len(Cluster))

NextCluster == [pass EXCEPT !.clusters = Tail(pass.clusters)]

(* merge_cluster: fewer than two entries, or a failure, and the cluster is *)
(* passed over.                                                            *)
SkipCluster ==
  /\ pass.step = "merge" /\ pass.clusters # <<>>
  /\ pass' = NextCluster
  /\ UNCHANGED <<entries, nextFact, rounds, told, overtaken, orderly>>

MergeCluster ==
  /\ pass.step = "merge" /\ pass.clusters # <<>> /\ \E i, j \in Members : i # j
  /\ pass' = [pass EXCEPT !.step = "store"]
  /\ UNCHANGED <<entries, nextFact, rounds, told, overtaken, orderly>>

StoreMerged ==
  /\ pass.step = "store"
  /\ entries' = [entries EXCEPT ![Cluster[FirstMember]] = [facts |-> Merged, category |-> pass.category]]
  /\ pass' = [NextCluster EXCEPT !.step = "forget", !.losers = Losers]
  /\ UNCHANGED <<nextFact, rounds, told, overtaken, orderly>>

(* A failure to forget is passed over. *)
ForgetLoser(fails) ==
  /\ pass.step = "forget" /\ pass.losers # <<>>
  /\ entries' = IF fails \/ ~InBatch(Head(pass.losers)) THEN entries
                ELSE [entries EXCEPT ![Head(pass.losers)] = NoEntry]
  /\ pass' = [pass EXCEPT !.losers = Tail(@)]
  /\ UNCHANGED <<nextFact, rounds, told, overtaken, orderly>>

ClusterDone ==
  /\ \/ pass.step = "forget" /\ pass.losers = <<>> /\ pass' = [pass EXCEPT !.step = "merge"]
     \/ pass.step = "merge" /\ pass.clusters = <<>> /\ pass' = [pass EXCEPT !.step = "ask"]
  /\ UNCHANGED <<entries, nextFact, rounds, told, overtaken, orderly>>

(* The process ends in the middle; the memory is on disk. *)
PassBreaksOff ==
  /\ pass.step # "none" /\ pass' = NoPass
  /\ UNCHANGED <<entries, nextFact, rounds, told, overtaken, orderly>>

ConsolidationNext ==
  \/ \E k \in EntryKeys : AgentForgets(k) \/ \E c \in {"Core", "Global"} : AgentStores(k, c)
  \/ \E c \in {"Core", "Global"} : List(c)
  \/ \E answer \in Answers : FindClusters(answer)
  \/ TakeBatch \/ GiveUpBatch \/ SkipCluster \/ MergeCluster \/ StoreMerged
  \/ \E fails \in BOOLEAN : ForgetLoser(fails)
  \/ ClusterDone \/ PassBreaksOff

ConsolidationSpec == ConsolidationInit /\ [][ConsolidationNext]_consolidationVars

-----------------------------------------------------------------------------
Kept == UNION {entries[k].facts : k \in EntryKeys}

(* As long as the model names no key twice, no fact is lost, at no moment  *)
(* of a pass and wherever it breaks off, but those that were stored while  *)
(* a pass was under way.                                                   *)
FactsKept == orderly => told \ overtaken \subseteq Kept

-----------------------------------------------------------------------------
(***************************************************************************)
(* The Markdown backend of the long-term memory (crates/adaclaw-memory,    *)
(* markdown.rs): one file per key, written, read and deleted without a     *)
(* lock by the tools of turns that run at the same time.  Recall ranks     *)
(* what is read here.                                                      *)
(*                                                                         *)
(* An entry is written by one system call, after another one has created   *)
(* or emptied the file.  Of its text only the length counts: a shorter one *)
(* that is written over a longer one leaves the end of that.               *)
(***************************************************************************)
CONSTANTS
  FileKeys,     \* keys of entries
  FileOf,       \* key_to_path, under which different keys may meet
  Storers,      \* turns that store or forget
  TextLengths,  \* of entries
  MaxStores     \* bound

ASSUME MarkdownAssumption == FileKeys # {} /\ TextLengths \subseteq Nat \ {0}

VARIABLES
  mdFiles,      \* file -> what is in it
  storer,       \* "none", or the store that has opened its file
  stores,       \* number of stores and deletions begun
  wasStored,    \* history: the entries that were to be stored
  raced,        \* history: files two stores of which overlapped
  listing,      \* what list and recall read: files to go, entries found
  stood         \* history: what has stood since the listing began

markdownVars == <<mdFiles, storer, stores, wasStored, raced, listing, stood>>

MdFiles == {FileOf[k] : k \in FileKeys}
NoFile == [is |-> "absent", entries |-> <<>>]
Emptied == [is |-> "file", entries |-> <<>>]
Idler == [step |-> "none", entry |-> <<>>, linked |-> FALSE]
NoListing == [step |-> "none", left |-> {}, found |-> {}]

MarkdownInit ==
  /\ mdFiles = [f \in MdFiles |-> NoFile]
  /\ storer = [w \in Storers |-> Idler] /\ stores = 0
  /\ wasStored = {} /\ raced = {} /\ listing = NoListing /\ stood = {}

-----------------------------------------------------------------------------
Path(w) == FileOf[storer[w].entry.key]
Writing(f) == {w \in Storers : storer[w].step = "open" /\ storer[w].linked /\ Path(w) = f}

(* Mutant: the file is opened without emptying it. *)
OpenAsItIs(w, k, n) ==
  /\ storer[w].step = "none" /\ stores < MaxStores
  /\ LET entry == [key |-> k, version |-> stores + 1, length |-> n]  f == FileOf[k] IN
     /\ storer' = [storer EXCEPT ![w] = [step |-> "open", entry |-> entry, linked |-> TRUE]]
     /\ mdFiles' = [mdFiles EXCEPT ![f].is = "file"]
     /\ wasStored' = wasStored \cup {entry}
     /\ raced' = IF Writing(f) # {} THEN raced \cup {f} ELSE raced
     /\ stood' = {e \in stood : FileOf[e.key] # f}
  /\ stores' = stores + 1
  /\ UNCHANGED listing

(* write_entry, up to where fs::write has opened the file. *)
OpenEntry(w, k, n) ==
  /\ storer[w].step = "none" /\ stores < MaxStores
  /\ LET entry == [key |-> k, version |-> stores + 1, length |-> n]  f == FileOf[k] IN
     /\ storer' = [storer EXCEPT ![w] = [step |-> "open", entry |-> entry, linked |-> TRUE]]
     /\ mdFiles' = [mdFiles EXCEPT ![f] = Emptied]
     /\ wasStored' = wasStored \cup {entry}
     /\ raced' = IF Writing(f) # {} THEN raced \cup {f} ELSE raced
     /\ stood' = {e \in stood : FileOf[e.key] # f}
  /\ stores' = stores + 1
  /\ UNCHANGED listing

(* From the beginning of the file on: the first entry is what is read, and *)
(* what follows it, is the end of a longer one.                            *)
WrittenOver(old, entry) ==
  IF old # <<>> /\ old[1].length > entry.length THEN <<entry, old[1]>> ELSE <<entry>>

(* A file that was deleted meanwhile is written without a name. *)
WriteEntry(w) ==
  /\ storer[w].step = "open"
  /\ mdFiles' = IF ~storer[w].linked THEN mdFiles
                ELSE [mdFiles EXCEPT ![Path(w)].entries = WrittenOver(@, storer[w].entry)]
  /\ storer' = [storer EXCEPT ![w] = Idler]
  /\ UNCHANGED <<stores, wasStored, raced, listing, stood>>

(* The disk is full, or the daemon ends. *)
WriteEntryFails(w) ==
  /\ storer[w].step = "open"
  /\ storer' = [storer EXCEPT ![w] = Idler]
  /\ UNCHANGED <<mdFiles, stores, wasStored, raced, listing, stood>>

(* forget deletes the file of the key, whosever entry is in it. *)
ForgetEntry(w, k) ==
  /\ storer[w].step = "none" /\ stores < MaxStores
  /\ mdFiles' = [mdFiles EXCEPT ![FileOf[k]] = NoFile]
  /\ storer' = [u \in Storers |->
       IF u \in Writing(FileOf[k]) THEN [storer[u] EXCEPT !.linked = FALSE] ELSE storer[u]]
  /\ stores' = stores + 1
  /\ stood' = {e \in stood : FileOf[e.key] # FileOf[k]}
  /\ UNCHANGED <<wasStored, raced, listing>>

(* read_entry and parse_markdown_entry: the front matter of the first      *)
(* entry, and everything after it as its text.                             *)
InFile(f) == IF mdFiles[f].entries = <<>> THEN {} ELSE {mdFiles[f].entries}

(* all_entries reads file by file. *)
BeginListing ==
  /\ listing.step # "reads"
  /\ listing' = [step |-> "reads", left |-> {f \in MdFiles : mdFiles[f].is = "file"}, found |-> {}]
  /\ stood' = {mdFiles[f].entries[1] : f \in {g \in MdFiles : mdFiles[g].entries # <<>> /\ Writing(g) = {}}}
  /\ UNCHANGED <<mdFiles, storer, stores, wasStored, raced>>

(* Mutant: a file that does not parse ends the listing. *)
ReadOrEnd(f) ==
  /\ f \in listing.left
  /\ listing' = [listing EXCEPT !.left = IF InFile(f) = {} THEN {} ELSE @ \ {f}, !.found = @ \cup InFile(f)]
  /\ UNCHANGED <<mdFiles, storer, stores, wasStored, raced, stood>>

ReadEntry(f) ==
  /\ f \in listing.left
  /\ listing' = [listing EXCEPT !.left = @ \ {f}, !.found = @ \cup InFile(f)]
  /\ UNCHANGED <<mdFiles, storer, stores, wasStored, raced, stood>>

EndListing ==
  /\ listing.step = "reads" /\ listing.left = {}
  /\ listing' = [listing EXCEPT !.step = "done"]
  /\ UNCHANGED <<mdFiles, storer, stores, wasStored, raced, stood>>

MarkdownNext ==
  \/ \E w \in Storers :
       \/ \E k \in FileKeys : ForgetEntry(w, k) \/ \E n \in TextLengths : OpenEntry(w, k, n)
       \/ WriteEntry(w) \/ WriteEntryFails(w)
  \/ BeginListing \/ (\E f \in MdFiles : ReadEntry(f)) \/ EndListing

MarkdownSpec == MarkdownInit /\ [][MarkdownNext]_markdownVars

-----------------------------------------------------------------------------
(* What is read is an entry that somebody stored under this file, whole    *)
(* and nothing else, unless two stores of the file overlapped: then it may *)
(* have the end of the other one.  Keys that meet in a file overwrite each *)
(* other's entries, but do not mix them.                                   *)
EntriesAreWhole ==
  \A text \in listing.found :
    /\ text[1] \in wasStored
    /\ FileOf[text[1].key] \notin raced => Len(text) = 1

(* A list holds every entry that stood when it began and that nobody has   *)
(* stored or forgotten since, though files beside it are empty or vanish.  *)
ListsWhatStands ==
  listing.step = "done" => \A e \in stood : \E text \in listing.found : text[1] = e

-----------------------------------------------------------------------------
MemorySpec == IndexSpec /\ ConsolidationSpec /\ MarkdownSpec

(* What was stored is what is found: rows with their vectors, facts through*)
(* a consolidation, entries in files.                                      *)
MemoryKeeps ==
  /\ VectorsFollowRows
  /\ FactsKept
  /\ EntriesAreWhole /\ ListsWhatStands
=============================================================================
