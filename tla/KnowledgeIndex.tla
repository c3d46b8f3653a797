--------------------------- MODULE KnowledgeIndex ---------------------------
(***************************************************************************)
(* The knowledge base: KnowledgeBase.index_run (services/kb_service.py),   *)
(* the kb_chunks table (infra/db.py), re-indexing and deletion             *)
(* (services/run_service.py), the removal of run directories.              *)
(*                                                                         *)
(* Indexings run in threads: one for the kb phase of each run, which its   *)
(* run does not wait for after a timeout or a shutdown, and any number for *)
(* POST /kb/reindex.  An indexing reads the artifacts one file at a time   *)
(* and then replaces the chunks of its run.  Every use of the database     *)
(* holds one lock, but there are no transactions: SQLite commits each      *)
(* statement, each inserted row included, so a crash can fall between two. *)
(*                                                                         *)
(* A run is created, delivers and ends; its phases are in RunLifecycle.    *)
(***************************************************************************)
EXTENDS Naturals, Sequences, FiniteSets

CONSTANTS
  Runs,
  Reindexers,    \* pool threads that may serve POST /kb/reindex
  Titles,
  Contents,      \* what the artifacts of a run can hold: titles in order, by kind
  MaxCrashes,    \* bound: crashes of the service
  MaxRemovals    \* bound: removals of a run directory

Kinds == {"analysis", "fdd", "test_case", "data_mapping"}

\* A row of a workbook has a position of its own, a section only its title.
Rows == {"test_case", "data_mapping"}

ASSUME KnowledgeAssumption ==
  /\ Runs \cap Reindexers = {}
  /\ Contents \subseteq [Kinds -> Seq(Titles)]
  /\ MaxCrashes \in Nat
  /\ MaxRemovals \in Nat

VARIABLES
  stage,         \* stage[r]: "new", "working", "indexing" (the kb phase), "over"
  rows,          \* the runs that have a row
  chunks,        \* the kb_chunks table
  files,         \* files[r]: the artifacts on disk
  job,           \* job[w]: the indexing thread w does
  deleting,      \* runs a DELETE request has found
  cascading,     \* runs whose row delete_run() has deleted, and not yet their chunks
  crashes, removals,
  content,       \* history: content[r]: what r delivered
  overtaken,     \* history: runs whose row was deleted while they executed or were indexed
  torn,          \* history: runs a crash hit between two statements about them
  early,         \* history: runs a re-indexing found before they had delivered
  emptied        \* history: runs whose directory was removed

table == <<rows, chunks>>
threads == <<job, deleting, cascading>>
disk == <<files, removals, emptied>>
history == <<content, overtaken, torn, early>>
vars == <<stage, table, disk, threads, crashes, history>>

Indexers == Runs \cup Reindexers

Nothing == [k \in Kinds |-> <<>>]

\* An indexing of run r that is about to do `at` and has gathered `todo`.
Task(r, at, todo) == [run |-> r, at |-> at, todo |-> todo, done |-> 0]

Idle == Task("none", "idle", <<>>)

\* The order in which an indexing reads; the kb phase has the analysis in memory.
\* (Its chunks are appended last; a kind is part of the identifier, so the place
\* of a kind among the others makes no difference to what is stored.)
After == [analysis |-> "fdd", fdd |-> "test_case", test_case |-> "data_mapping",
          data_mapping |-> "replace"]

Active(r) == {w \in Indexers : job[w].at # "idle" /\ job[w].run = r}

\* Nobody is inside "with self.connect()".
LockFree == cascading = {} /\ \A w \in Indexers : job[w].at # "insert"

-----------------------------------------------------------------------------
(* Chunks.                                                                  *)

\* _chunk(): the identifier is a digest of run, kind, locator and title.
ChunkId(c) == <<c.run, c.kind, c.locator, c.title>>

\* chunk_fdd, chunk_rows, chunk_analysis: one chunk per section, row, rule or slice.
\* `text` stands for the words of the n-th of them.
Chunks(r, kind, titles) ==
  [n \in DOMAIN titles |->
     [run |-> r, kind |-> kind, title |-> titles[n],
      locator |-> IF kind \in Rows THEN n ELSE 0, text |-> n]]

\* Mutant: a plain INSERT on a table without primary key.
UpsertedMutant(stored, c) == stored \cup {c}

\* INSERT OR REPLACE.
Upserted(stored, c) == {d \in stored : ChunkId(d) # ChunkId(c)} \cup {c}

\* Of the chunks with the same identifier the last one stays.
Stored(todo) ==
  {todo[n] : n \in {i \in DOMAIN todo :
                      \A j \in DOMAIN todo : ChunkId(todo[j]) = ChunkId(todo[i]) => j <= i}}

ChunksOf(r) == {c \in chunks : c.run = r}

-----------------------------------------------------------------------------
Init ==
  /\ stage = [r \in Runs |-> "new"]
  /\ rows = {}
  /\ chunks = {}
  /\ files = [r \in Runs |-> Nothing]
  /\ job = [w \in Indexers |-> Idle]
  /\ deleting = {}
  /\ cascading = {}
  /\ crashes = 0
  /\ removals = 0
  /\ content = [r \in Runs |-> Nothing]
  /\ overtaken = {}
  /\ torn = {}
  /\ early = {}
  /\ emptied = {}

-----------------------------------------------------------------------------
(* Runs.                                                                    *)

Create(r) ==
  /\ stage[r] = "new"
  /\ LockFree
  /\ stage' = [stage EXCEPT ![r] = "working"]
  /\ rows' = rows \cup {r}
  /\ UNCHANGED <<chunks, disk, threads, crashes, history>>

\* Everything up to _index_kb: the artifacts are on disk and a thread starts to
\* index them.
Deliver(r) ==
  /\ stage[r] = "working"
  /\ stage' = [stage EXCEPT ![r] = "indexing"]
  /\ \E artifacts \in Contents :
       /\ files' = [files EXCEPT ![r] = artifacts]
       /\ content' = [content EXCEPT ![r] = artifacts]
       /\ job' = [job EXCEPT ![r] = Task(r, "fdd", Chunks(r, "analysis", artifacts["analysis"]))]
  /\ UNCHANGED <<table, removals, emptied, deleting, cascading, crashes, overtaken, torn, early>>

\* The run ends: earlier, because its indexing is over, or without waiting for it.
\* save_run() writes the row.
End(r) ==
  /\ stage[r] \in {"working", "indexing"}
  /\ LockFree
  /\ stage' = [stage EXCEPT ![r] = "over"]
  /\ rows' = rows \cup {r}
  /\ UNCHANGED <<chunks, disk, threads, crashes, history>>

-----------------------------------------------------------------------------
(* Indexing.                                                                *)

\* kb_reindex(): the run has a row.
Reindex(w, r) ==
  /\ job[w].at = "idle"
  /\ LockFree
  /\ r \in rows
  /\ job' = [job EXCEPT ![w] = Task(r, "analysis", <<>>)]
  /\ early' = IF stage[r] = "working" THEN early \cup {r} ELSE early
  /\ UNCHANGED <<stage, table, disk, deleting, cascading, crashes, content, overtaken, torn>>

\* The next file is read, if it is there.
Read(w) ==
  /\ job[w].at \in Kinds
  /\ LET k == job[w].at  r == job[w].run IN
       job' = [job EXCEPT ![w].at = After[k],
                          ![w].todo = @ \o Chunks(r, k, files[r][k])]
  /\ UNCHANGED <<stage, table, disk, deleting, cascading, crashes, history>>

\* Mutant: the first statement is missing.
BeginReplaceMutant(w) ==
  /\ job[w].at = "replace"
  /\ LockFree
  /\ job' = [job EXCEPT ![w].at = "insert"]
  /\ UNCHANGED <<stage, table, disk, deleting, cascading, crashes, history>>

\* replace_chunks(): the first statement deletes.
BeginReplace(w) ==
  /\ job[w].at = "replace"
  /\ LockFree
  /\ chunks' = chunks \ ChunksOf(job[w].run)
  /\ job' = [job EXCEPT ![w].at = "insert"]
  /\ UNCHANGED <<stage, rows, disk, deleting, cascading, crashes, history>>

\* executemany() commits one row after the other.
Insert(w) ==
  /\ job[w].at = "insert"
  /\ job[w].done < Len(job[w].todo)
  /\ job' = [job EXCEPT ![w].done = @ + 1]
  /\ chunks' = Upserted(chunks, job[w].todo[job[w].done + 1])
  /\ UNCHANGED <<stage, rows, disk, deleting, cascading, crashes, history>>

\* The lock is released; len(items) is reported as the number of chunks.
EndReplace(w) ==
  /\ job[w].at = "insert"
  /\ job[w].done = Len(job[w].todo)
  /\ job' = [job EXCEPT ![w] = Idle]
  /\ UNCHANGED <<stage, table, disk, deleting, cascading, crashes, history>>

-----------------------------------------------------------------------------
(* Deletion and removal.                                                    *)

\* RunService.delete(): the run has a row.
DeleteLookup(r) ==
  /\ LockFree
  /\ r \in rows
  /\ deleting' = deleting \cup {r}
  /\ UNCHANGED <<stage, table, disk, job, cascading, crashes, history>>

\* Mutant: the database is used without its lock.
DeleteRowMutant(r) ==
  /\ r \in deleting
  /\ rows' = rows \ {r}
  /\ deleting' = deleting \ {r}
  /\ cascading' = cascading \cup {r}
  /\ overtaken' = IF Active(r) # {} \/ stage[r] # "over" THEN overtaken \cup {r} ELSE overtaken
  /\ UNCHANGED <<stage, chunks, disk, job, crashes, content, torn, early>>

\* delete_run(): the first statement takes the row.
DeleteRow(r) ==
  /\ r \in deleting
  /\ LockFree
  /\ rows' = rows \ {r}
  /\ deleting' = deleting \ {r}
  /\ cascading' = {r}
  /\ overtaken' = IF Active(r) # {} \/ stage[r] # "over" THEN overtaken \cup {r} ELSE overtaken
  /\ UNCHANGED <<stage, chunks, disk, job, crashes, content, torn, early>>

\* Mutant: the chunks are left to a cascade that the schema does not have.
DeleteChunksMutant(r) ==
  /\ r \in cascading
  /\ cascading' = {}
  /\ UNCHANGED <<stage, table, disk, job, deleting, crashes, history>>

\* The second one takes its chunks.
DeleteChunks(r) ==
  /\ r \in cascading
  /\ chunks' = chunks \ ChunksOf(r)
  /\ cascading' = {}
  /\ UNCHANGED <<stage, rows, disk, job, deleting, crashes, history>>

Removal(r) ==
  /\ removals < MaxRemovals
  /\ removals' = removals + 1
  /\ files' = [files EXCEPT ![r] = Nothing]
  /\ emptied' = emptied \cup {r}

\* The run directory goes: purge_files, or GitService.gc.
Remove(r) ==
  /\ stage[r] \in {"indexing", "over"}
  /\ Removal(r)
  /\ UNCHANGED <<stage, table, threads, crashes, content, overtaken, torn, early>>

\* It goes between the test that a file exists and the reading of it.
ReadRaises(w) ==
  /\ job[w].at \in Kinds
  /\ files[job[w].run][job[w].at] # <<>>
  /\ Removal(job[w].run)
  /\ job' = [job EXCEPT ![w] = Idle]
  /\ UNCHANGED <<stage, table, deleting, cascading, crashes, history>>

-----------------------------------------------------------------------------
\* The process dies and starts again: threads are gone, unfinished runs failed.
Crash ==
  /\ crashes < MaxCrashes
  /\ crashes' = crashes + 1
  /\ torn' = torn \cup cascading \cup {job[w].run : w \in {v \in Indexers : job[v].at = "insert"}}
  /\ job' = [w \in Indexers |-> Idle]
  /\ deleting' = {}
  /\ cascading' = {}
  /\ stage' = [r \in Runs |-> IF stage[r] = "new" THEN "new" ELSE "over"]
  /\ UNCHANGED <<table, disk, content, overtaken, early>>

-----------------------------------------------------------------------------
Indexing(w) ==
  \/ Read(w)
  \/ BeginReplace(w)
  \/ Insert(w)
  \/ EndReplace(w)
  \/ ReadRaises(w)

Deletion(r) ==
  \/ DeleteLookup(r)
  \/ DeleteRow(r)
  \/ DeleteChunks(r)
  \/ Remove(r)

Next ==
  \/ \E r \in Runs : Create(r) \/ Deliver(r) \/ End(r) \/ Deletion(r)
  \/ \E w \in Reindexers, r \in Runs : Reindex(w, r)
  \/ \E w \in Indexers : Indexing(w)
  \/ Crash

Spec == Init /\ [][Next]_vars

-----------------------------------------------------------------------------
(* Properties.                                                              *)

Chunk == [run : Runs, kind : Kinds, title : Titles, locator : Nat, text : Nat]

OneHolder ==
  /\ \A r, q \in cascading : r = q
  /\ \A w \in Indexers : job[w].at = "insert" =>
       cascading = {} /\ \A v \in Indexers : job[v].at = "insert" => v = w

\* Every variable has its type, and the database lock one holder.
TypeOK ==
  /\ OneHolder
  /\ stage \in [Runs -> {"new", "working", "indexing", "over"}]
  /\ rows \in SUBSET Runs
  /\ chunks \in SUBSET Chunk
  /\ files \in [Runs -> [Kinds -> Seq(Titles)]]
  /\ job \in [Indexers -> [run : Runs \cup {"none"}, todo : Seq(Chunk), done : Nat,
                          at : {"idle", "replace", "insert"} \cup Kinds]]
  /\ deleting \in SUBSET Runs
  /\ cascading \in SUBSET Runs
  /\ crashes \in Nat
  /\ removals \in Nat
  /\ content \in [Runs -> [Kinds -> Seq(Titles)]]
  /\ overtaken \in SUBSET Runs
  /\ torn \in SUBSET Runs
  /\ early \in SUBSET Runs
  /\ emptied \in SUBSET Runs

\* Everything run r delivered, as an indexing undisturbed by removals stores it.
Evidence(r) == UNION {Stored(Chunks(r, k, content[r][k])) : k \in Kinds}

\* A query never sees half of an indexing, nor a mixture of two: between uses of
\* the database the chunks of a run are none or all of its evidence, unless its
\* directory was removed, a crash cut a replacement short, or it was re-indexed
\* before it had delivered.
IndexIsWhole ==
  LockFree => \A r \in Runs \ (torn \cup emptied \cup early) : ChunksOf(r) \in {{}, Evidence(r)}

\* "Idempotent: replaces prior chunks": whatever the table held of the run, also
\* what a crash or an earlier content left there, a replacement that ends leaves
\* exactly what its indexing has read.
ReplaceIsExact ==
  [][\A w \in Indexers : EndReplace(w) => ChunksOf(job[w].run) = Stored(job[w].todo)]_vars

(* The knowledge base as the promise of IndexStore sees it.                 *)

Writing == {w \in Indexers : job[w].at = "insert"}

\* Nobody can look into a replacement, so it counts as done when it begins.
StoreItems ==
  {c \in chunks : \A w \in Writing : job[w].run # c.run}
    \cup UNION {Stored(job[w].todo) : w \in Writing}

StoreGathered ==
  [w \in Indexers |-> [run |-> job[w].run, read |-> job[w].todo, stored |-> job[w].at = "insert"]]

Store == INSTANCE IndexStore WITH
  Writers <- Indexers, items <- StoreItems, gathered <- StoreGathered

\* "Idempotent: replaces prior chunks", and in one step: for everybody who has to take
\* the lock, an indexing replaces what the table held of its run, and nothing else, by
\* what it has read; a deletion takes exactly the chunks of its run; a crash leaves the
\* first statements of one replacement.
IndexSpec == Store!Spec

\* Deletion cascades: chunks of a run that is not in the database are left only by
\* a deletion that overtook its execution or an indexing of it, or by a crash.
OrphansExplained ==
  LockFree => \A c \in chunks : c.run \in rows \cup overtaken \cup torn
=============================================================================
