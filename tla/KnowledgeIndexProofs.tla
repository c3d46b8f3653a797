------------------------ MODULE KnowledgeIndexProofs ------------------------
(***************************************************************************)
(* Theorems about KnowledgeIndex for any runs, threads and contents, and   *)
(* any number of crashes and removals.                                     *)
(***************************************************************************)
EXTENDS KnowledgeIndex, WellFoundedInduction, TLAPS

Job == [run : Runs \cup {"none"}, todo : Seq(Chunk), done : Nat,
        at : {"idle", "replace", "insert"} \cup Kinds]

(* The inductive invariant, beyond TypeOK.                                  *)

\* A run that executes has its row, or lost it to a deletion meanwhile.
ExecutingKnown ==
  \A r \in Runs : stage[r] \in {"working", "indexing"} => r \in rows \cup overtaken

\* So has a run that is being indexed.
IndexedKnown ==
  \A w \in Indexers : job[w].at # "idle" => job[w].run \in Runs /\ job[w].run \in rows \cup overtaken

\* Chunks are known to the database, or about to be deleted.
ChunksKnown == \A c \in chunks : c.run \in rows \cup overtaken \cup torn \cup cascading

\* What a thread has gathered is about its run.
TodoOfRun ==
  \A w \in Indexers :
    /\ \A n \in DOMAIN job[w].todo : job[w].todo[n].run = job[w].run
    /\ job[w].done <= Len(job[w].todo)
    /\ job[w].at # "insert" => job[w].done = 0

\* What n insertions leave of a sequence of chunks.
StoredUpTo(todo, n) ==
  {todo[i] : i \in {i \in 1 .. n : \A j \in 1 .. n : ChunkId(todo[j]) = ChunkId(todo[i]) => j <= i}}

\* A replacement has deleted everything and inserted what it says it has.
Progress ==
  \A w \in Indexers :
    job[w].at = "insert" => ChunksOf(job[w].run) = StoredUpTo(job[w].todo, job[w].done)

IndexInv == TypeOK /\ ExecutingKnown /\ IndexedKnown /\ ChunksKnown /\ TodoOfRun /\ Progress

-----------------------------------------------------------------------------
(* Operators.                                                               *)

\* The chunks made of a document are chunks of the run, in document order.
LEMMA ChunksType ==
  ASSUME NEW r \in Runs, NEW k \in Kinds, NEW titles \in Seq(Titles)
  PROVE  /\ Chunks(r, k, titles) \in Seq(Chunk)
         /\ \A n \in DOMAIN Chunks(r, k, titles) : Chunks(r, k, titles)[n].run = r
<1> DEFINE c(n) == [run |-> r, kind |-> k, title |-> titles[n],
                    locator |-> IF k \in Rows THEN n ELSE 0, text |-> n]
<1>1. \A n \in 1 .. Len(titles) : c(n) \in Chunk /\ c(n).run = r
  BY DEF Chunk
<1>2. DOMAIN titles = 1 .. Len(titles) /\ Len(titles) \in Nat
  OBVIOUS
<1>3. Chunks(r, k, titles) = [n \in 1 .. Len(titles) |-> c(n)]
  BY <1>2 DEF Chunks
<1> HIDE DEF c
<1>4. [n \in 1 .. Len(titles) |-> c(n)] \in Seq(Chunk)
  BY <1>1, <1>2
<1> QED
  BY <1>1, <1>2, <1>3, <1>4

\* Upserting the next chunk takes the table from n insertions to n + 1.
LEMMA OneMore ==
  ASSUME NEW S, NEW todo \in Seq(S), NEW n \in Nat, n < Len(todo)
  PROVE  Upserted(StoredUpTo(todo, n), todo[n + 1]) = StoredUpTo(todo, n + 1)
<1> DEFINE id(i) == ChunkId(todo[i])
           last(m) == {i \in 1 .. m : \A j \in 1 .. m : id(j) = id(i) => j <= i}
<1>1. last(n + 1) = {i \in last(n) : id(i) # id(n + 1)} \cup {n + 1}
  <2> HIDE DEF id
  <2> QED
    OBVIOUS
<1>2. \A m \in Nat : StoredUpTo(todo, m) = {todo[i] : i \in last(m)}
  BY DEF StoredUpTo
<1> HIDE DEF last
<1>3. StoredUpTo(todo, n + 1)
        = {todo[i] : i \in {i \in last(n) : id(i) # id(n + 1)}} \cup {todo[n + 1]}
  BY <1>1, <1>2
<1>4. {d \in {todo[i] : i \in last(n)} : ChunkId(d) # id(n + 1)}
        = {todo[i] : i \in {i \in last(n) : id(i) # id(n + 1)}}
  OBVIOUS
<1> QED
  BY <1>2, <1>3, <1>4 DEF Upserted

\* After as many insertions as there are chunks the table holds what is stored.
LEMMA AllStored ==
  ASSUME NEW S, NEW todo \in Seq(S)
  PROVE  StoredUpTo(todo, Len(todo)) = Stored(todo)
BY DEF StoredUpTo, Stored

-----------------------------------------------------------------------------
(* Types, and that the lock has one holder.                                 *)

\* Writing one entry of a function keeps its type.
LEMMA Updated ==
  ASSUME NEW S, NEW T, NEW f \in [S -> T], NEW x, NEW v \in T
  PROVE  [f EXCEPT ![x] = v] \in [S -> T]
OBVIOUS

\* The types a thread step starts from.
LEMMA JobType ==
  ASSUME TypeOK, NEW w \in Indexers
  PROVE  job \in [Indexers -> Job] /\ job[w] \in Job /\ Idle \in Job
<1>1. job \in [Indexers -> Job]
  BY DEF TypeOK, Job
<1>2. Idle \in Job
  BY DEF Idle, Task, Job
<1> QED
  BY <1>1, <1>2

\* A run is created, or ends: the row is written.
LEMMA RowType ==
  ASSUME TypeOK, NEW r \in Runs, Create(r) \/ End(r)
  PROVE  TypeOK'
<1>1. stage' \in [Runs -> {"new", "working", "indexing", "over"}] /\ rows' \in SUBSET Runs
  BY Updated DEF TypeOK, Create, End
<1>2. UNCHANGED <<chunks, disk, threads, crashes, history>>
  BY DEF Create, End
<1> QED
  BY <1>1, <1>2 DEF TypeOK, OneHolder, disk, threads, history

\* The indexing of the kb phase begins.
LEMMA DeliverType ==
  ASSUME TypeOK, NEW r \in Runs, Deliver(r)
  PROVE  TypeOK'
<1>1. PICK artifacts \in Contents :
        /\ files' = [files EXCEPT ![r] = artifacts]
        /\ content' = [content EXCEPT ![r] = artifacts]
        /\ job' = [job EXCEPT ![r] = Task(r, "fdd", Chunks(r, "analysis", artifacts["analysis"]))]
  BY DEF Deliver
<1> DEFINE new == Task(r, "fdd", Chunks(r, "analysis", artifacts["analysis"]))
<1>2. artifacts \in [Kinds -> Seq(Titles)] /\ r \in Indexers
  BY KnowledgeAssumption DEF Indexers
<1>3. new \in Job
  <2>1. "analysis" \in Kinds /\ artifacts["analysis"] \in Seq(Titles)
    BY <1>2 DEF Kinds
  <2>2. Chunks(r, "analysis", artifacts["analysis"]) \in Seq(Chunk)
    BY <2>1, ChunksType
  <2> QED
    BY <2>2 DEF Task, Job, Kinds
<1>4. job' \in [Indexers -> Job]
  <2> HIDE DEF new
  <2> QED
    BY <1>1, <1>2, <1>3, JobType, Updated DEF new
<1>5. files' \in [Runs -> [Kinds -> Seq(Titles)]] /\ content' \in [Runs -> [Kinds -> Seq(Titles)]]
  BY <1>1, <1>2, Updated DEF TypeOK
<1>6. stage' \in [Runs -> {"new", "working", "indexing", "over"}]
  BY Updated DEF TypeOK, Deliver
<1>7. OneHolder'
  <2>1. \A w \in Indexers : job'[w].at = "insert" => job[w].at = "insert"
    BY <1>1 DEF TypeOK, Task
  <2> QED
    BY <2>1 DEF OneHolder, TypeOK, Deliver
<1> QED
  BY <1>4, <1>5, <1>6, <1>7 DEF TypeOK, Job, Deliver, table

\* A thread step that only changes its own job, and does not take the lock.
LEMMA OwnJobType ==
  ASSUME TypeOK, NEW w \in Indexers, NEW j \in Job, j.at # "insert",
         job' = [job EXCEPT ![w] = j], UNCHANGED <<stage, table, disk, deleting, cascading, crashes>>,
         UNCHANGED <<content, overtaken, torn>>, early' \in SUBSET Runs
  PROVE  TypeOK'
<1>1. job' \in [Indexers -> Job]
  BY JobType, Updated
<1>2. OneHolder'
  BY JobType DEF OneHolder, TypeOK
<1> QED
  BY <1>1, <1>2 DEF TypeOK, Job, table, disk

\* A file has been read.
LEMMA ReadJob ==
  ASSUME TypeOK, IndexedKnown, NEW w \in Indexers, Read(w)
  PROVE  \E j \in Job :
           /\ job' = [job EXCEPT ![w] = j]
           /\ j.at = After[job[w].at] /\ j.at \notin {"idle", "insert"} /\ j.run = job[w].run /\ j.done = job[w].done
           /\ j.todo = job[w].todo \o Chunks(job[w].run, job[w].at, files[job[w].run][job[w].at])
<1> DEFINE k == job[w].at
           r == job[w].run
           j == [job[w] EXCEPT !.at = After[k], !.todo = @ \o Chunks(r, k, files[r][k])]
<1>1. job[w] \in Job /\ r \in Runs /\ k \in Kinds
  BY JobType DEF Read, IndexedKnown, Kinds
<1>2. Chunks(r, k, files[r][k]) \in Seq(Chunk)
  BY <1>1, ChunksType DEF TypeOK
<1>3. After[k] \in Kinds \cup {"replace"}
  BY <1>1 DEF After, Kinds
<1>4. job[w].todo \o Chunks(r, k, files[r][k]) \in Seq(Chunk)
  BY <1>1, <1>2 DEF Job
<1>5. j \in Job /\ j.at = After[k] /\ j.run = r /\ j.done = job[w].done
      /\ j.todo = job[w].todo \o Chunks(r, k, files[r][k])
  BY <1>1, <1>3, <1>4 DEF Job
<1>6. job' = [job EXCEPT ![w] = j]
  BY <1>1, JobType DEF Read, Job
<1> HIDE DEF j
<1>7. j.at \notin {"idle", "insert"}
  BY <1>3, <1>5 DEF Kinds
<1> QED
  BY <1>5, <1>6, <1>7

\* The replacement's position and its statements.
LEMMA ReplaceType ==
  ASSUME TypeOK, NEW w \in Indexers, BeginReplace(w) \/ Insert(w)
  PROVE  TypeOK'
<1>1. job[w] \in Job /\ job \in [Indexers -> Job]
  BY JobType
<1>2. CASE BeginReplace(w)
  <2> DEFINE j == [job[w] EXCEPT !.at = "insert"]
  <2>1. j \in Job /\ job' = [job EXCEPT ![w] = j]
    BY <1>1, <1>2 DEF BeginReplace, Job
  <2>2. job' \in [Indexers -> Job]
    BY <1>1, <2>1, Updated
  <2>3. OneHolder'
    BY <1>1, <1>2 DEF BeginReplace, OneHolder, LockFree
  <2>4. chunks' \in SUBSET Chunk
    BY <1>2 DEF BeginReplace, TypeOK
  <2> QED
    BY <1>2, <2>2, <2>3, <2>4 DEF BeginReplace, TypeOK, Job, disk, history
<1>3. CASE Insert(w)
  <2> DEFINE j == [job[w] EXCEPT !.done = @ + 1]
  <2>1. j \in Job /\ job' = [job EXCEPT ![w] = j]
    <3>1. job[w].done + 1 \in Nat
      BY <1>1 DEF Job
    <3>2. j \in Job
      BY <1>1, <3>1 DEF Job
    <3> QED
      BY <1>1, <1>3, <3>2 DEF Insert
  <2>2. job' \in [Indexers -> Job]
    BY <1>1, <2>1, Updated
  <2>3. OneHolder'
    BY <1>1, <1>3 DEF Insert, OneHolder, TypeOK
  <2>4. job[w].todo[job[w].done + 1] \in Chunk
    BY <1>1, <1>3 DEF Insert, Job
  <2>5. chunks' \in SUBSET Chunk
    BY <1>3, <2>4 DEF Insert, TypeOK, Upserted
  <2> QED
    BY <1>3, <2>2, <2>3, <2>5 DEF Insert, TypeOK, Job, disk, history
<1> QED
  BY <1>2, <1>3

\* Deletions and removals.
LEMMA DeletionType ==
  ASSUME TypeOK, NEW r \in Runs, Deletion(r)
  PROVE  TypeOK'
<1>1. CASE DeleteLookup(r)
  BY <1>1 DEF DeleteLookup, TypeOK, OneHolder, table, disk, history
<1>2. CASE DeleteRow(r)
  <2>1. OneHolder'
    BY <1>2 DEF DeleteRow, OneHolder, LockFree
  <2> QED
    BY <1>2, <2>1 DEF DeleteRow, TypeOK, disk
<1>3. CASE DeleteChunks(r)
  <2>1. OneHolder'
    BY <1>3 DEF DeleteChunks, OneHolder, TypeOK
  <2> QED
    BY <1>3, <2>1 DEF DeleteChunks, TypeOK, disk, history
<1>4. CASE Remove(r)
  <2>1. Nothing \in [Kinds -> Seq(Titles)]
    BY DEF Nothing
  <2>2. files' \in [Runs -> [Kinds -> Seq(Titles)]]
    BY <1>4, <2>1, Updated DEF Remove, Removal, TypeOK
  <2> QED
    BY <1>4, <2>2 DEF Remove, Removal, TypeOK, OneHolder, table, threads
<1> QED
  BY <1>1, <1>2, <1>3, <1>4 DEF Deletion

\* A reading that a removal makes fail.
LEMMA ReadRaisesType ==
  ASSUME TypeOK, IndexedKnown, NEW w \in Indexers, ReadRaises(w)
  PROVE  TypeOK'
<1>1. Nothing \in [Kinds -> Seq(Titles)] /\ job[w].run \in Runs
  BY DEF Nothing, ReadRaises, IndexedKnown, Kinds
<1>2. files' \in [Runs -> [Kinds -> Seq(Titles)]]
  BY <1>1, Updated DEF ReadRaises, Removal, TypeOK
<1>3. job' \in [Indexers -> Job]
  BY JobType, Updated DEF ReadRaises
<1>4. OneHolder'
  BY JobType DEF ReadRaises, Idle, Task, OneHolder, TypeOK
<1> QED
  BY <1>1, <1>2, <1>3, <1>4 DEF ReadRaises, Removal, TypeOK, Job, table, history

\* Nothing runs after a crash.
LEMMA CrashType ==
  ASSUME TypeOK, IndexedKnown, Crash
  PROVE  TypeOK'
<1>1. {job[w].run : w \in {v \in Indexers : job[v].at = "insert"}} \subseteq Runs
  BY DEF IndexedKnown
<1>2. job' = [w \in Indexers |-> Idle] /\ job' \in [Indexers -> Job]
  BY JobType DEF Crash, Job, Idle, Task
<1>3. stage' \in [Runs -> {"new", "working", "indexing", "over"}]
  BY DEF Crash, TypeOK
<1>4. torn' \in SUBSET Runs
  BY <1>1 DEF Crash, TypeOK
<1>5. OneHolder'
  BY <1>2 DEF Crash, OneHolder, Idle, Task
<1> QED
  BY <1>2, <1>3, <1>4, <1>5 DEF Crash, TypeOK, Job, table, disk

-----------------------------------------------------------------------------
(* The rest of the invariant, one action at a time.                         *)

\* Steps about rows and chunks leave the jobs' own facts alone.
LEMMA JobsKept ==
  ASSUME IndexInv, UNCHANGED job
  PROVE  TodoOfRun'
BY DEF IndexInv, TodoOfRun

\* A replacement under way is disturbed by nobody who needs the lock.
LEMMA ProgressKept ==
  ASSUME IndexInv, UNCHANGED job, LockFree \/ chunks' = chunks
  PROVE  Progress'
BY DEF IndexInv, Progress, LockFree, ChunksOf

\* A run is created, or ends.
LEMMA RowInv ==
  ASSUME IndexInv, NEW r \in Runs, Create(r) \/ End(r)
  PROVE  IndexInv'
<1>1. /\ rows' = rows \cup {r}
      /\ UNCHANGED <<chunks, job, cascading, overtaken, torn>>
      /\ \A q \in Runs : stage'[q] \in {"working", "indexing"} =>
           q = r \/ stage[q] \in {"working", "indexing"}
  BY DEF IndexInv, TypeOK, Create, End, threads, history
<1>2. TypeOK'
  BY RowType DEF IndexInv
<1>3. ExecutingKnown'
  BY <1>1 DEF IndexInv, ExecutingKnown
<1>4. IndexedKnown' /\ ChunksKnown'
  BY <1>1 DEF IndexInv, IndexedKnown, ChunksKnown
<1> QED
  BY <1>1, <1>2, <1>3, <1>4, JobsKept, ProgressKept DEF IndexInv

\* A thread's job becomes one that is not inserting, about a run that is known.
LEMMA JobInv ==
  ASSUME IndexInv, TypeOK', NEW w \in Indexers, NEW j \in Job, job' = [job EXCEPT ![w] = j],
         j.at # "insert", j.at # "idle" => j.run \in Runs /\ j.run \in rows \cup overtaken,
         j.done = 0, \A n \in DOMAIN j.todo : j.todo[n].run = j.run,
         UNCHANGED <<rows, chunks, cascading, overtaken, torn>>,
         \A q \in Runs : stage'[q] \in {"working", "indexing"} => stage[q] \in {"working", "indexing"}
  PROVE  IndexInv'
<1>1. job \in [Indexers -> Job]
  BY JobType DEF IndexInv
<1>2. job'[w] = j /\ \A v \in Indexers \ {w} : job'[v] = job[v]
  BY <1>1
<1>3. ExecutingKnown' /\ ChunksKnown'
  BY DEF IndexInv, ExecutingKnown, ChunksKnown
<1>4. IndexedKnown'
  BY <1>2 DEF IndexInv, IndexedKnown
<1>5. TodoOfRun'
  <2>1. Len(j.todo) \in Nat
    BY DEF Job
  <2> QED
    BY <1>2, <2>1 DEF IndexInv, TodoOfRun
<1>6. Progress'
  BY <1>2 DEF IndexInv, Progress, ChunksOf
<1> QED
  BY <1>3, <1>4, <1>5, <1>6 DEF IndexInv

\* The kb phase of a run begins.
LEMMA DeliverInv ==
  ASSUME IndexInv, NEW r \in Runs, Deliver(r)
  PROVE  IndexInv'
<1>1. PICK artifacts \in Contents :
        job' = [job EXCEPT ![r] = Task(r, "fdd", Chunks(r, "analysis", artifacts["analysis"]))]
  BY DEF Deliver
<1> DEFINE todo == Chunks(r, "analysis", artifacts["analysis"])
           j == Task(r, "fdd", todo)
<1>2. todo \in Seq(Chunk) /\ \A n \in DOMAIN todo : todo[n].run = r
  <2>1. "analysis" \in Kinds /\ artifacts["analysis"] \in Seq(Titles)
    BY KnowledgeAssumption DEF Kinds
  <2> QED
    BY <2>1, ChunksType
<1>3. TypeOK' /\ r \in Indexers
  BY DeliverType DEF IndexInv, Indexers
<1>4. stage[r] = "working" /\ stage' = [stage EXCEPT ![r] = "indexing"]
      /\ UNCHANGED <<rows, chunks, cascading, overtaken, torn>>
  BY DEF Deliver, table
<1>5. r \in rows \cup overtaken
  BY <1>4 DEF IndexInv, ExecutingKnown
<1>6. \A q \in Runs : stage'[q] \in {"working", "indexing"} => stage[q] \in {"working", "indexing"}
  BY <1>4 DEF IndexInv, TypeOK
<1> HIDE DEF todo
<1>7. j \in Job /\ j.at = "fdd" /\ j.run = r /\ j.done = 0 /\ j.todo = todo
  BY <1>2 DEF Task, Job, Kinds
<1>8. job' = [job EXCEPT ![r] = j]
  BY <1>1 DEF todo
<1> HIDE DEF j
<1> QED
  BY <1>2, <1>3, <1>4, <1>5, <1>6, <1>7, <1>8, JobInv

\* A re-indexing begins.
LEMMA ReindexInv ==
  ASSUME IndexInv, NEW w \in Reindexers, NEW r \in Runs, Reindex(w, r)
  PROVE  IndexInv'
<1> DEFINE j == Task(r, "analysis", <<>>)
<1>1. j \in Job /\ j.at = "analysis" /\ j.run = r /\ j.done = 0 /\ j.todo = <<>>
  BY DEF Task, Job, Kinds
<1>2. w \in Indexers /\ r \in rows /\ job' = [job EXCEPT ![w] = j]
  BY DEF Reindex, Indexers
<1>3. UNCHANGED <<stage, table, disk, deleting, cascading, crashes, content, overtaken, torn>>
  BY DEF Reindex
<1>4. early' \in SUBSET Runs
  BY DEF Reindex, IndexInv, TypeOK
<1> HIDE DEF j
<1>5. TypeOK'
  BY <1>1, <1>2, <1>3, <1>4, OwnJobType DEF IndexInv
<1>6. \A n \in DOMAIN j.todo : j.todo[n].run = j.run
  BY <1>1
<1>7. UNCHANGED <<rows, chunks, stage, cascading, overtaken, torn>>
  BY <1>3 DEF table
<1> QED
  BY <1>1, <1>2, <1>5, <1>6, <1>7, JobInv

\* A file is read, and what it gives is added to what the thread has gathered.
LEMMA ReadInv ==
  ASSUME IndexInv, NEW w \in Indexers, Read(w)
  PROVE  IndexInv'
<1> DEFINE r == job[w].run
           more == Chunks(r, job[w].at, files[r][job[w].at])
<1>1. PICK j \in Job :
        /\ job' = [job EXCEPT ![w] = j]
        /\ j.at \notin {"idle", "insert"} /\ j.run = r /\ j.done = job[w].done
        /\ j.todo = job[w].todo \o more
  BY ReadJob DEF IndexInv
<1>2. job[w] \in Job /\ job[w].at \in Kinds /\ job[w].at \notin {"idle", "insert"}
  BY JobType DEF IndexInv, Read, Kinds
<1>3. r \in Runs /\ r \in rows \cup overtaken
  BY <1>2 DEF IndexInv, IndexedKnown
<1>4. more \in Seq(Chunk) /\ \A n \in DOMAIN more : more[n].run = r
  BY <1>2, <1>3, ChunksType DEF IndexInv, TypeOK
<1>5. \A n \in DOMAIN j.todo : j.todo[n].run = j.run
  <2>1. job[w].todo \in Seq(Chunk) /\ \A n \in DOMAIN job[w].todo : job[w].todo[n].run = r
    BY <1>2 DEF Job, IndexInv, TodoOfRun
  <2> HIDE DEF more
  <2> QED
    BY <1>1, <1>4, <2>1
<1>6. j.done = 0
  BY <1>1, <1>2 DEF IndexInv, TodoOfRun
<1>7. UNCHANGED <<stage, table, disk, deleting, cascading, crashes, history>>
  BY DEF Read
<1> HIDE DEF more
<1>8. TypeOK'
  BY <1>1, <1>7, OwnJobType DEF IndexInv, TypeOK, history
<1> QED
  BY <1>1, <1>3, <1>5, <1>6, <1>7, <1>8, JobInv DEF table, history

\* An indexing that is idle again, after its last statement or a failed reading.
LEMMA IdleInv ==
  ASSUME IndexInv, TypeOK', NEW w \in Indexers, job' = [job EXCEPT ![w] = Idle],
         UNCHANGED <<stage, rows, chunks, cascading, overtaken, torn>>
  PROVE  IndexInv'
<1>1. /\ Idle \in Job /\ Idle.at = "idle" /\ Idle.done = 0
      /\ \A n \in DOMAIN Idle.todo : Idle.todo[n].run = Idle.run
  BY JobType DEF IndexInv, Idle, Task
<1> QED
  BY <1>1, JobInv

\* The lock is taken and the chunks of the run are deleted.
LEMMA BeginReplaceInv ==
  ASSUME IndexInv, NEW w \in Indexers, BeginReplace(w)
  PROVE  IndexInv'
<1>1. job[w] \in Job /\ job \in [Indexers -> Job]
  BY JobType DEF IndexInv
<1>2. /\ job'[w].at = "insert" /\ job'[w].run = job[w].run /\ job'[w].todo = job[w].todo
      /\ job'[w].done = 0
      /\ \A v \in Indexers \ {w} : job'[v] = job[v] /\ job[v].at # "insert"
      /\ job[w].at = "replace"
      /\ UNCHANGED <<stage, rows, cascading, overtaken, torn>>
  BY <1>1 DEF BeginReplace, LockFree, Job, IndexInv, TodoOfRun, history
<1>3. TypeOK'
  BY ReplaceType DEF IndexInv
<1>4. ExecutingKnown' /\ IndexedKnown'
  BY <1>2 DEF IndexInv, ExecutingKnown, IndexedKnown
<1>5. ChunksKnown'
  BY <1>2 DEF IndexInv, ChunksKnown, BeginReplace
<1>6. TodoOfRun'
  BY <1>2 DEF IndexInv, TodoOfRun
<1>7. Progress'
  <2>1. \A r : ChunksOf(r)' = ChunksOf(r) \ ChunksOf(job[w].run)
    BY DEF ChunksOf, BeginReplace
  <2>2. StoredUpTo(job[w].todo, 0) = {}
    BY DEF StoredUpTo
  <2> QED
    BY <1>2, <2>1, <2>2 DEF Progress
<1> QED
  BY <1>3, <1>4, <1>5, <1>6, <1>7 DEF IndexInv

\* One more chunk is inserted.
LEMMA InsertInv ==
  ASSUME IndexInv, NEW w \in Indexers, Insert(w)
  PROVE  IndexInv'
<1> DEFINE r == job[w].run
           n == job[w].done
           c == job[w].todo[n + 1]
<1>1. job[w] \in Job /\ job \in [Indexers -> Job] /\ job[w].at = "insert" /\ n < Len(job[w].todo)
  BY JobType DEF IndexInv, Insert
<1>2. /\ job'[w].at = "insert" /\ job'[w].run = r /\ job'[w].todo = job[w].todo
      /\ job'[w].done = n + 1
      /\ \A v \in Indexers \ {w} : job'[v] = job[v] /\ job[v].at # "insert"
      /\ UNCHANGED <<stage, rows, cascading, overtaken, torn>>
  BY <1>1 DEF Insert, Job, IndexInv, TypeOK, OneHolder, history
<1>3. n \in Nat /\ Len(job[w].todo) \in Nat /\ n + 1 \in DOMAIN job[w].todo
  BY <1>1 DEF Job
<1>4. c.run = r
  BY <1>3 DEF IndexInv, TodoOfRun
<1>5. r \in rows \cup overtaken
  BY <1>1 DEF IndexInv, IndexedKnown
<1>6. chunks' = {d \in chunks : ChunkId(d) # ChunkId(c)} \cup {c}
  BY DEF Insert, Upserted
<1>7. TypeOK'
  BY ReplaceType DEF IndexInv
<1>8. ExecutingKnown' /\ IndexedKnown'
  BY <1>1, <1>2 DEF IndexInv, ExecutingKnown, IndexedKnown
<1>9. ChunksKnown'
  BY <1>2, <1>4, <1>5, <1>6 DEF IndexInv, ChunksKnown
<1>10. TodoOfRun'
  BY <1>2, <1>3 DEF IndexInv, TodoOfRun
<1>11. Progress'
  <2>1. {d \in chunks' : d.run = r} = Upserted(ChunksOf(r), c)
    BY <1>4, <1>6 DEF ChunksOf, Upserted
  <2>2. ChunksOf(r) = StoredUpTo(job[w].todo, n)
    BY <1>1 DEF IndexInv, Progress
  <2>3. Upserted(StoredUpTo(job[w].todo, n), c) = StoredUpTo(job[w].todo, n + 1)
    BY <1>1, <1>3, OneMore DEF Job
  <2>4. {d \in chunks' : d.run = r} = StoredUpTo(job[w].todo, n + 1)
    BY <2>1, <2>2, <2>3
  <2> QED
    BY <1>2, <2>4 DEF Progress, ChunksOf
<1> QED
  BY <1>7, <1>8, <1>9, <1>10, <1>11 DEF IndexInv

\* A deletion, a removal.
LEMMA DeletionInv ==
  ASSUME IndexInv, NEW r \in Runs, Deletion(r)
  PROVE  IndexInv'
<1>1. TypeOK' /\ TypeOK
  BY DeletionType DEF IndexInv
<1>2. UNCHANGED <<job, stage, torn>>
  BY DEF Deletion, DeleteLookup, DeleteRow, DeleteChunks, Remove, threads, history
<1>3. CASE DeleteLookup(r) \/ Remove(r)
  <2>1. UNCHANGED <<rows, chunks, cascading, overtaken>>
    BY <1>3 DEF DeleteLookup, Remove, table, threads, history
  <2>2. ExecutingKnown' /\ IndexedKnown' /\ ChunksKnown'
    BY <1>2, <2>1 DEF IndexInv, ExecutingKnown, IndexedKnown, ChunksKnown
  <2> QED
    BY <1>1, <1>2, <2>1, <2>2, JobsKept, ProgressKept DEF IndexInv
<1>4. CASE DeleteRow(r)
  <2>1. /\ rows' = rows \ {r} /\ cascading' = {r} /\ cascading = {} /\ chunks' = chunks
        /\ overtaken \subseteq overtaken'
        /\ Active(r) # {} \/ stage[r] # "over" => r \in overtaken'
    BY <1>4 DEF DeleteRow, LockFree
  <2>2. ExecutingKnown'
    BY <1>2, <2>1 DEF IndexInv, ExecutingKnown
  <2>3. IndexedKnown'
    BY <1>2, <2>1 DEF IndexInv, IndexedKnown, Active
  <2>4. ChunksKnown'
    BY <1>2, <2>1 DEF IndexInv, ChunksKnown
  <2> QED
    BY <1>1, <1>2, <2>1, <2>2, <2>3, <2>4, JobsKept, ProgressKept DEF IndexInv
<1>5. CASE DeleteChunks(r)
  <2>1. /\ r \in cascading /\ chunks' = chunks \ ChunksOf(r) /\ cascading' = {}
        /\ UNCHANGED <<rows, overtaken>>
    BY <1>5 DEF DeleteChunks, history
  <2>2. \A q \in cascading : q = r
    BY <1>1, <2>1 DEF TypeOK, OneHolder
  <2>3. ExecutingKnown' /\ IndexedKnown'
    BY <1>2, <2>1 DEF IndexInv, ExecutingKnown, IndexedKnown
  <2>4. ChunksKnown'
    BY <1>2, <2>1, <2>2 DEF IndexInv, ChunksKnown, ChunksOf
  <2>5. \A w \in Indexers : job[w].at # "insert"
    BY <1>1, <2>1 DEF TypeOK, OneHolder
  <2>6. Progress'
    BY <1>2, <2>5 DEF Progress
  <2> QED
    BY <1>1, <1>2, <2>3, <2>4, <2>6, JobsKept DEF IndexInv
<1> QED
  BY <1>3, <1>4, <1>5 DEF Deletion

\* A crash leaves what the database holds, and says what it has torn.
LEMMA CrashInv ==
  ASSUME IndexInv, Crash
  PROVE  IndexInv'
<1>1. TypeOK'
  BY CrashType DEF IndexInv
<1>2. /\ \A w \in Indexers : job'[w] = Idle
      /\ cascading' = {} /\ cascading \subseteq torn' /\ torn \subseteq torn'
      /\ UNCHANGED <<rows, chunks, overtaken>>
      /\ \A r \in Runs : stage'[r] \in {"new", "over"}
  BY DEF Crash, table
<1>3. ExecutingKnown'
  BY <1>2 DEF ExecutingKnown
<1>4. IndexedKnown' /\ Progress' /\ TodoOfRun'
  BY <1>2 DEF IndexedKnown, Progress, TodoOfRun, Idle, Task
<1>5. ChunksKnown'
  BY <1>2 DEF IndexInv, ChunksKnown
<1> QED
  BY <1>1, <1>3, <1>4, <1>5 DEF IndexInv

\* Every step keeps the invariant.
LEMMA IndexStep ==
  ASSUME IndexInv, [Next]_vars
  PROVE  IndexInv'
<1>1. CASE Next
  <2>1. ASSUME NEW r \in Runs, Create(r) \/ Deliver(r) \/ End(r) \/ Deletion(r)
        PROVE  IndexInv'
    BY <2>1, RowInv, DeliverInv, DeletionInv
  <2>2. ASSUME NEW w \in Reindexers, NEW r \in Runs, Reindex(w, r)
        PROVE  IndexInv'
    BY <2>2, ReindexInv
  <2>3. ASSUME NEW w \in Indexers, Indexing(w)
        PROVE  IndexInv'
    <3>1. CASE Read(w)
      BY <3>1, ReadInv
    <3>2. CASE BeginReplace(w)
      BY <3>2, BeginReplaceInv
    <3>3. CASE Insert(w)
      BY <3>3, InsertInv
    <3>4. CASE EndReplace(w)
      <4>1. TypeOK'
        BY <3>4, JobType, OwnJobType DEF EndReplace, IndexInv, TypeOK, Idle, Task, history
      <4> QED
        BY <3>4, <4>1, IdleInv DEF EndReplace, table, history
    <3>5. CASE ReadRaises(w)
      <4>1. TypeOK'
        BY <3>5, ReadRaisesType DEF IndexInv
      <4> QED
        BY <3>5, <4>1, IdleInv DEF ReadRaises, table, history
    <3> QED
      BY <2>3, <3>1, <3>2, <3>3, <3>4, <3>5 DEF Indexing
  <2> QED
    BY <1>1, <2>1, <2>2, <2>3, CrashInv DEF Next
<1>2. CASE UNCHANGED vars
  BY <1>2 DEF vars, table, disk, threads, history, IndexInv, TypeOK, OneHolder, ExecutingKnown,
              IndexedKnown, ChunksKnown, TodoOfRun, Progress, ChunksOf
<1> QED
  BY <1>1, <1>2

\* It holds at first.
LEMMA IndexInit ==
  ASSUME Init
  PROVE  IndexInv
<1>1. TypeOK
  <2>1. Nothing \in [Kinds -> Seq(Titles)]
    BY DEF Nothing
  <2>2. job \in [Indexers -> [run : Runs \cup {"none"}, todo : Seq(Chunk), done : Nat,
                              at : {"idle", "replace", "insert"} \cup Kinds]]
    BY DEF Init, Idle, Task
  <2> QED
    BY <2>1, <2>2 DEF Init, TypeOK, OneHolder, Idle, Task
<1>2. ExecutingKnown /\ IndexedKnown /\ ChunksKnown /\ TodoOfRun /\ Progress
  BY DEF Init, Idle, Task, ExecutingKnown, IndexedKnown, ChunksKnown, TodoOfRun, Progress
<1> QED
  BY <1>1, <1>2 DEF IndexInv

-----------------------------------------------------------------------------
(* Theorems.                                                                *)

\* The invariant holds always.
THEOREM Invariance == Spec => []IndexInv
BY IndexInit, IndexStep, PTL DEF Spec

\* Every variable of the knowledge base keeps its type, and the database lock has
\* at most one holder.
THEOREM TypeCorrect == Spec => []TypeOK
<1>1. IndexInv => TypeOK
  BY DEF IndexInv
<1> QED
  BY <1>1, Invariance, PTL

\* Deletion cascades, except over an execution, an indexing or a crash: no other
\* chunk outlives its run.
THEOREM DeletionCascades == Spec => []OrphansExplained
<1>1. IndexInv => OrphansExplained
  BY DEF IndexInv, ChunksKnown, OrphansExplained, LockFree
<1> QED
  BY <1>1, Invariance, PTL

\* A replacement that ends leaves exactly what its indexing has read, whatever the
\* table held before and whoever else uses it.
THEOREM ReplacementExact == Spec => ReplaceIsExact
<1>1. ASSUME IndexInv, NEW w \in Indexers, EndReplace(w)
      PROVE  ChunksOf(job[w].run) = Stored(job[w].todo)
  <2>1. job[w].todo \in Seq(Chunk)
    BY <1>1, JobType DEF IndexInv, Job
  <2>2. ChunksOf(job[w].run) = StoredUpTo(job[w].todo, Len(job[w].todo))
    BY <1>1 DEF IndexInv, Progress, EndReplace
  <2> QED
    BY <2>1, <2>2, AllStored
<1>2. IndexInv => \A w \in Indexers : EndReplace(w) => ChunksOf(job[w].run) = Stored(job[w].todo)
  BY <1>1
<1> QED
  BY <1>2, Invariance, PTL DEF ReplaceIsExact

-----------------------------------------------------------------------------
(* A query never sees half of an indexing.  This needs to know what threads *)
(* have gathered at each point of their reading.                            *)

Delivered(r, k) == Chunks(r, k, content[r][k])

Gathered(r, at) ==
  IF at = "analysis" THEN <<>>
  ELSE IF at = "fdd" THEN Delivered(r, "analysis")
  ELSE IF at = "test_case" THEN Delivered(r, "analysis") \o Delivered(r, "fdd")
  ELSE IF at = "data_mapping"
    THEN (Delivered(r, "analysis") \o Delivered(r, "fdd")) \o Delivered(r, "test_case")
  ELSE ((Delivered(r, "analysis") \o Delivered(r, "fdd")) \o Delivered(r, "test_case"))
         \o Delivered(r, "data_mapping")

\* Only removals change what a run has delivered.
FilesKept == \A r \in Runs \ emptied : files[r] = content[r]

\* Before it delivers nothing is known of a run, unless it is re-indexed too early.
NotYet ==
  \A r \in Runs :
    /\ stage[r] = "new" => r \notin rows
    /\ stage[r] \in {"new", "working"} /\ r \notin early => ChunksOf(r) = {} /\ Active(r) = {}

GatheredWhole ==
  \A w \in Indexers :
    job[w].at # "idle" /\ job[w].run \notin emptied \cup early =>
      job[w].todo = Gathered(job[w].run, job[w].at)

\* Half an index is one that is being written.
WholeOrWritten ==
  \A r \in Runs \ (torn \cup emptied \cup early) :
    \/ ChunksOf(r) \in {{}, Evidence(r)}
    \/ \E w \in Indexers : job[w].at = "insert" /\ job[w].run = r

\* The thread a run starts works for that run.
OwnJob == \A r \in Runs : job[r].at # "idle" => job[r].run = r

WholeInv == FilesKept /\ OwnJob /\ NotYet /\ GatheredWhole /\ WholeOrWritten

\* Chunks of different kinds never replace one another.
LEMMA StoredConcat ==
  ASSUME NEW S, NEW s \in Seq(S), NEW t \in Seq(S),
         \A i \in DOMAIN s : \A j \in DOMAIN t : s[i].kind # t[j].kind
  PROVE  Stored(s \o t) = Stored(s) \cup Stored(t)
<1> DEFINE u == s \o t
<1>1. /\ Len(s) \in Nat /\ Len(t) \in Nat /\ Len(u) = Len(s) + Len(t)
      /\ DOMAIN s = 1 .. Len(s) /\ DOMAIN t = 1 .. Len(t) /\ DOMAIN u = 1 .. Len(s) + Len(t)
      /\ \A i \in 1 .. Len(s) : u[i] = s[i]
      /\ \A j \in 1 .. Len(t) : u[Len(s) + j] = t[j]
  OBVIOUS
<1>2. \A i \in DOMAIN s : \A j \in DOMAIN t : ChunkId(s[i]) # ChunkId(t[j])
  BY DEF ChunkId
<1> HIDE DEF u
<1>3. \A n \in DOMAIN u : n \in DOMAIN s \/ (n - Len(s) \in DOMAIN t /\ n = Len(s) + (n - Len(s)))
  BY <1>1
<1> DEFINE lastOf(q) == {i \in DOMAIN q : \A j \in DOMAIN q : ChunkId(q[j]) = ChunkId(q[i]) => j <= i}
<1>4. \A i \in DOMAIN s : i \in lastOf(u) <=> i \in lastOf(s)
  BY <1>1, <1>2, <1>3
<1>5. \A j \in DOMAIN t : Len(s) + j \in lastOf(u) <=> j \in lastOf(t)
  <2> TAKE j \in DOMAIN t
  <2>1. ASSUME Len(s) + j \in lastOf(u)
        PROVE  j \in lastOf(t)
    BY <1>1, <2>1
  <2>2. ASSUME j \in lastOf(t)
        PROVE  Len(s) + j \in lastOf(u)
    <3>1. Len(s) + j \in DOMAIN u /\ u[Len(s) + j] = t[j]
      BY <1>1
    <3>2. ASSUME NEW n \in DOMAIN u, ChunkId(u[n]) = ChunkId(t[j])
          PROVE  n <= Len(s) + j
      <4>1. CASE n \in DOMAIN s
        BY <1>1, <1>2, <3>2, <4>1
      <4>2. CASE n - Len(s) \in DOMAIN t /\ n = Len(s) + (n - Len(s))
        <5>1. u[n] = t[n - Len(s)]
          BY <1>1, <4>2
        <5>2. n - Len(s) <= j
          BY <2>2, <3>2, <4>2, <5>1
        <5> QED
          BY <1>1, <4>2, <5>2
      <4> QED
        BY <1>3, <4>1, <4>2
    <3> QED
      BY <3>1, <3>2
  <2> QED
    BY <2>1, <2>2
<1>6. \A q : Stored(q) = {q[i] : i \in lastOf(q)}
  BY DEF Stored
<1>7. lastOf(u) \subseteq DOMAIN u /\ lastOf(s) \subseteq DOMAIN s /\ lastOf(t) \subseteq DOMAIN t
  OBVIOUS
<1> HIDE DEF lastOf
<1>8. Stored(u) \subseteq Stored(s) \cup Stored(t)
  <2> SUFFICES ASSUME NEW n \in lastOf(u)
               PROVE  u[n] \in Stored(s) \cup Stored(t)
    BY <1>6
  <2>1. CASE n \in DOMAIN s
    BY <1>1, <1>4, <1>6, <2>1
  <2>2. CASE n - Len(s) \in DOMAIN t /\ n = Len(s) + (n - Len(s))
    <3>1. n - Len(s) \in lastOf(t) /\ u[n] = t[n - Len(s)]
      BY <1>1, <1>5, <2>2
    <3> QED
      BY <1>6, <3>1
  <2> QED
    BY <1>3, <1>7, <2>1, <2>2
<1>9. Stored(s) \subseteq Stored(u)
  BY <1>1, <1>4, <1>6, <1>7
<1>10. Stored(t) \subseteq Stored(u)
  <2> SUFFICES ASSUME NEW j \in lastOf(t)
               PROVE  t[j] \in Stored(u)
    BY <1>6
  <2>1. Len(s) + j \in lastOf(u) /\ u[Len(s) + j] = t[j]
    BY <1>1, <1>5, <1>7
  <2> QED
    BY <1>6, <2>1
<1> QED
  BY <1>8, <1>9, <1>10 DEF u

\* What a run has delivered of a kind are chunks of that kind.
LEMMA DeliveredType ==
  ASSUME TypeOK, NEW r \in Runs, NEW k \in Kinds
  PROVE  /\ Delivered(r, k) \in Seq(Chunk)
         /\ \A n \in DOMAIN Delivered(r, k) : Delivered(r, k)[n].kind = k
<1>1. content[r][k] \in Seq(Titles)
  BY DEF TypeOK
<1>2. Delivered(r, k) \in Seq(Chunk)
  BY <1>1, ChunksType DEF Delivered
<1>3. \A n \in DOMAIN Delivered(r, k) : Delivered(r, k)[n].kind = k
  BY <1>1 DEF Delivered, Chunks
<1> QED
  BY <1>2, <1>3

\* An indexing that has read every file undisturbed stores the evidence of its run.
LEMMA AllGathered ==
  ASSUME TypeOK, NEW r \in Runs
  PROVE  Stored(Gathered(r, "insert")) = Evidence(r)
<1> DEFINE a == Delivered(r, "analysis")
           f == Delivered(r, "fdd")
           t == Delivered(r, "test_case")
           d == Delivered(r, "data_mapping")
           Of(q, kinds) == q \in Seq(Chunk) /\ \A n \in DOMAIN q : q[n].kind \in kinds
<1>1. ASSUME NEW p, NEW q, NEW K, NEW L, Of(p, K), Of(q, L), K \cap L = {}
      PROVE  Of(p \o q, K \cup L) /\ Stored(p \o q) = Stored(p) \cup Stored(q)
  <2>1. \A i \in DOMAIN p : \A j \in DOMAIN q : p[i].kind # q[j].kind
    BY <1>1
  <2>2. p \in Seq(Chunk) /\ q \in Seq(Chunk)
    BY <1>1
  <2>3. Stored(p \o q) = Stored(p) \cup Stored(q)
    BY <2>1, <2>2, StoredConcat
  <2>4. \A n \in DOMAIN (p \o q) : (p \o q)[n].kind \in K \cup L
    BY <1>1, <2>2
  <2> QED
    BY <2>2, <2>3, <2>4
<1>2. Of(a, {"analysis"}) /\ Of(f, {"fdd"}) /\ Of(t, {"test_case"}) /\ Of(d, {"data_mapping"})
  BY DeliveredType DEF Kinds
<1> HIDE DEF a, f, t, d, Of
<1> DEFINE K1 == {"analysis"}
           K2 == K1 \cup {"fdd"}
           K3 == K2 \cup {"test_case"}
<1>d. K1 \cap {"fdd"} = {} /\ K2 \cap {"test_case"} = {} /\ K3 \cap {"data_mapping"} = {}
  OBVIOUS
<1>s. Of(a, K1)
  BY <1>2
<1> HIDE DEF K1
<1>3. Of(a \o f, K2) /\ Stored(a \o f) = Stored(a) \cup Stored(f)
  BY <1>1, <1>2, <1>d, <1>s
<1> HIDE DEF K2
<1>4. Of((a \o f) \o t, K3) /\ Stored((a \o f) \o t) = Stored(a \o f) \cup Stored(t)
  BY <1>1, <1>2, <1>3, <1>d
<1> HIDE DEF K3
<1>5. Stored(((a \o f) \o t) \o d) = Stored((a \o f) \o t) \cup Stored(d)
  BY <1>1, <1>2, <1>4, <1>d
<1>6. Gathered(r, "insert") = ((a \o f) \o t) \o d
  BY DEF Gathered, a, f, t, d
<1>7. Evidence(r) = Stored(a) \cup Stored(f) \cup Stored(t) \cup Stored(d)
  BY DEF Evidence, Kinds, Delivered, a, f, t, d
<1> QED
  BY <1>3, <1>4, <1>5, <1>6, <1>7

\* Reading the next file undisturbed leads to what is gathered at the next position.
LEMMA GatheredNext ==
  ASSUME TypeOK, NEW r \in Runs, NEW k \in Kinds
  PROVE  Gathered(r, k) \o Delivered(r, k) = Gathered(r, After[k])
<1>1. CASE k = "analysis"
  <2>1. Delivered(r, k) \in Seq(Chunk)
    BY DeliveredType
  <2>2. Gathered(r, k) = <<>> /\ Gathered(r, After[k]) = Delivered(r, k)
    BY <1>1 DEF Gathered, After
  <2> QED
    BY <2>1, <2>2
<1>2. CASE k = "fdd"
  BY <1>2 DEF Gathered, After
<1>3. CASE k = "test_case"
  BY <1>3 DEF Gathered, After
<1>4. CASE k = "data_mapping"
  BY <1>4 DEF Gathered, After
<1> QED
  BY <1>1, <1>2, <1>3, <1>4 DEF Kinds

\* The evidence of a run, and what threads gather, depend on what it delivered.
LEMMA SameContent ==
  ASSUME NEW r \in Runs, content'[r] = content[r]
  PROVE  Evidence(r)' = Evidence(r) /\ \A at : Gathered(r, at)' = Gathered(r, at)
BY DEF Evidence, Gathered, Delivered

\* A run is created, or ends.
LEMMA RowWhole ==
  ASSUME IndexInv, WholeInv, NEW r \in Runs, Create(r) \/ End(r)
  PROVE  WholeInv'
<1>1. /\ rows' = rows \cup {r} /\ stage'[r] # "new"
      /\ stage'[r] = "working" => stage[r] = "new"
      /\ \A q \in Runs \ {r} : stage'[q] = stage[q]
      /\ UNCHANGED <<chunks, files, job, emptied, early, torn, content>>
  BY DEF IndexInv, TypeOK, Create, End, threads, history, disk
<1>2. FilesKept' /\ OwnJob' /\ GatheredWhole' /\ WholeOrWritten'
  BY <1>1, SameContent DEF WholeInv, FilesKept, OwnJob, GatheredWhole, WholeOrWritten, ChunksOf,
                           IndexInv, IndexedKnown
<1>3. NotYet'
  BY <1>1 DEF WholeInv, NotYet, ChunksOf, Active
<1> QED
  BY <1>2, <1>3 DEF WholeInv

\* The kb phase of a run begins.
LEMMA DeliverWhole ==
  ASSUME IndexInv, WholeInv, NEW r \in Runs, Deliver(r)
  PROVE  WholeInv'
<1>1. PICK artifacts \in Contents :
        /\ files' = [files EXCEPT ![r] = artifacts]
        /\ content' = [content EXCEPT ![r] = artifacts]
        /\ job' = [job EXCEPT ![r] = Task(r, "fdd", Chunks(r, "analysis", artifacts["analysis"]))]
  BY DEF Deliver
<1>2. /\ stage[r] = "working" /\ stage' = [stage EXCEPT ![r] = "indexing"]
      /\ UNCHANGED <<rows, chunks, emptied, early, torn>>
  BY DEF Deliver, table
<1>3. /\ files'[r] = artifacts /\ content'[r] = artifacts /\ stage'[r] = "indexing"
      /\ \A q \in Runs \ {r} : files'[q] = files[q] /\ content'[q] = content[q] /\ stage'[q] = stage[q]
  BY <1>1, <1>2 DEF IndexInv, TypeOK
<1>4. /\ r \in Indexers
      /\ job'[r] = Task(r, "fdd", Chunks(r, "analysis", artifacts["analysis"]))
      /\ \A w \in Indexers \ {r} : job'[w] = job[w]
  BY <1>1 DEF IndexInv, TypeOK, Indexers
<1>5. job'[r].at = "fdd" /\ job'[r].run = r
      /\ job'[r].todo = Chunks(r, "analysis", artifacts["analysis"])
  BY <1>4 DEF Task
<1>6. FilesKept' /\ OwnJob'
  BY <1>2, <1>3, <1>4, <1>5 DEF WholeInv, FilesKept, OwnJob, Indexers
<1>7. NotYet'
  <2>1. \A q \in Runs \ {r} : Active(q)' \subseteq Active(q)
    BY <1>4, <1>5 DEF Active
  <2> QED
    BY <1>2, <1>3, <2>1 DEF WholeInv, NotYet, ChunksOf
<1>8. GatheredWhole'
  <2> SUFFICES ASSUME NEW w \in Indexers, job'[w].at # "idle", job'[w].run \notin emptied \cup early
               PROVE  job'[w].todo = Gathered(job[w].run, job[w].at)'
    BY <1>2 DEF GatheredWhole
  <2>1. CASE w = r
    <3>1. Gathered(job[w].run, job[w].at)' = Delivered(r, "analysis")'
      BY <1>5, <2>1 DEF Gathered
    <3> QED
      BY <1>3, <1>5, <2>1, <3>1 DEF Delivered
  <2>2. CASE w # r
    <3>1. job'[w] = job[w] /\ job[w].run \in Runs
      BY <1>4, <2>2 DEF IndexInv, IndexedKnown
    <3>2. job[w].run # r
      BY <1>2, <3>1 DEF WholeInv, NotYet, Active
    <3>3. content'[job[w].run] = content[job[w].run]
      BY <1>3, <3>1, <3>2
    <3>4. \A at : Gathered(job[w].run, at)' = Gathered(job'[w].run, at)
      BY <3>1, <3>3 DEF Gathered, Delivered
    <3> QED
      BY <3>1, <3>3 DEF WholeInv, GatheredWhole, Gathered, Delivered
  <2> QED
    BY <2>1, <2>2
<1>9. WholeOrWritten'
  <2> SUFFICES ASSUME NEW q \in Runs, q \notin torn \cup emptied \cup early
               PROVE  \/ ChunksOf(q)' \in {{}, Evidence(q)'}
                      \/ \E w \in Indexers : job'[w].at = "insert" /\ job'[w].run = q
    BY <1>2 DEF WholeOrWritten
  <2>1. CASE q = r
    BY <1>2, <2>1 DEF WholeInv, NotYet, ChunksOf
  <2>2. CASE q # r
    <3>1. Evidence(q)' = Evidence(q) /\ ChunksOf(q)' = ChunksOf(q)
      BY <1>2, <1>3, <2>2, SameContent DEF ChunksOf
    <3>2. \A w \in Indexers : job[w].at = "insert" /\ job[w].run = q => w # r
      BY <2>2 DEF WholeInv, OwnJob
    <3> QED
      BY <1>4, <3>1, <3>2 DEF WholeInv, WholeOrWritten
  <2> QED
    BY <2>1, <2>2
<1> QED
  BY <1>6, <1>7, <1>8, <1>9 DEF WholeInv

\* A thread that is not inserting changes its own job, the runs and files stay.
LEMMA JobWhole ==
  ASSUME IndexInv, WholeInv, NEW w \in Indexers, NEW j \in Job, job' = [job EXCEPT ![w] = j],
         job[w].at # "insert",
         j.at # "idle" => j.run \in Runs,
         j.at # "idle" /\ j.run \notin emptied \cup early' => j.todo = Gathered(j.run, j.at),
         w \in Runs /\ j.at # "idle" => j.run = w,
         \A q \in Runs : stage[q] \in {"new", "working"} /\ q \notin early' /\ j.at # "idle" => j.run # q,
         early \subseteq early',
         UNCHANGED <<stage, rows, chunks, files, emptied, torn, content>>
  PROVE  WholeInv'
<1>1. job \in [Indexers -> Job]
  BY JobType DEF IndexInv
<1>2. job'[w] = j /\ \A v \in Indexers \ {w} : job'[v] = job[v]
  BY <1>1
<1>3. FilesKept' /\ OwnJob'
  BY <1>2 DEF WholeInv, FilesKept, OwnJob, Indexers
<1>4. NotYet'
  <2>1. \A q \in Runs : Active(q)' \subseteq Active(q) \cup (IF j.at # "idle" /\ j.run = q THEN {w} ELSE {})
    BY <1>2 DEF Active
  <2> QED
    BY <2>1 DEF WholeInv, NotYet, ChunksOf
<1>5. GatheredWhole'
  BY <1>2 DEF WholeInv, GatheredWhole, Gathered, Delivered
<1>6. WholeOrWritten'
  <2>1. \A v \in Indexers : job[v].at = "insert" => v # w
    OBVIOUS
  <2> QED
    BY <1>2, <2>1 DEF WholeInv, WholeOrWritten, ChunksOf, Evidence
<1> QED
  BY <1>3, <1>4, <1>5, <1>6 DEF WholeInv

\* A re-indexing begins: of a run that has not delivered yet it is early.
LEMMA ReindexWhole ==
  ASSUME IndexInv, WholeInv, NEW w \in Reindexers, NEW r \in Runs, Reindex(w, r)
  PROVE  WholeInv'
<1> DEFINE j == Task(r, "analysis", <<>>)
<1>1. j \in Job /\ j.at = "analysis" /\ j.run = r /\ j.todo = <<>>
  BY DEF Task, Job, Kinds
<1>2. /\ w \in Indexers /\ w \notin Runs /\ job' = [job EXCEPT ![w] = j] /\ job[w].at = "idle"
      /\ early' = IF stage[r] = "working" THEN early \cup {r} ELSE early
      /\ r \in rows
      /\ UNCHANGED <<stage, rows, chunks, files, emptied, torn, content>>
  BY KnowledgeAssumption DEF Reindex, Indexers, table, disk
<1>3. stage[r] # "new"
  BY <1>2 DEF WholeInv, NotYet
<1>4. Gathered(r, "analysis") = <<>>
  BY DEF Gathered
<1> HIDE DEF j
<1> QED
  BY <1>1, <1>2, <1>3, <1>4, JobWhole

\* A file is read.
LEMMA ReadWhole ==
  ASSUME IndexInv, WholeInv, NEW w \in Indexers, Read(w)
  PROVE  WholeInv'
<1> DEFINE r == job[w].run
           k == job[w].at
<1>1. PICK j \in Job :
        /\ job' = [job EXCEPT ![w] = j]
        /\ j.at = After[k] /\ j.at # "idle" /\ j.run = r
        /\ j.todo = job[w].todo \o Chunks(r, k, files[r][k])
  BY ReadJob DEF IndexInv
<1>2. k \in Kinds /\ k \notin {"idle", "insert"}
  BY DEF Read, Kinds
<1>3. r \in Runs /\ TypeOK
  BY <1>2 DEF IndexInv, IndexedKnown
<1>4. UNCHANGED <<stage, rows, chunks, files, emptied, torn, content, early>>
  BY DEF Read, table, disk, history
<1>5. r \notin emptied \cup early => j.todo = Gathered(r, j.at)
  <2>1. r \notin emptied \cup early => files[r] = content[r] /\ job[w].todo = Gathered(r, k)
    BY <1>2, <1>3 DEF WholeInv, FilesKept, GatheredWhole
  <2>2. Gathered(r, k) \o Delivered(r, k) = Gathered(r, After[k])
    BY <1>2, <1>3, GatheredNext
  <2> QED
    BY <1>1, <2>1, <2>2 DEF Delivered
<1>6. w \in Runs => r = w
  BY <1>2 DEF WholeInv, OwnJob
<1>7. \A q \in Runs : stage[q] \in {"new", "working"} /\ q \notin early => r # q
  <2> SUFFICES ASSUME NEW q \in Runs, stage[q] \in {"new", "working"}, q \notin early, r = q
               PROVE  FALSE
    OBVIOUS
  <2>1. w \in Active(q)
    BY <1>2 DEF Active
  <2> QED
    BY <2>1 DEF WholeInv, NotYet
<1> QED
  BY <1>1, <1>2, <1>3, <1>4, <1>5, <1>6, <1>7, JobWhole

\* A replacement deletes, or inserts, chunks of its own run only.
LEMMA ReplaceWhole ==
  ASSUME IndexInv, WholeInv, NEW w \in Indexers, BeginReplace(w) \/ Insert(w)
  PROVE  WholeInv'
<1> DEFINE r == job[w].run
<1>1. job[w] \in Job /\ job \in [Indexers -> Job] /\ job[w].at \in {"replace", "insert"}
  BY JobType DEF IndexInv, BeginReplace, Insert
<1>2. /\ job'[w].at = "insert" /\ job'[w].run = r /\ job'[w].todo = job[w].todo
      /\ \A v \in Indexers \ {w} : job'[v] = job[v]
      /\ UNCHANGED <<stage, rows, files, emptied, early, torn, content>>
  BY <1>1 DEF BeginReplace, Insert, Job, disk, history
<1>3. r \in Runs /\ w \in Active(r)
  BY <1>1 DEF IndexInv, IndexedKnown, Active
<1>4. \A q \in Runs : q # r => {c \in chunks' : c.run = q} = ChunksOf(q)
  <2>1. CASE BeginReplace(w)
    BY <2>1 DEF BeginReplace, ChunksOf
  <2>2. CASE Insert(w)
    <3> DEFINE c == job[w].todo[job[w].done + 1]
    <3>1. job[w].done + 1 \in DOMAIN job[w].todo
      BY <1>1, <2>2 DEF Insert, Job
    <3>2. c.run = r
      BY <3>1 DEF IndexInv, TodoOfRun
    <3>3. \A d : ChunkId(d) = ChunkId(c) => d.run = r
      BY <3>2 DEF ChunkId
    <3>4. chunks' = {d \in chunks : ChunkId(d) # ChunkId(c)} \cup {c}
      BY <2>2 DEF Insert, Upserted
    <3> HIDE DEF c
    <3> QED
      BY <3>2, <3>3, <3>4 DEF ChunksOf
  <2> QED
    BY <2>1, <2>2
<1>5. \A q \in Runs : Active(q)' = Active(q)
  BY <1>1, <1>2 DEF Active
<1>6. FilesKept' /\ OwnJob'
  BY <1>1, <1>2 DEF WholeInv, FilesKept, OwnJob, Indexers
<1>7. NotYet'
  BY <1>2, <1>3, <1>4, <1>5 DEF WholeInv, NotYet, ChunksOf
<1>8. GatheredWhole'
  <2>1. Gathered(r, "replace") = Gathered(r, "insert")
    BY DEF Gathered
  <2>2. job[w].run \notin emptied \cup early => job[w].todo = Gathered(r, "insert")
    BY <1>1, <2>1 DEF WholeInv, GatheredWhole
  <2>3. \A v \in Indexers : job'[v].at # "idle" /\ job'[v].run \notin emptied \cup early =>
          job'[v].todo = Gathered(job'[v].run, job'[v].at)
    BY <1>2, <2>2 DEF WholeInv, GatheredWhole
  <2> QED
    BY <1>2, <2>3 DEF GatheredWhole, Gathered, Delivered
<1>9. WholeOrWritten'
  <2>1. \A v \in Indexers : job[v].at = "insert" => job'[v].at = "insert" /\ job'[v].run = job[v].run
    BY <1>1, <1>2
  <2>2. \A q \in Runs : Evidence(q)' = Evidence(q)
    BY <1>2, SameContent
  <2> QED
    BY <1>2, <1>4, <2>1, <2>2 DEF WholeInv, WholeOrWritten, ChunksOf
<1> QED
  BY <1>6, <1>7, <1>8, <1>9 DEF WholeInv

\* When a replacement ends undisturbed the index of its run is whole.
LEMMA EndReplaceWhole ==
  ASSUME IndexInv, WholeInv, NEW w \in Indexers, EndReplace(w)
  PROVE  WholeInv'
<1> DEFINE r == job[w].run
<1>1. job[w] \in Job /\ job \in [Indexers -> Job] /\ TypeOK /\ r \in Runs
  BY JobType DEF IndexInv, IndexedKnown, EndReplace
<1>2. /\ job'[w] = Idle /\ Idle.at = "idle" /\ \A v \in Indexers \ {w} : job'[v] = job[v]
      /\ UNCHANGED <<stage, rows, chunks, files, emptied, early, torn, content>>
  BY <1>1 DEF EndReplace, table, disk, history, Idle, Task
<1>3. r \notin emptied \cup early => ChunksOf(r) = Evidence(r)
  <2>1. ChunksOf(r) = StoredUpTo(job[w].todo, Len(job[w].todo))
    BY DEF IndexInv, Progress, EndReplace
  <2>2. StoredUpTo(job[w].todo, Len(job[w].todo)) = Stored(job[w].todo)
    BY <1>1, AllStored DEF Job
  <2>3. r \notin emptied \cup early => job[w].todo = Gathered(r, "insert")
    BY DEF WholeInv, GatheredWhole, EndReplace
  <2> QED
    BY <1>1, <2>1, <2>2, <2>3, AllGathered
<1>4. FilesKept' /\ OwnJob' /\ GatheredWhole'
  BY <1>2 DEF WholeInv, FilesKept, OwnJob, Indexers, GatheredWhole, Gathered, Delivered
<1>5. NotYet'
  <2>1. \A q \in Runs : Active(q)' \subseteq Active(q)
    BY <1>2 DEF Active
  <2> QED
    BY <1>2, <2>1 DEF WholeInv, NotYet, ChunksOf
<1>6. WholeOrWritten'
  BY <1>2, <1>3 DEF WholeInv, WholeOrWritten, ChunksOf, Evidence
<1> QED
  BY <1>4, <1>5, <1>6 DEF WholeInv

\* A reading that fails: the directory of its run is gone.
LEMMA ReadRaisesWhole ==
  ASSUME IndexInv, WholeInv, NEW w \in Indexers, ReadRaises(w)
  PROVE  WholeInv'
<1> DEFINE r == job[w].run
<1>1. job \in [Indexers -> Job] /\ r \in Runs /\ job[w].at # "insert"
  BY JobType DEF IndexInv, IndexedKnown, ReadRaises, Kinds
<1>2. /\ job'[w] = Idle /\ Idle.at = "idle" /\ \A v \in Indexers \ {w} : job'[v] = job[v]
      /\ emptied' = emptied \cup {r} /\ \A q \in Runs \ {r} : files'[q] = files[q]
      /\ UNCHANGED <<stage, rows, chunks, early, torn, content>>
  BY <1>1 DEF ReadRaises, Removal, table, history, Idle, Task, IndexInv, TypeOK
<1>3. FilesKept' /\ OwnJob' /\ GatheredWhole'
  BY <1>2 DEF WholeInv, FilesKept, OwnJob, Indexers, GatheredWhole, Gathered, Delivered
<1>4. NotYet'
  <2>1. \A q \in Runs : Active(q)' \subseteq Active(q)
    BY <1>2 DEF Active
  <2> QED
    BY <1>2, <2>1 DEF WholeInv, NotYet, ChunksOf
<1>5. WholeOrWritten'
  <2>1. \A v \in Indexers : job[v].at = "insert" => job'[v] = job[v]
    BY <1>1, <1>2
  <2> QED
    BY <1>2, <2>1 DEF WholeInv, WholeOrWritten, ChunksOf, Evidence
<1> QED
  BY <1>3, <1>4, <1>5 DEF WholeInv

\* A deletion leaves none of the chunks of its run, a removal no files.
LEMMA DeletionWhole ==
  ASSUME IndexInv, WholeInv, NEW r \in Runs, Deletion(r)
  PROVE  WholeInv'
<1>1. /\ UNCHANGED <<job, stage, torn, early, content>>
      /\ rows' \subseteq rows /\ emptied \subseteq emptied'
      /\ \A q \in Runs \ emptied' : files'[q] = files[q]
      /\ \A q \in Runs : {c \in chunks' : c.run = q} \in {{}, ChunksOf(q)}
  <2>1. CASE DeleteLookup(r) \/ DeleteRow(r)
    BY <2>1 DEF DeleteLookup, DeleteRow, table, disk, history, ChunksOf
  <2>2. CASE DeleteChunks(r)
    BY <2>2 DEF DeleteChunks, disk, history, ChunksOf
  <2>3. CASE Remove(r)
    BY <2>3 DEF Remove, Removal, table, threads, ChunksOf, IndexInv, TypeOK
  <2> QED
    BY <2>1, <2>2, <2>3 DEF Deletion
<1>2. FilesKept' /\ OwnJob' /\ GatheredWhole'
  BY <1>1 DEF WholeInv, FilesKept, OwnJob, GatheredWhole, Gathered, Delivered
<1>3. NotYet'
  BY <1>1 DEF WholeInv, NotYet, ChunksOf, Active
<1>4. WholeOrWritten'
  BY <1>1 DEF WholeInv, WholeOrWritten, ChunksOf, Evidence, Delivered
<1> QED
  BY <1>2, <1>3, <1>4 DEF WholeInv

\* A crash tears the index that is being written.
LEMMA CrashWhole ==
  ASSUME IndexInv, WholeInv, Crash
  PROVE  WholeInv'
<1>1. /\ \A w \in Indexers : job'[w] = Idle
      /\ Idle.at = "idle" /\ torn \subseteq torn'
      /\ \A w \in Indexers : job[w].at = "insert" => job[w].run \in torn'
      /\ \A r \in Runs : stage'[r] = IF stage[r] = "new" THEN "new" ELSE "over"
      /\ UNCHANGED <<rows, chunks, files, emptied, early, content>>
  BY DEF Crash, table, disk, Idle, Task
<1>2. FilesKept' /\ OwnJob' /\ GatheredWhole'
  BY <1>1 DEF WholeInv, FilesKept, OwnJob, Indexers, GatheredWhole
<1>3. NotYet'
  BY <1>1 DEF WholeInv, NotYet, ChunksOf, Active
<1>4. WholeOrWritten'
  BY <1>1 DEF WholeInv, WholeOrWritten, ChunksOf, Evidence
<1> QED
  BY <1>2, <1>3, <1>4 DEF WholeInv

\* Every step keeps it.
LEMMA WholeStep ==
  ASSUME IndexInv, WholeInv, [Next]_vars
  PROVE  WholeInv'
<1>1. CASE UNCHANGED vars
  BY <1>1 DEF vars, table, disk, threads, history, WholeInv, FilesKept, OwnJob, NotYet, GatheredWhole,
              WholeOrWritten, ChunksOf, Active, Evidence, Gathered, Delivered
<1>2. CASE Next
  BY <1>2, RowWhole, DeliverWhole, DeletionWhole, ReindexWhole, ReadWhole, ReplaceWhole,
     EndReplaceWhole, ReadRaisesWhole, CrashWhole DEF Next, Indexing
<1> QED
  BY <1>1, <1>2

\* A query never sees half of an indexing, nor a mixture of two.
THEOREM QueriesSeeWhole == Spec => []IndexIsWhole
<1>1. Init => WholeInv
  BY DEF Init, WholeInv, FilesKept, OwnJob, NotYet, GatheredWhole, WholeOrWritten, ChunksOf, Active,
         Idle, Task, Indexers
<1>2. IndexInv /\ WholeInv => IndexIsWhole
  BY DEF WholeInv, WholeOrWritten, IndexIsWhole, LockFree
<1> QED
  BY <1>1, <1>2, WholeStep, Invariance, PTL DEF Spec

-----------------------------------------------------------------------------
(* The knowledge base keeps the promise of IndexStore: step by step.        *)

\* A run that has not delivered has not started a thread.
NotBegun == \A r \in Runs : stage[r] \in {"new", "working"} => job[r].at = "idle"

LEMMA NotBegunStep ==
  ASSUME IndexInv, NotBegun, [Next]_vars
  PROVE  NotBegun'
<1> SUFFICES ASSUME NEW r \in Runs, stage'[r] \in {"new", "working"}
             PROVE  job'[r].at = "idle"
  BY DEF NotBegun
<1>1. /\ stage \in [Runs -> {"new", "working", "indexing", "over"}] /\ r \in Indexers /\ r \notin Reindexers
      /\ job \in [Indexers -> Job]
  BY KnowledgeAssumption, JobType DEF IndexInv, TypeOK, Indexers
<1>2. CASE Crash
  BY <1>1, <1>2 DEF Crash, Idle, Task
<1>3. CASE ~Crash
  <2>1. stage[r] \in {"new", "working"} /\ job[r].at = "idle"
    <3>1. stage[r] \in {"new", "working"}
      BY <1>1, <1>3 DEF Next, vars, Create, Deliver, End, Deletion, DeleteLookup, DeleteRow, DeleteChunks,
         Remove, Reindex, Indexing, Read, BeginReplace, Insert, EndReplace, ReadRaises
    <3> QED
      BY <3>1 DEF NotBegun
  <2>2. ~\E q \in Runs : q = r /\ Deliver(q)
    BY <1>1 DEF Deliver
  <2>3. job'[r] = job[r]
    <3>1. CASE \E q \in Runs : Deliver(q)
      BY <1>1, <2>2, <3>1 DEF Deliver
    <3>2. CASE \E w \in Reindexers, q \in Runs : Reindex(w, q)
      BY <1>1, <3>2 DEF Reindex
    <3>3. CASE \E w \in Indexers : Indexing(w)
      <4>1. PICK w \in Indexers : Indexing(w)
        BY <3>3
      <4>2. job[w].at # "idle"
        BY <4>1 DEF Indexing, Read, BeginReplace, Insert, EndReplace, ReadRaises, Kinds
      <4>3. w # r
        BY <2>1, <4>2
      <4> QED
        BY <1>1, <4>1, <4>3 DEF Indexing, Read, BeginReplace, Insert, EndReplace, ReadRaises
    <3>4. CASE UNCHANGED job
      BY <3>4
    <3> QED
      BY <1>3, <3>1, <3>2, <3>3, <3>4
      DEF Next, vars, threads, Create, End, Deletion, DeleteLookup, DeleteRow, DeleteChunks, Remove
  <2> QED
    BY <2>1, <2>3
<1> QED
  BY <1>2, <1>3

\* Identifiers are keys of the promise, and the latest items are those inserted.
LEMMA LatestStored ==
  /\ \A todo, n : Store!Latest(todo, n) = StoredUpTo(todo, n)
  /\ \A todo \in Seq(Chunk) : Store!Latest(todo, Len(todo)) = Stored(todo)
<1>1. \A c, d : ChunkId(c) = ChunkId(d) <=> Store!SameItem(c, d)
  BY DEF ChunkId, Store!SameItem
<1>2. \A todo, n : Store!Latest(todo, n) = StoredUpTo(todo, n)
  BY <1>1 DEF Store!Latest, StoredUpTo
<1> QED
  BY <1>2, AllStored

\* While the lock is free the store holds what the table holds.
LEMMA NobodyWriting ==
  ASSUME \A w \in Indexers : job[w].at # "insert"
  PROVE  StoreItems = chunks /\ Store!Unused
BY DEF StoreItems, Writing, StoreGathered, Store!Unused

\* While w replaces the chunks of its run the store holds all of them already.
LEMMA OneWriting ==
  ASSUME IndexInv, NEW w \in Indexers, job[w].at = "insert"
  PROVE  /\ Writing = {w}
         /\ StoreItems = {c \in chunks : c.run # job[w].run} \cup Stored(job[w].todo)
         /\ Store!Others(job[w].run) = {c \in chunks : c.run # job[w].run}
<1>1. Writing = {w}
  BY DEF IndexInv, TypeOK, OneHolder, Writing
<1>2. StoreItems = {c \in chunks : c.run # job[w].run} \cup Stored(job[w].todo)
  BY <1>1 DEF StoreItems
<1>3. \A c \in Stored(job[w].todo) : c.run = job[w].run
  BY DEF IndexInv, TodoOfRun, Stored
<1> QED
  BY <1>1, <1>2, <1>3 DEF Store!Others

\* A thread that does not write gathers, reads on or gives up.
LEMMA GatherStep ==
  ASSUME IndexInv, NEW w \in Indexers, NEW j \in Job, job' = [job EXCEPT ![w] = j],
         job[w].at # "insert", j.at # "insert", UNCHANGED chunks
  PROVE  [Store!Next]_(Store!storevars)
<1>1. job \in [Indexers -> Job]
  BY JobType DEF IndexInv
<1>2. job'[w] = j /\ \A v \in Indexers \ {w} : job'[v] = job[v]
  BY <1>1
<1>3. Writing' = Writing /\ \A v \in Writing : job'[v] = job[v]
  BY <1>2 DEF Writing
<1>4. StoreItems' = StoreItems
  BY <1>3 DEF StoreItems
<1>5. StoreGathered' = [StoreGathered EXCEPT ![w] = StoreGathered'[w]]
  BY <1>2 DEF StoreGathered
<1>6. ~StoreGathered[w].stored /\ ~StoreGathered'[w].stored
  BY <1>2 DEF StoreGathered
<1>7. Store!Gather(w)
  BY <1>4, <1>5, <1>6 DEF Store!Gather
<1> QED
  BY <1>7 DEF Store!Next

\* Steps that leave the jobs and the chunks alone.
LEMMA StoreQuiet ==
  ASSUME UNCHANGED <<job, chunks>>
  PROVE  UNCHANGED Store!storevars
BY DEF StoreItems, StoreGathered, Writing, Store!storevars

\* The replacement takes place when it begins ...
LEMMA ReplaceStep ==
  ASSUME IndexInv, NEW w \in Indexers, BeginReplace(w)
  PROVE  Store!Replace(w)
<1> DEFINE r == job[w].run
<1>1. /\ job \in [Indexers -> Job] /\ job[w].todo \in Seq(Chunk)
      /\ job[w].at = "replace" /\ chunks' = chunks \ ChunksOf(r)
      /\ job' = [job EXCEPT ![w].at = "insert"]
  BY JobType DEF IndexInv, Job, BeginReplace
<1>2. StoreItems = chunks /\ Store!Unused
  BY NobodyWriting DEF BeginReplace, LockFree
<1>3. /\ job'[w].at = "insert" /\ job'[w].run = r /\ job'[w].todo = job[w].todo
      /\ \A v \in Indexers \ {w} : job'[v] = job[v]
  BY <1>1 DEF Job
<1>4. Writing' = {w}
  BY <1>3 DEF Writing, BeginReplace, LockFree
<1>5. StoreItems' = {c \in chunks' : c.run # r} \cup Stored(job[w].todo)
  BY <1>3, <1>4 DEF StoreItems
<1>6. {c \in chunks' : c.run # r} = Store!Others(r)
  BY <1>1, <1>2 DEF ChunksOf, Store!Others
<1>7. Stored(job[w].todo) = Store!Latest(job[w].todo, Len(job[w].todo))
  BY <1>1, LatestStored
<1>8. StoreGathered[w].run = r /\ StoreGathered[w].read = job[w].todo
  BY DEF StoreGathered
<1>9. StoreGathered' = [StoreGathered EXCEPT ![w].stored = TRUE]
  BY <1>3 DEF StoreGathered
<1> QED
  BY <1>2, <1>5, <1>6, <1>7, <1>8, <1>9 DEF Store!Replace

\* ... the rows that follow do not show ...
LEMMA InsertStep ==
  ASSUME IndexInv, NEW w \in Indexers, Insert(w)
  PROVE  UNCHANGED Store!storevars
<1> DEFINE r == job[w].run
           c == job[w].todo[job[w].done + 1]
<1>1. /\ job \in [Indexers -> Job] /\ job[w] \in Job /\ job[w].at = "insert"
      /\ job' = [job EXCEPT ![w].done = @ + 1] /\ chunks' = Upserted(chunks, c)
  BY JobType DEF IndexInv, Insert
<1>2. c.run = r
  <2>1. job[w].done + 1 \in DOMAIN job[w].todo
    BY <1>1 DEF Insert, Job
  <2> QED
    BY <2>1 DEF IndexInv, TodoOfRun
<1>3. \A v \in Indexers : job'[v].at = job[v].at /\ job'[v].run = job[v].run /\ job'[v].todo = job[v].todo
  BY <1>1 DEF Job
<1>4. Writing = {w} /\ StoreItems = {d \in chunks : d.run # r} \cup Stored(job[w].todo)
  BY <1>1, OneWriting
<1>5. Writing' = {w}
  BY <1>3, <1>4 DEF Writing
<1>6. StoreItems' = {d \in chunks' : d.run # r} \cup Stored(job[w].todo)
  BY <1>3, <1>5 DEF StoreItems
<1>7. {d \in chunks' : d.run # r} = {d \in chunks : d.run # r}
  <2>1. \A d : ChunkId(d) = ChunkId(c) => d.run = r
    BY <1>2 DEF ChunkId
  <2> HIDE DEF c
  <2> QED
    BY <1>1, <1>2, <2>1 DEF Upserted
<1>8. StoreGathered' = StoreGathered
  BY <1>3 DEF StoreGathered
<1> QED
  BY <1>4, <1>6, <1>7, <1>8 DEF Store!storevars

\* ... and when they are all there the table holds what it was said to hold.
LEMMA FinishStep ==
  ASSUME IndexInv, NEW w \in Indexers, EndReplace(w)
  PROVE  Store!Finish(w)
<1> DEFINE r == job[w].run
<1>1. /\ job \in [Indexers -> Job] /\ job[w].todo \in Seq(Chunk) /\ job[w].at = "insert"
      /\ job' = [job EXCEPT ![w] = Idle] /\ chunks' = chunks
  BY JobType DEF IndexInv, Job, EndReplace, table
<1>2. Writing = {w} /\ StoreItems = {d \in chunks : d.run # r} \cup Stored(job[w].todo)
  BY <1>1, OneWriting
<1>3. ChunksOf(r) = Stored(job[w].todo)
  BY <1>1, AllStored DEF IndexInv, Progress, EndReplace
<1>4. StoreItems = chunks
  BY <1>2, <1>3 DEF ChunksOf
<1>5. job'[w] = Idle /\ Idle.at = "idle" /\ \A v \in Indexers \ {w} : job'[v] = job[v]
  BY <1>1 DEF Idle, Task
<1>6. \A v \in Indexers : job'[v].at # "insert"
  BY <1>2, <1>5 DEF Writing
<1>7. StoreItems' = chunks'
  BY <1>6 DEF StoreItems, Writing
<1>8. StoreGathered' = [StoreGathered EXCEPT ![w] = Store!NoWork]
  <2>1. Idle.run = "none" /\ Idle.todo = <<>> /\ Idle.at = "idle"
    BY DEF Idle, Task
  <2>2. StoreGathered'[w] = Store!NoWork
    BY <1>5, <2>1 DEF StoreGathered, Store!NoWork
  <2>3. \A v \in Indexers \ {w} : StoreGathered'[v] = StoreGathered[v]
    BY <1>5 DEF StoreGathered
  <2>4. StoreGathered' = [v \in Indexers |-> StoreGathered'[v]]
    BY DEF StoreGathered
  <2>5. [StoreGathered EXCEPT ![w] = Store!NoWork]
          = [v \in Indexers |-> IF v = w THEN Store!NoWork ELSE StoreGathered[v]]
    BY DEF StoreGathered
  <2> QED
    BY <2>2, <2>3, <2>4, <2>5
<1>9. StoreGathered[w].stored
  BY <1>1 DEF StoreGathered
<1> QED
  BY <1>1, <1>4, <1>7, <1>8, <1>9 DEF Store!Finish

\* A deletion erases; it holds the lock, so nobody is writing.
LEMMA EraseStep ==
  ASSUME IndexInv, NEW r \in Runs, DeleteChunks(r)
  PROVE  [Store!Next]_(Store!storevars)
<1>1. /\ r \in cascading /\ chunks' = chunks \ ChunksOf(r) /\ job' = job
  BY DEF DeleteChunks
<1>2. \A w \in Indexers : job[w].at # "insert" /\ job'[w].at # "insert"
  BY <1>1 DEF IndexInv, TypeOK, OneHolder
<1>3. StoreItems = chunks /\ Store!Unused /\ StoreItems' = chunks' /\ StoreGathered' = StoreGathered
  BY <1>1, <1>2, NobodyWriting DEF StoreItems, StoreGathered, Writing
<1>4. chunks' = Store!Others(r)
  BY <1>1, <1>3 DEF Store!Others, ChunksOf
<1>5. CASE \E c \in chunks : c.run = r
  <2>1. r \in {c.run : c \in StoreItems} /\ Store!Erase(r)
    BY <1>3, <1>4, <1>5 DEF Store!Erase
  <2> QED
    BY <2>1 DEF Store!Next
<1>6. CASE ~\E c \in chunks : c.run = r
  <2>1. chunks' = chunks
    BY <1>1, <1>6 DEF ChunksOf
  <2> QED
    BY <1>3, <2>1 DEF Store!storevars
<1> QED
  BY <1>5, <1>6

\* A crash leaves what was inserted by then of at most one replacement.
LEMMA CrashStep ==
  ASSUME IndexInv, Crash
  PROVE  Store!Crash
<1>1. job' = [w \in Indexers |-> Idle] /\ chunks' = chunks /\ Idle.at = "idle"
  BY DEF Crash, table, Idle, Task
<1>2. StoreGathered' = [w \in Indexers |-> Store!NoWork]
  BY <1>1 DEF StoreGathered, Store!NoWork, Idle, Task
<1>3. StoreItems' = chunks
  BY <1>1 DEF StoreItems, Writing
<1>4. CASE \A w \in Indexers : job[w].at # "insert"
  BY <1>2, <1>3, <1>4, NobodyWriting DEF Store!Crash
<1>5. ASSUME NEW w \in Indexers, job[w].at = "insert"
      PROVE  Store!Crash
  <2>1. StoreGathered[w].stored /\ StoreGathered[w].run = job[w].run /\ StoreGathered[w].read = job[w].todo
    BY <1>5 DEF StoreGathered
  <2>2. /\ Store!Others(job[w].run) = {c \in chunks : c.run # job[w].run}
        /\ ChunksOf(job[w].run) = StoredUpTo(job[w].todo, job[w].done)
    BY <1>5, OneWriting DEF IndexInv, Progress
  <2>3. chunks = Store!Others(job[w].run) \cup Store!Latest(job[w].todo, job[w].done)
    BY <2>2, LatestStored DEF ChunksOf
  <2>4. job[w].done \in 0 .. Len(job[w].todo)
    BY JobType DEF IndexInv, TodoOfRun, Job
  <2>5. /\ StoreGathered[w].stored
        /\ job[w].done \in 0 .. Len(StoreGathered[w].read)
        /\ StoreItems' = Store!Others(StoreGathered[w].run) \cup Store!Latest(StoreGathered[w].read, job[w].done)
    BY <1>3, <2>1, <2>3, <2>4
  <2> QED
    BY <1>2, <2>5 DEF Store!Crash
<1> QED
  BY <1>4, <1>5

\* The knowledge base keeps the promise of IndexStore: though threads, deletions and
\* queries share the table, and SQLite commits row by row, each replacement is one step
\* for everybody who takes the lock; it stores what its indexing has read, the last of
\* the sections with the same identifier, and touches no other run.
THEOREM IndexKeepsThePromise == Spec => IndexSpec
<1>1. Init => Store!Init /\ NotBegun
  <2> SUFFICES ASSUME Init PROVE Store!Init /\ NotBegun
    OBVIOUS
  <2>1. \A w \in Indexers : job[w].at = "idle" /\ job[w].run = "none" /\ job[w].todo = <<>>
    BY DEF Init, Idle, Task
  <2>2. NotBegun
    BY <2>1 DEF NotBegun, Indexers
  <2>3. StoreItems = {}
    BY <2>1 DEF Init, StoreItems, Writing
  <2>4. StoreGathered = [w \in Indexers |-> Store!NoWork]
    BY <2>1 DEF StoreGathered, Store!NoWork
  <2> QED
    BY <2>2, <2>3, <2>4 DEF Store!Init
<1>2. IndexInv /\ NotBegun /\ [Next]_vars => [Store!Next]_(Store!storevars)
  <2> SUFFICES ASSUME IndexInv, NotBegun, [Next]_vars
               PROVE  [Store!Next]_(Store!storevars)
    OBVIOUS
  <2>1. ASSUME UNCHANGED <<job, chunks>>
        PROVE  [Store!Next]_(Store!storevars)
    <3>1. UNCHANGED Store!storevars
      BY <2>1, StoreQuiet
    <3> QED
      BY <3>1
  <2>2. ASSUME NEW r \in Runs, Create(r) \/ End(r) \/ DeleteLookup(r) \/ DeleteRow(r) \/ Remove(r)
        PROVE  UNCHANGED <<job, chunks>>
    BY <2>2 DEF Create, End, DeleteLookup, DeleteRow, Remove, table, threads
  <2>3. ASSUME NEW r \in Runs, Deliver(r)
        PROVE  [Store!Next]_(Store!storevars)
    <3>1. PICK artifacts \in Contents :
            job' = [job EXCEPT ![r] = Task(r, "fdd", Chunks(r, "analysis", artifacts["analysis"]))]
      BY <2>3 DEF Deliver
    <3> DEFINE j == Task(r, "fdd", Chunks(r, "analysis", artifacts["analysis"]))
    <3>2. Chunks(r, "analysis", artifacts["analysis"]) \in Seq(Chunk)
      <4>1. "analysis" \in Kinds /\ artifacts["analysis"] \in Seq(Titles)
        BY KnowledgeAssumption DEF Kinds
      <4> QED
        BY <4>1, ChunksType
    <3>3. j \in Job /\ j.at # "insert"
      BY <3>2 DEF Task, Job, Kinds
    <3>4. r \in Indexers /\ job[r].at # "insert" /\ UNCHANGED chunks
      BY <2>3 DEF NotBegun, Deliver, Indexers, table
    <3> HIDE DEF j
    <3>5. job' = [job EXCEPT ![r] = j]
      BY <3>1 DEF j
    <3> QED
      BY <3>3, <3>4, <3>5, GatherStep
  <2>4. ASSUME NEW w \in Reindexers, NEW r \in Runs, Reindex(w, r)
        PROVE  [Store!Next]_(Store!storevars)
    <3> DEFINE j == Task(r, "analysis", <<>>)
    <3>1. j \in Job /\ j.at # "insert"
      BY DEF Task, Job, Kinds
    <3>2. w \in Indexers /\ job[w].at # "insert" /\ UNCHANGED chunks /\ job' = [job EXCEPT ![w] = j]
      BY <2>4 DEF Reindex, Indexers, table
    <3> HIDE DEF j
    <3> QED
      BY <3>1, <3>2, GatherStep
  <2>5. ASSUME NEW w \in Indexers, Read(w)
        PROVE  [Store!Next]_(Store!storevars)
    <3>1. PICK j \in Job : job' = [job EXCEPT ![w] = j] /\ j.at # "insert"
      BY <2>5, ReadJob DEF IndexInv
    <3>2. job[w].at # "insert" /\ UNCHANGED chunks
      BY <2>5 DEF Read, Kinds, table
    <3> QED
      BY <3>1, <3>2, GatherStep
  <2>6. ASSUME NEW w \in Indexers, ReadRaises(w)
        PROVE  [Store!Next]_(Store!storevars)
    <3>1. Idle \in Job /\ Idle.at # "insert" /\ job' = [job EXCEPT ![w] = Idle]
      BY <2>6, JobType DEF IndexInv, ReadRaises, Idle, Task
    <3>2. job[w].at # "insert" /\ UNCHANGED chunks
      BY <2>6 DEF ReadRaises, Kinds, table
    <3> QED
      BY <3>1, <3>2, GatherStep
  <2>7. ASSUME NEW w \in Indexers, BeginReplace(w) \/ Insert(w) \/ EndReplace(w)
        PROVE  [Store!Next]_(Store!storevars)
    <3>1. Store!Replace(w) \/ UNCHANGED Store!storevars \/ Store!Finish(w)
      BY <2>7, ReplaceStep, InsertStep, FinishStep
    <3> QED
      BY <3>1 DEF Store!Next
  <2>8. CASE Crash
    <3>1. Store!Crash
      BY <2>8, CrashStep
    <3> QED
      BY <3>1 DEF Store!Next
  <2>9. CASE UNCHANGED vars
    BY <2>1, <2>9 DEF vars, table, threads
  <2> QED
    BY <2>1, <2>2, <2>3, <2>4, <2>5, <2>6, <2>7, <2>8, <2>9, EraseStep DEF Next, Indexing, Deletion
<1> QED
  BY <1>1, <1>2, NotBegunStep, Invariance, PTL DEF Spec, IndexSpec, Store!Spec, Store!storevars

-----------------------------------------------------------------------------
(* Nothing that was delivered is lost between two sections of the same name. *)

\* Among finitely many numbers one is the last.  (Their distances from n have a least.)
LEMMA LastNumber ==
  ASSUME NEW n \in Nat, NEW T, T \subseteq 1 .. n, T # {}
  PROVE  \E m \in T : \A t \in T : t <= m
<1> DEFINE D == {n - t : t \in T}
<1>1. D \subseteq Nat /\ D # {}
  <2>1. \A t \in T : t \in 1 .. n
    OBVIOUS
  <2>2. \A t \in T : n - t \in Nat
    BY <2>1
  <2>3. D \subseteq Nat
    BY <2>2
  <2>4. PICK t \in T : TRUE
    OBVIOUS
  <2>5. n - t \in D
    OBVIOUS
  <2> QED
    BY <2>3, <2>5
<1>2. PICK d \in D : \A e \in D : ~(<<e, d>> \in OpToRel(<, Nat))
  <2> HIDE DEF D
  <2> QED
    BY <1>1, NatLessThanWellFounded, WFMin, Zenon
<1>3. \A e \in D : ~(e < d)
  <2> HIDE DEF D
  <2>1. ASSUME NEW e \in D PROVE ~(e < d)
    BY <1>1, <1>2, <2>1, Zenon DEF OpToRel
  <2> QED
    BY <2>1
<1>4. PICK m \in T : d = n - m
  OBVIOUS
<1>5. \A t \in T : ~(n - t < n - m)
  BY <1>3, <1>4
<1> QED
  BY <1>5

\* INSERT OR REPLACE loses no identifier ...
LEMMA NoneLost ==
  ASSUME NEW S, NEW todo \in Seq(S), NEW n \in DOMAIN todo
  PROVE  \E c \in Stored(todo) : ChunkId(c) = ChunkId(todo[n])
<1> DEFINE T == {j \in DOMAIN todo : ChunkId(todo[j]) = ChunkId(todo[n])}
<1>1. Len(todo) \in Nat /\ DOMAIN todo = 1 .. Len(todo)
  OBVIOUS
<1>2. T \subseteq 1 .. Len(todo) /\ n \in T
  BY <1>1
<1>3. PICK m \in T : \A t \in T : t <= m
  BY <1>1, <1>2, LastNumber
<1>4. m \in DOMAIN todo /\ ChunkId(todo[m]) = ChunkId(todo[n])
  OBVIOUS
<1>5. \A j \in DOMAIN todo : ChunkId(todo[j]) = ChunkId(todo[m]) => j <= m
  BY <1>3, <1>4
<1>6. todo[m] \in Stored(todo)
  BY <1>4, <1>5 DEF Stored
<1> QED
  BY <1>4, <1>6

\* ... and keeps no identifier twice.
LEMMA NoneTwice ==
  ASSUME NEW S, NEW todo \in Seq(S), NEW c \in Stored(todo), NEW d \in Stored(todo),
         ChunkId(c) = ChunkId(d)
  PROVE  c = d
<1>1. DOMAIN todo \subseteq Nat
  OBVIOUS
<1>2. PICK i \in DOMAIN todo :
        c = todo[i] /\ \A j \in DOMAIN todo : ChunkId(todo[j]) = ChunkId(todo[i]) => j <= i
  BY DEF Stored
<1>3. PICK k \in DOMAIN todo :
        d = todo[k] /\ \A j \in DOMAIN todo : ChunkId(todo[j]) = ChunkId(todo[k]) => j <= k
  BY DEF Stored
<1>4. i <= k /\ k <= i
  BY <1>2, <1>3
<1>5. i = k
  BY <1>1, <1>4
<1> QED
  BY <1>2, <1>3, <1>5

\* Once the index of an undisturbed run shows anything, a query for any section, rule
\* or row it delivered finds one chunk and only one, though headings may repeat.
THEOREM EverySectionFound ==
  Spec => [](LockFree => \A r \in Runs \ (torn \cup emptied \cup early) : ChunksOf(r) # {} =>
               \A k \in Kinds : \A n \in DOMAIN content[r][k] :
                 LET id == ChunkId(Chunks(r, k, content[r][k])[n])
                 IN  /\ \E c \in ChunksOf(r) : ChunkId(c) = id
                     /\ \A c, d \in ChunksOf(r) : ChunkId(c) = id /\ ChunkId(d) = id => c = d)
<1> DEFINE Found(r, k, n) ==
      LET id == ChunkId(Chunks(r, k, content[r][k])[n])
      IN  /\ \E c \in ChunksOf(r) : ChunkId(c) = id
          /\ \A c, d \in ChunksOf(r) : ChunkId(c) = id /\ ChunkId(d) = id => c = d
<1>1. TypeOK /\ IndexIsWhole =>
        (LockFree => \A r \in Runs \ (torn \cup emptied \cup early) : ChunksOf(r) # {} =>
           \A k \in Kinds : \A n \in DOMAIN content[r][k] : Found(r, k, n))
  <2> SUFFICES ASSUME TypeOK, IndexIsWhole, LockFree, NEW r \in Runs \ (torn \cup emptied \cup early),
                      ChunksOf(r) # {}, NEW k \in Kinds, NEW n \in DOMAIN content[r][k]
               PROVE  Found(r, k, n)
    OBVIOUS
  <2> DEFINE todo == Chunks(r, k, content[r][k])
  <2>1. ChunksOf(r) = Evidence(r)
    BY DEF IndexIsWhole
  <2>2. \A q \in Kinds : content[r][q] \in Seq(Titles) /\ Chunks(r, q, content[r][q]) \in Seq(Chunk)
    BY ChunksType DEF TypeOK
  <2>3. n \in DOMAIN todo /\ todo[n].kind = k
    BY DEF Chunks
  <2>4. \A q \in Kinds : \A c \in Stored(Chunks(r, q, content[r][q])) : c.kind = q
    <3>1. \A q \in Kinds : \A j \in DOMAIN Chunks(r, q, content[r][q]) :
            Chunks(r, q, content[r][q])[j].kind = q
      BY DEF Chunks
    <3> QED
      BY <3>1 DEF Stored
  <2> DEFINE id == ChunkId(todo[n])
  <2>5. \E c \in ChunksOf(r) : ChunkId(c) = id
    <3>1. PICK c \in Stored(todo) : ChunkId(c) = id
      BY <2>2, <2>3, NoneLost
    <3>2. c \in Evidence(r)
      BY DEF Evidence
    <3> QED
      BY <2>1, <3>1, <3>2
  <2>6. ASSUME NEW c \in ChunksOf(r), ChunkId(c) = id PROVE c \in Stored(todo)
    <3>1. PICK q \in Kinds : c \in Stored(Chunks(r, q, content[r][q]))
      BY <2>1 DEF Evidence
    <3>2. c.kind = k
      BY <2>3, <2>6 DEF ChunkId
    <3> QED
      BY <2>4, <3>1, <3>2
  <2>7. ASSUME NEW c \in ChunksOf(r), NEW d \in ChunksOf(r), ChunkId(c) = id, ChunkId(d) = id
        PROVE  c = d
    <3>1. c \in Stored(todo) /\ d \in Stored(todo) /\ todo \in Seq(Chunk)
      BY <2>2, <2>6, <2>7
    <3> QED
      BY <2>7, <3>1, NoneTwice
  <2> QED
    BY <2>5, <2>7
<1> QED
  BY <1>1, TypeCorrect, QueriesSeeWhole, PTL
=============================================================================
