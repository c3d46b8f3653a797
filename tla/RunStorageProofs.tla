-------------------------- MODULE RunStorageProofs --------------------------
(***************************************************************************)
(* Theorems about RunStorage for any runs, requests, callers, keys and     *)
(* number of crashes.                                                      *)
(***************************************************************************)
EXTENDS RunStorage, TLAPS

Deletions == {"delete", "purge"}
Collections == {"gc", "gc_all"}
Signals == {"cancel", "reindex"}
Stages == {"fresh", "created", "started", "fetching", "fetched", "written", "ended"}
Threads == {"none", "fetch", "checkout", "agent"}
Positions == {"idle", "entered", "created", "audited", "found", "accepted", "noting", "purging", "unsealed",
              "closing", "scanning", "stat", "done"}
Answers == {"none", "ok", "refused", "missing", "error", "lost"}

(* The inductive invariant, in parts.                                       *)

\* A request that works on a run has one.
Targeted ==
  \A q \in Requests :
    (\/ op[q] \in Deletions \cup Signals \cup {"download"}
     \/ pos[q] \in {"created", "audited", "stat", "purging", "unsealed"})
      => target[q] \in Runs

\* Where a request is tells what it asks for.
Routed ==
  \A q \in Requests :
    /\ pos[q] \in {"purging", "unsealed"} => op[q] \in {"purge"} \cup Collections
    /\ pos[q] \in {"scanning", "stat"} => op[q] \in Collections
    /\ pos[q] = "closing" => op[q] \in Deletions \cup Collections \cup Signals
    /\ pos[q] \in {"accepted", "noting"} => op[q] = "cancel"
    /\ pos[q] = "created" => op[q] = "create"

\* The request removed nothing.
Spared(q) == Removals(q) = {}

\* What a request has told the client and the audit log so far.
Told ==
  \A q \in Requests :
    /\ answer[q] # "none" => pos[q] = "done"
    /\ pos[q] \in {"idle", "entered", "created", "found", "accepted"} => q \notin audit /\ Spared(q)
    /\ pos[q] \in {"audited", "noting"} => q \in audit
    /\ answer[q] = "ok" => q \in audit
    /\ answer[q] \in {"refused", "missing"} => q \notin audit /\ Spared(q)

\* A request in progress has been admitted, and so has one that removed anything.
Guarded ==
  \A q \in Requests :
    /\ pos[q] \notin {"idle", "done"} \/ ~Spared(q) => Admitted(op[q], header[q])
    /\ ~Spared(q) => op[q] \in Deletions \cup Collections

\* The row of r was removed while something was at work for the run.
Live(r) == \E p \in Requests : <<p, r, "live row">> \in removed

\* A thread works for a run that has been started.
Begun == \A r \in Runs : thread[r] # "none" => stage[r] \notin {"fresh", "created"}

\* A run that something is at work for has its row, unless somebody removed it.
RowKept ==
  \A r \in Runs :
    /\ stage[r] = "fresh" => row[r] = "none"
    /\ stage[r] # "fresh" /\ row[r] = "none" => Settled(r) \/ Live(r)

\* Who removed the row of a run that was settled; the run stays so.
RowTaken ==
  \A q \in Requests, r \in Runs :
    <<q, r, "row">> \in removed =>
      Settled(r) /\ row[r] = "none" /\ target[q] = r /\ op[q] \in Deletions
      /\ pos[q] \in {"purging", "unsealed", "closing", "done"}

\* One request at a time makes a run, and nothing happens to the run meanwhile.
Creating(q) == op[q] = "create" /\ pos[q] \in {"created", "audited"}

OneCreates ==
  \A q \in Requests : Creating(q) =>
    stage[target[q]] = "created" /\ \A p \in Requests : Creating(p) => p = q

\* What a request found stays begun.
Found ==
  \A q \in Requests :
    /\ op[q] \in Deletions \cup Signals
    /\ pos[q] \in {"found", "accepted", "noting", "purging", "unsealed", "closing"}
    => stage[target[q]] # "fresh"

\* How far a purge of a settled run has come; nothing of it comes back.
PurgeProgress ==
  \A q \in Requests, r \in Runs :
    /\ op[q] = "purge" /\ target[q] = r /\ ~Live(r)
    /\ pos[q] \in {"purging", "unsealed", "closing"} \/ answer[q] = "ok"
    => /\ row[r] = "none" /\ Settled(r)
       /\ pos[q] = "unsealed" => checkout[r] # "sealed"
       /\ pos[q] = "closing" \/ answer[q] = "ok" => r \notin directory

Inv ==
  /\ TypeOK /\ Targeted /\ Routed /\ Told /\ Guarded
  /\ Begun /\ RowKept /\ RowTaken /\ OneCreates /\ Found /\ PurgeProgress /\ LeftoversExplained

-----------------------------------------------------------------------------
(* Types.                                                                   *)

\* What the assumption says of the constants.
LEMMA ConstantTypes ==
  /\ Present \subseteq Runs /\ MaxCrashes \in Nat
  /\ Modes \subseteq {"disabled", "trusted_header", "e2e_token", "api_key"}
  /\ Ops \subseteq {"create", "download"} \cup Deletions \cup Collections \cup Signals
  /\ DefaultRole \in Roles
BY RunStorageAssumption DEF Deletions, Collections, Signals

\* A step of a request changes what is kept of that request only.
LEMMA OneMoves ==
  ASSUME NEW q \in Requests, Serve(q)
  PROVE  /\ UNCHANGED pos \/ \E v \in Positions : pos' = [pos EXCEPT ![q] = v]
         /\ UNCHANGED answer \/ \E v \in Answers : answer' = [answer EXCEPT ![q] = v]
<1>1. CASE Arrive(q)
  BY <1>1 DEF Arrive, Go, Reply, Positions, Answers
<1>2. CASE CreateRefused(q) \/ CreateRow(q) \/ CreateAudit(q) \/ CreateStart(q)
  BY <1>2 DEF CreateRefused, CreateRow, CreateAudit, CreateStart, Go, Reply, Positions, Answers
<1>3. CASE DeleteLookup(q) \/ DeleteRow(q) \/ Unseal(q) \/ RemoveTree(q) \/ Close(q)
  BY <1>3 DEF DeleteLookup, DeleteRow, Unseal, RemoveTree, Close, Go, Reply, Positions, Answers
<1>4. CASE DownloadLookup(q) \/ DownloadAudit(q) \/ DownloadServe(q)
  BY <1>4 DEF DownloadLookup, DownloadAudit, DownloadServe, Go, Reply, Positions, Answers
<1>7. CASE Lookup(q) \/ CancelFlag(q) \/ CancelAudit(q)
  BY <1>7 DEF Lookup, CancelFlag, CancelAudit, Go, Reply, Positions, Answers
<1>8. CASE CancelNote(q) \/ Reindex(q) \/ WalkFails(q)
  BY <1>8 DEF CancelNote, Reindex, WalkFails, Go, Reply, Positions, Answers
<1>5. CASE GcScan(q) \/ GcStat(q) \/ GcEnd(q)
  BY <1>5 DEF GcScan, GcStat, GcEnd, Go, Reply, Positions, Answers
<1>6. CASE GcLook(q)
  BY <1>6 DEF GcLook, Go, Positions
<1> QED
  BY <1>1, <1>2, <1>3, <1>4, <1>5, <1>6, <1>7, <1>8 DEF Serve

LEMMA OneAsks ==
  ASSUME NEW q \in Requests, Serve(q)
  PROVE  \/ UNCHANGED asked
         \/ \E o \in Ops, h \in Headers :
              op' = [op EXCEPT ![q] = o] /\ header' = [header EXCEPT ![q] = h]
BY DEF Serve, Lookup, CancelFlag, CancelAudit, CancelNote, Reindex, WalkFails,
   Arrive, CreateRefused, CreateRow, CreateAudit, CreateStart, DeleteLookup, DeleteRow,
   Unseal, RemoveTree, Close, DownloadLookup, DownloadAudit, DownloadServe, GcScan, GcLook, GcStat, GcEnd

LEMMA OneTargets ==
  ASSUME TypeOK, NEW q \in Requests, Serve(q)
  PROVE  UNCHANGED target \/ \E r \in Runs \cup {NoRun} : target' = [target EXCEPT ![q] = r]
<1>1. CASE Arrive(q)
  BY <1>1 DEF Arrive
<1>2. CASE CreateRow(q)
  BY <1>2 DEF CreateRow
<1>3. CASE GcLook(q)
  <2>1. todo[q] \subseteq Runs
    BY DEF TypeOK
  <2> QED
    BY <1>3, <2>1 DEF GcLook
<1>4. CASE UNCHANGED target
  BY <1>4
<1> QED
  BY <1>1, <1>2, <1>3, <1>4 DEF Serve, Lookup, CancelFlag, CancelAudit, CancelNote, Reindex, WalkFails,
     CreateRefused, CreateAudit, CreateStart, DeleteLookup, DeleteRow, Unseal,
     RemoveTree, Close, DownloadLookup, DownloadAudit, DownloadServe, GcScan, GcStat, GcEnd

LEMMA OneSearches ==
  ASSUME TypeOK, NEW q \in Requests, Serve(q)
  PROVE  UNCHANGED todo \/ \E S \in SUBSET Runs : todo' = [todo EXCEPT ![q] = S]
<1>1. todo[q] \subseteq Runs /\ directory \subseteq Runs
  BY DEF TypeOK
<1>2. CASE RemoveTree(q)
  BY <1>1, <1>2 DEF RemoveTree
<1>3. CASE GcScan(q)
  BY <1>1, <1>3 DEF GcScan
<1>4. CASE GcLook(q)
  BY <1>1, <1>4 DEF GcLook
<1>5. CASE GcStat(q)
  BY <1>1, <1>5 DEF GcStat
<1>6. CASE UNCHANGED todo
  BY <1>6
<1> QED
  BY <1>2, <1>3, <1>4, <1>5, <1>6 DEF Serve, Lookup, CancelFlag, CancelAudit, CancelNote, Reindex, WalkFails,
     Arrive, CreateRefused, CreateRow, CreateAudit, CreateStart,
     DeleteLookup, DeleteRow, Unseal, Close, DownloadLookup, DownloadAudit, DownloadServe, GcEnd

LEMMA OneIsTold ==
  ASSUME NEW q \in Requests, Serve(q)
  PROVE  UNCHANGED audit \/ audit' = audit \cup {q}
BY DEF Serve, Lookup, CancelFlag, CancelAudit, CancelNote, Reindex, WalkFails,
   Arrive, CreateRefused, CreateRow, CreateAudit, CreateStart, DeleteLookup, DeleteRow,
   Unseal, RemoveTree, Close, DownloadLookup, DownloadAudit, DownloadServe, GcScan, GcLook, GcStat, GcEnd

\* What a step of a request removes.
LEMMA OneRemoves ==
  ASSUME NEW q \in Requests, Serve(q)
  PROVE  \/ UNCHANGED removed
         \/ DeleteRow(q) /\ row[target[q]] # "none" /\ removed' = removed \cup {<<q, target[q], Of(target[q])>>}
         \/ RemoveTree(q) /\ target[q] \in directory /\ removed' = removed \cup {<<q, target[q], "tree">>}
<1>1. CASE DeleteRow(q)
  <2>1. removed' = removed \cup (IF row[target[q]] = "none" THEN {} ELSE {<<q, target[q], Of(target[q])>>})
    BY <1>1 DEF DeleteRow
  <2> QED
    BY <1>1, <2>1
<1>2. CASE RemoveTree(q)
  <2>1. removed' = removed \cup (IF target[q] \in directory THEN {<<q, target[q], "tree">>} ELSE {})
    BY <1>2 DEF RemoveTree
  <2> QED
    BY <1>2, <2>1
<1>3. CASE UNCHANGED removed
  BY <1>3
<1> QED
  BY <1>1, <1>2, <1>3 DEF Serve, Lookup, CancelFlag, CancelAudit, CancelNote, Reindex, WalkFails,
     Arrive, CreateRefused, CreateRow, CreateAudit, CreateStart, DeleteLookup,
     Unseal, Close, DownloadLookup, DownloadAudit, DownloadServe, GcScan, GcLook, GcStat, GcEnd

\* A request that moves leaves the others as they are, and what they removed.
LEMMA Others ==
  ASSUME TypeOK, NEW q \in Requests, Serve(q), NEW p \in Requests, p # q
  PROVE  /\ pos'[p] = pos[p] /\ op'[p] = op[p] /\ header'[p] = header[p] /\ target'[p] = target[p]
         /\ answer'[p] = answer[p] /\ (p \in audit' <=> p \in audit)
         /\ \A r, w : <<p, r, w>> \in removed' <=> <<p, r, w>> \in removed
<1>1. /\ pos \in [Requests -> Positions] /\ answer \in [Requests -> Answers]
      /\ op \in [Requests -> Ops \cup {"none"}] /\ header \in [Requests -> Headers \cup {NoHeader}]
      /\ target \in [Requests -> Runs \cup {NoRun}]
  BY DEF TypeOK, Positions, Answers
<1>2. pos'[p] = pos[p] /\ answer'[p] = answer[p]
  BY <1>1, OneMoves
<1>3. op'[p] = op[p] /\ header'[p] = header[p]
  BY <1>1, OneAsks DEF asked
<1>4. target'[p] = target[p]
  BY <1>1, OneTargets
<1>5. p \in audit' <=> p \in audit
  BY OneIsTold
<1>6. \A r, w : <<p, r, w>> \in removed' <=> <<p, r, w>> \in removed
  BY OneRemoves
<1> QED
  BY <1>2, <1>3, <1>4, <1>5, <1>6

\* The variables of the requests keep their types.
LEMMA RequestTypes ==
  ASSUME TypeOK, Targeted, NEW q \in Requests, Serve(q)
  PROVE  /\ pos' \in [Requests -> Positions] /\ answer' \in [Requests -> Answers]
         /\ op' \in [Requests -> Ops \cup {"none"}] /\ header' \in [Requests -> Headers \cup {NoHeader}]
         /\ target' \in [Requests -> Runs \cup {NoRun}] /\ todo' \in [Requests -> SUBSET Runs]
         /\ audit' \in SUBSET Requests
         /\ removed' \in SUBSET (Requests \X Runs \X {"row", "live row", "tree"})
         /\ crashes' \in 0 .. MaxCrashes /\ mode' \in Modes
<1>1. /\ pos \in [Requests -> Positions] /\ answer \in [Requests -> Answers]
      /\ op \in [Requests -> Ops \cup {"none"}] /\ header \in [Requests -> Headers \cup {NoHeader}]
      /\ target \in [Requests -> Runs \cup {NoRun}] /\ todo \in [Requests -> SUBSET Runs]
      /\ audit \in SUBSET Requests
      /\ removed \in SUBSET (Requests \X Runs \X {"row", "live row", "tree"})
      /\ crashes \in 0 .. MaxCrashes /\ mode \in Modes /\ directory \subseteq Runs
  BY DEF TypeOK, Positions, Answers
<1>2. pos' \in [Requests -> Positions] /\ answer' \in [Requests -> Answers]
  BY <1>1, OneMoves
<1>3. op' \in [Requests -> Ops \cup {"none"}] /\ header' \in [Requests -> Headers \cup {NoHeader}]
  <2>1. CASE UNCHANGED asked
    BY <1>1, <2>1 DEF asked
  <2>2. ASSUME NEW o \in Ops, NEW h \in Headers, op' = [op EXCEPT ![q] = o], header' = [header EXCEPT ![q] = h]
        PROVE  op' \in [Requests -> Ops \cup {"none"}] /\ header' \in [Requests -> Headers \cup {NoHeader}]
    BY <1>1, <2>2
  <2> QED
    BY <2>1, <2>2, OneAsks
<1>4. target' \in [Requests -> Runs \cup {NoRun}]
  BY <1>1, OneTargets
<1>5. todo' \in [Requests -> SUBSET Runs]
  BY <1>1, OneSearches
<1>6. audit' \in SUBSET Requests
  BY <1>1, OneIsTold
<1>7. removed' \in SUBSET (Requests \X Runs \X {"row", "live row", "tree"})
  <2>1. CASE UNCHANGED removed
    BY <1>1, <2>1
  <2>2. CASE DeleteRow(q) /\ removed' = removed \cup {<<q, target[q], Of(target[q])>>}
    <3>1. target[q] \in Runs
      BY <2>2 DEF DeleteRow, Targeted, Deletions
    <3>2. Of(target[q]) \in {"row", "live row", "tree"}
      BY DEF Of
    <3>3. <<q, target[q], Of(target[q])>> \in Requests \X Runs \X {"row", "live row", "tree"}
      BY <3>1, <3>2
    <3> QED
      BY <1>1, <2>2, <3>3
  <2>3. CASE target[q] \in directory /\ removed' = removed \cup {<<q, target[q], "tree">>}
    <3>1. <<q, target[q], "tree">> \in Requests \X Runs \X {"row", "live row", "tree"}
      BY <1>1, <2>3
    <3> QED
      BY <1>1, <2>3, <3>1
  <2> QED
    BY <2>1, <2>2, <2>3, OneRemoves
<1>8. UNCHANGED <<crashes, mode>>
  BY DEF Serve, Lookup, CancelFlag, CancelAudit, CancelNote, Reindex, WalkFails,
   Arrive, CreateRefused, CreateRow, CreateAudit, CreateStart, DeleteLookup, DeleteRow,
     Unseal, RemoveTree, Close, DownloadLookup, DownloadAudit, DownloadServe, GcScan, GcLook, GcStat, GcEnd
<1> QED
  BY <1>1, <1>2, <1>3, <1>4, <1>5, <1>6, <1>7, <1>8

\* A request changes a row, a directory or the state of a run in few of its steps.
LEMMA RunFrame ==
  ASSUME NEW q \in Requests, Serve(q)
  PROVE  /\ \/ CreateRow(q) \/ CreateStart(q) \/ DeleteRow(q) \/ Unseal(q) \/ RemoveTree(q)
            \/ CancelNote(q) \/ Reindex(q)
            \/ UNCHANGED <<row, stage, disk>>
         /\ UNCHANGED thread
BY DEF Serve, Lookup, CancelFlag, CancelAudit, CancelNote, Reindex, WalkFails, Arrive, CreateRefused,
   CreateRow, CreateAudit, CreateStart, DeleteLookup, DeleteRow, Unseal, RemoveTree, Close, DownloadLookup,
   DownloadAudit, DownloadServe, GcScan, GcLook, GcStat, GcEnd

\* The variables of the runs keep theirs.
LEMMA RunTypes ==
  ASSUME TypeOK, Targeted, Routed, NEW q \in Requests, Serve(q)
  PROVE  /\ row' \in [Runs -> {"none", "bare", "listed"}] /\ stage' \in [Runs -> Stages]
         /\ thread' \in [Runs -> Threads]
         /\ directory' \in SUBSET Runs /\ files' \in SUBSET Runs
         /\ checkout' \in [Runs -> {"none", "open", "sealed"}] /\ old' \in SUBSET Runs
<1>1. /\ row \in [Runs -> {"none", "bare", "listed"}] /\ stage \in [Runs -> Stages]
      /\ thread \in [Runs -> Threads] /\ UNCHANGED thread
      /\ directory \in SUBSET Runs /\ files \in SUBSET Runs
      /\ checkout \in [Runs -> {"none", "open", "sealed"}] /\ old \in SUBSET Runs
  BY RunFrame DEF TypeOK, Stages, Threads
<1>2. CASE CreateRow(q)
  BY <1>1, <1>2 DEF CreateRow, disk, Stages
<1>3. CASE CreateStart(q)
  <2>1. target[q] \in Runs
    BY <1>3 DEF CreateStart, Targeted
  <2> QED
    BY <1>1, <1>3, <2>1 DEF CreateStart, Stages
<1>4. CASE DeleteRow(q)
  BY <1>1, <1>4 DEF DeleteRow, disk
<1>5. CASE Unseal(q)
  BY <1>1, <1>5 DEF Unseal
<1>6. CASE RemoveTree(q)
  BY <1>1, <1>6 DEF RemoveTree
<1>7. CASE CancelNote(q) \/ Reindex(q)
  <2>1. target[q] \in Runs
    BY <1>7 DEF CancelNote, Reindex, Targeted, Routed, Signals
  <2>2. directory' \subseteq directory \cup {target[q]} /\ UNCHANGED <<row, stage, files, checkout, old>>
    BY <1>7 DEF CancelNote, Reindex
  <2> QED
    BY <1>1, <2>1, <2>2
<1>8. CASE UNCHANGED <<row, stage, disk>>
  BY <1>1, <1>8 DEF disk
<1> QED
  BY <1>2, <1>3, <1>4, <1>5, <1>6, <1>7, <1>8, RunFrame

\* What a run does, and its threads.
Works(r) == Coroutine(r) \/ Thread(r) \/ Age(r)

\* A run that executes keeps the types of all variables.
LEMMA ExecuteTypes ==
  ASSUME TypeOK, NEW r \in Runs, Works(r)
  PROVE  TypeOK' /\ UNCHANGED <<mode, pos, asked, target, todo, answer, audit, removed, crashes>>
<1>1. CASE StartFetch(r)
  BY <1>1 DEF StartFetch, TypeOK, asked
<1>2. CASE StartAgent(r)
  BY <1>2 DEF StartAgent, TypeOK, asked, disk
<1>3. CASE Journal(r)
  BY <1>3 DEF Journal, TypeOK, asked
<1>4. CASE WriteFiles(r)
  BY <1>4 DEF WriteFiles, TypeOK, asked
<1>5. CASE EndRun(r)
  BY <1>5 DEF EndRun, TypeOK, asked
<1>6. CASE MakeCheckout(r)
  BY <1>6 DEF MakeCheckout, TypeOK, asked
<1>7. CASE SealCheckout(r)
  BY <1>7 DEF SealCheckout, TypeOK, asked
<1>8. CASE ThreadWrites(r)
  BY <1>8 DEF ThreadWrites, TypeOK, asked
<1>9. CASE ThreadEnds(r)
  <2>1. \E c \in {"none", "open", "sealed"} : checkout' = [checkout EXCEPT ![r] = c]
    BY <1>9 DEF ThreadEnds, TypeOK
  <2>2. checkout' \in [Runs -> {"none", "open", "sealed"}]
    BY <2>1 DEF TypeOK
  <2> QED
    BY <1>9, <2>2 DEF ThreadEnds, TypeOK, asked
<1>10. CASE Age(r)
  BY <1>10 DEF Age, TypeOK, asked
<1> QED
  BY <1>1, <1>2, <1>3, <1>4, <1>5, <1>6, <1>7, <1>8, <1>9, <1>10 DEF Works, Coroutine, Thread

\* What a crash leaves.
LEMMA CrashTypes ==
  ASSUME TypeOK, Crash
  PROVE  TypeOK'
<1>1. stage' = [r \in Runs |-> IF stage[r] = "fresh" THEN "fresh" ELSE "ended"]
  BY DEF Crash
<1>2. stage' \in [Runs -> Stages]
  BY <1>1 DEF Stages
<1>3. pos' \in [Requests -> Positions]
  BY DEF Crash, Positions
<1>4. answer' \in [Requests -> Answers]
  BY DEF Crash, TypeOK, Answers
<1>5. crashes' \in 0 .. MaxCrashes
  <2>1. crashes \in 0 .. MaxCrashes /\ crashes < MaxCrashes /\ crashes' = crashes + 1
    BY DEF Crash, TypeOK
  <2>2. MaxCrashes \in Nat
    BY ConstantTypes
  <2> QED
    BY <2>1, <2>2
<1>6. UNCHANGED <<mode, row, directory, files, checkout, old, op, header, target, todo, audit, removed>>
  BY DEF Crash, disk, asked
<1>7. thread' \in [Runs -> Threads]
  BY DEF Crash, Threads
<1> QED
  BY <1>2, <1>3, <1>4, <1>5, <1>6, <1>7 DEF TypeOK, Stages, Threads, Positions, Answers

\* Which of its steps bring a request to work on a run, and what the run is.
LEMMA TargetedKept ==
  ASSUME TypeOK, Targeted, [Next]_vars
  PROVE  Targeted'
<1> USE DEF Deletions, Signals
<1>1. ASSUME NEW q \in Requests, Serve(q) PROVE Targeted'
  <2>1. SUFFICES ASSUME NEW p \in Requests,
                        \/ op'[p] \in Deletions \cup Signals \cup {"download"}
                        \/ pos'[p] \in {"created", "audited", "stat", "purging", "unsealed"}
                 PROVE  target'[p] \in Runs
    BY DEF Targeted
  <2>2. /\ pos \in [Requests -> Positions] /\ op \in [Requests -> Ops \cup {"none"}]
        /\ target \in [Requests -> Runs \cup {NoRun}] /\ directory \subseteq Runs
    BY DEF TypeOK, Positions
  <2>3. CASE p # q
    BY <1>1, <2>1, <2>3, Others DEF Targeted
  <2>4. CASE p = q
    <3>1. CASE Arrive(q)
      <4>1. pos'[q] \in {"entered", "done"}
        BY <2>2, <3>1 DEF Arrive, Go, Reply
      <4>2. PICK o \in Ops :
              /\ op' = [op EXCEPT ![q] = o]
              /\ \E r \in (IF o \in {"cancel", "delete", "purge", "download", "reindex"} THEN Runs ELSE {NoRun}) :
                   target' = [target EXCEPT ![q] = r]
        BY <3>1 DEF Arrive
      <4> QED
        BY <2>1, <2>2, <2>4, <4>1, <4>2
    <3>2. CASE CreateRow(q)
      BY <2>2, <2>4, <3>2 DEF CreateRow
    <3>3. CASE GcLook(q)
      BY <2>1, <2>2, <2>4, <3>3 DEF GcLook, Targeted, asked
    <3>4. CASE CreateRefused(q) \/ CreateAudit(q) \/ CreateStart(q) \/ Close(q)
      BY <2>1, <2>2, <2>4, <3>4 DEF CreateRefused, CreateAudit, CreateStart, Close, Go, Reply, Targeted, asked
    <3>5. CASE DeleteLookup(q) \/ DeleteRow(q) \/ Unseal(q) \/ RemoveTree(q)
      BY <2>1, <2>2, <2>4, <3>5 DEF DeleteLookup, DeleteRow, Unseal, RemoveTree, Go, Reply, Targeted, asked
    <3>6. CASE DownloadLookup(q) \/ DownloadAudit(q) \/ DownloadServe(q)
      BY <2>1, <2>2, <2>4, <3>6 DEF DownloadLookup, DownloadAudit, DownloadServe, Go, Reply, Targeted, asked
    <3>7. CASE GcScan(q) \/ GcStat(q) \/ GcEnd(q)
      BY <2>1, <2>2, <2>4, <3>7 DEF GcScan, GcStat, GcEnd, Go, Reply, Targeted, asked
    <3>8. CASE Lookup(q) \/ CancelFlag(q) \/ CancelAudit(q) \/ CancelNote(q) \/ Reindex(q) \/ WalkFails(q)
      BY <2>1, <2>2, <2>4, <3>8
         DEF Lookup, CancelFlag, CancelAudit, CancelNote, Reindex, WalkFails, Go, Reply, Targeted, asked
    <3> QED
      BY <1>1, <3>1, <3>2, <3>3, <3>4, <3>5, <3>6, <3>7, <3>8 DEF Serve
  <2> QED
    BY <2>3, <2>4
<1>2. ASSUME NEW r \in Runs, Works(r) PROVE Targeted'
  BY <1>2, ExecuteTypes DEF Targeted, asked
<1>3. CASE Crash
  BY <1>3 DEF Crash, Targeted, asked
<1>4. CASE UNCHANGED vars
  BY <1>4 DEF vars, Targeted, asked
<1> QED
  BY <1>1, <1>2, <1>3, <1>4 DEF Next, Works

LEMMA RoutedKept ==
  ASSUME TypeOK, Routed, [Next]_vars
  PROVE  Routed'
<1> USE DEF Deletions, Collections, Signals
<1>1. ASSUME NEW q \in Requests, Serve(q) PROVE Routed'
  <2>1. SUFFICES ASSUME NEW p \in Requests
                 PROVE  /\ pos'[p] \in {"purging", "unsealed"} => op'[p] \in {"purge"} \cup Collections
                        /\ pos'[p] \in {"scanning", "stat"} => op'[p] \in Collections
                        /\ pos'[p] = "closing" => op'[p] \in Deletions \cup Collections \cup Signals
                        /\ pos'[p] \in {"accepted", "noting"} => op'[p] = "cancel"
                        /\ pos'[p] = "created" => op'[p] = "create"
    BY DEF Routed
  <2>2. /\ pos \in [Requests -> Positions] /\ op \in [Requests -> Ops \cup {"none"}]
    BY DEF TypeOK, Positions
  <2>3. CASE p # q
    BY <1>1, <2>3, Others DEF Routed
  <2>4. CASE p = q
    <3>1. CASE Arrive(q)
      BY <2>2, <2>4, <3>1 DEF Arrive, Go, Reply
    <3>2. CASE CreateRefused(q) \/ CreateRow(q) \/ CreateAudit(q) \/ CreateStart(q) \/ Close(q)
      BY <2>2, <2>4, <3>2 DEF CreateRefused, CreateRow, CreateAudit, CreateStart, Close, Go, Reply, Routed, asked
    <3>3. CASE DeleteLookup(q) \/ DeleteRow(q) \/ Unseal(q) \/ RemoveTree(q)
      BY <2>2, <2>4, <3>3 DEF DeleteLookup, DeleteRow, Unseal, RemoveTree, Go, Reply, Routed, asked
    <3>4. CASE DownloadLookup(q) \/ DownloadAudit(q) \/ DownloadServe(q)
      BY <2>2, <2>4, <3>4 DEF DownloadLookup, DownloadAudit, DownloadServe, Go, Reply, Routed, asked
    <3>5. CASE GcScan(q) \/ GcStat(q) \/ GcEnd(q)
      BY <2>2, <2>4, <3>5 DEF GcScan, GcStat, GcEnd, Go, Reply, Routed, asked
    <3>6. CASE GcLook(q)
      BY <2>2, <2>4, <3>6 DEF GcLook, Go, Routed, asked
    <3>7. CASE Lookup(q) \/ CancelFlag(q) \/ CancelAudit(q) \/ CancelNote(q) \/ Reindex(q) \/ WalkFails(q)
      BY <2>2, <2>4, <3>7
         DEF Lookup, CancelFlag, CancelAudit, CancelNote, Reindex, WalkFails, Go, Reply, Routed, asked
    <3> QED
      BY <1>1, <3>1, <3>2, <3>3, <3>4, <3>5, <3>6, <3>7 DEF Serve
  <2> QED
    BY <2>3, <2>4
<1>2. ASSUME NEW r \in Runs, Works(r) PROVE Routed'
  BY <1>2, ExecuteTypes DEF Routed, asked
<1>3. CASE Crash
  BY <1>3 DEF Crash, Routed, asked
<1>4. CASE UNCHANGED vars
  BY <1>4 DEF vars, Routed, asked
<1> QED
  BY <1>1, <1>2, <1>3, <1>4 DEF Next, Works

LEMMA TypesKept ==
  ASSUME TypeOK, Targeted, Routed, [Next]_vars
  PROVE  TypeOK'
<1>1. ASSUME NEW q \in Requests, Serve(q) PROVE TypeOK'
  BY <1>1, RequestTypes, RunTypes DEF TypeOK, Stages, Threads, Positions, Answers
<1>2. ASSUME NEW r \in Runs, Works(r) PROVE TypeOK'
  BY <1>2, ExecuteTypes
<1>3. CASE Crash
  BY <1>3, CrashTypes
<1>4. CASE UNCHANGED vars
  BY <1>4 DEF vars, disk, asked, TypeOK
<1> QED
  BY <1>1, <1>2, <1>3, <1>4 DEF Next, Works

LEMMA TypesStart ==
  Init => TypeOK /\ Targeted /\ Routed
<1> SUFFICES ASSUME Init PROVE TypeOK /\ Targeted /\ Routed
  OBVIOUS
<1>1. TypeOK
  BY ConstantTypes DEF Init, TypeOK
<1>2. Targeted
  BY DEF Init, Targeted, Deletions, Signals
<1>3. Routed
  BY DEF Init, Routed
<1> QED
  BY <1>1, <1>2, <1>3

\* The types of the store: rows, directories and requests stay in their sets in
\* every interleaving of requests, runs and crashes.
THEOREM TypeCorrect == Spec => []TypeOK
<1>1. Init => TypeOK /\ Targeted /\ Routed
  BY TypesStart
<1>2. (TypeOK /\ Targeted /\ Routed) /\ [Next]_vars => (TypeOK /\ Targeted /\ Routed)'
  BY TypesKept, TargetedKept, RoutedKept
<1> QED
  BY <1>1, <1>2, PTL DEF Spec

-----------------------------------------------------------------------------
(* What a request has done, and for whom.                                   *)

LEMMA SparedFrame ==
  ASSUME TypeOK, NEW q \in Requests, Serve(q)
  PROVE  /\ \A p \in Requests : p # q => (Spared(p)' <=> Spared(p))
         /\ DeleteRow(q) \/ RemoveTree(q) \/ (Spared(q)' <=> Spared(q))
<1>1. ASSUME NEW p \in Requests, p # q PROVE Spared(p)' <=> Spared(p)
  <2>1. \A r, w : <<q, r, w>>[1] # p
    BY <1>1
  <2>2. removed' = removed \/ \E r, w : removed' = removed \cup {<<q, r, w>>}
    BY OneRemoves
  <2>3. {x \in removed' : x[1] = p} = {x \in removed : x[1] = p}
    BY <2>1, <2>2
  <2> QED
    BY <2>3 DEF Spared, Removals
<1>2. DeleteRow(q) \/ RemoveTree(q) \/ UNCHANGED removed
  BY OneRemoves
<1>3. ASSUME UNCHANGED removed PROVE Spared(q)' <=> Spared(q)
  BY <1>3 DEF Spared, Removals
<1> QED
  BY <1>1, <1>2, <1>3

LEMMA ToldKept ==
  ASSUME TypeOK, Told, [Next]_vars
  PROVE  Told'
<1>1. ASSUME NEW q \in Requests, Serve(q) PROVE Told'
  <2>1. SUFFICES ASSUME NEW p \in Requests
                 PROVE  /\ answer'[p] # "none" => pos'[p] = "done"
                        /\ pos'[p] \in {"idle", "entered", "created", "found", "accepted"} => p \notin audit' /\ Spared(p)'
                        /\ pos'[p] \in {"audited", "noting"} => p \in audit'
                        /\ answer'[p] = "ok" => p \in audit'
                        /\ answer'[p] \in {"refused", "missing"} => p \notin audit' /\ Spared(p)'
    BY DEF Told
  <2>2. pos \in [Requests -> Positions] /\ answer \in [Requests -> Answers]
    BY DEF TypeOK, Positions, Answers
  <2>3. CASE p # q
    BY <1>1, <2>3, Others, SparedFrame DEF Told
  <2>4. CASE p = q
    <3>a. /\ answer[q] # "none" => pos[q] = "done"
          /\ pos[q] \in {"idle", "entered", "created", "found", "accepted"} => q \notin audit /\ Spared(q)
          /\ pos[q] \in {"audited", "noting"} => q \in audit
      BY DEF Told
    <3>b. DeleteRow(q) \/ RemoveTree(q) \/ (Spared(q)' <=> Spared(q))
      BY <1>1, SparedFrame
    <3> USE <2>2, <2>4, <3>a, <3>b
    <3>1. CASE Arrive(q)
      BY <3>1 DEF Arrive, Go, Reply, DeleteRow, RemoveTree
    <3>2. CASE CreateRefused(q) \/ CreateRow(q)
      BY <3>2 DEF CreateRefused, CreateRow, Go, Reply, DeleteRow, RemoveTree
    <3>3. CASE CreateAudit(q) \/ CreateStart(q) \/ Close(q)
      BY <3>3 DEF CreateAudit, CreateStart, Close, Go, Reply, DeleteRow, RemoveTree
    <3>4. CASE DeleteLookup(q)
      BY <3>4 DEF DeleteLookup, Go, Reply, DeleteRow, RemoveTree
    <3>5. CASE DeleteRow(q) \/ Unseal(q) \/ RemoveTree(q)
      BY <3>5 DEF DeleteRow, Unseal, RemoveTree, Go
    <3>6. CASE DownloadLookup(q)
      BY <3>6 DEF DownloadLookup, Go, Reply, DeleteRow, RemoveTree
    <3>7. CASE DownloadAudit(q) \/ DownloadServe(q)
      BY <3>7 DEF DownloadAudit, DownloadServe, Go, Reply, DeleteRow, RemoveTree
    <3>8. CASE GcScan(q) \/ GcStat(q) \/ GcEnd(q)
      BY <3>8 DEF GcScan, GcStat, GcEnd, Go, Reply, DeleteRow, RemoveTree
    <3>9. CASE GcLook(q)
      BY <3>9 DEF GcLook, Go, DeleteRow, RemoveTree
    <3>10. CASE Lookup(q) \/ CancelFlag(q) \/ CancelAudit(q) \/ CancelNote(q) \/ Reindex(q) \/ WalkFails(q)
      BY <3>10 DEF Lookup, CancelFlag, CancelAudit, CancelNote, Reindex, WalkFails, Go, Reply, DeleteRow, RemoveTree
    <3> QED
      BY <1>1, <3>10, <3>1, <3>2, <3>3, <3>4, <3>5, <3>6, <3>7, <3>8, <3>9 DEF Serve
  <2> QED
    BY <2>3, <2>4
<1>2. ASSUME NEW r \in Runs, Works(r) PROVE Told'
  BY <1>2, ExecuteTypes DEF Told, Spared, Removals
<1>3. CASE Crash
  BY <1>3 DEF Crash, Told, Spared, Removals
<1>4. CASE UNCHANGED vars
  BY <1>4 DEF vars, Told, Spared, Removals
<1> QED
  BY <1>1, <1>2, <1>3, <1>4 DEF Next, Works

\* The audit log is exact: every request that succeeded is in it, and one that was
\* refused or found nothing is not and has removed nothing.
THEOREM AuditIsExact == Spec => []AuditExact
<1>1. Init => TypeOK /\ Targeted /\ Routed /\ Told
  <2>1. Init => Told
    BY DEF Init, Told, Spared, Removals
  <2> QED
    BY <2>1, TypesStart
<1>2. (TypeOK /\ Targeted /\ Routed /\ Told) /\ [Next]_vars => (TypeOK /\ Targeted /\ Routed /\ Told)'
  BY TypesKept, TargetedKept, RoutedKept, ToldKept
<1>3. TypeOK /\ Targeted /\ Routed /\ Told => AuditExact
  BY DEF Told, AuditExact, Spared
<1> QED
  BY <1>1, <1>2, <1>3, PTL DEF Spec

\* Only a deletion or a collection that was admitted removes anything.
LEMMA GuardedKept ==
  ASSUME TypeOK, Routed, Told, Guarded, [Next]_vars
  PROVE  Guarded'
<1> USE DEF Deletions, Collections
<1>1. ASSUME NEW q \in Requests, Serve(q) PROVE Guarded'
  <2>1. SUFFICES ASSUME NEW p \in Requests
                 PROVE  /\ pos'[p] \notin {"idle", "done"} \/ ~Spared(p)' => Admitted(op[p], header[p])'
                        /\ ~Spared(p)' => op'[p] \in Deletions \cup Collections
    BY DEF Guarded
  <2>2. /\ pos \in [Requests -> Positions] /\ op \in [Requests -> Ops \cup {"none"}]
        /\ header \in [Requests -> Headers \cup {NoHeader}]
    BY DEF TypeOK, Positions
  <2>3. UNCHANGED mode
    BY <1>1 DEF Serve, Lookup, CancelFlag, CancelAudit, CancelNote, Reindex, WalkFails,
     Arrive, CreateRefused, CreateRow, CreateAudit, CreateStart, DeleteLookup, DeleteRow,
       Unseal, RemoveTree, Close, DownloadLookup, DownloadAudit, DownloadServe, GcScan, GcLook, GcStat, GcEnd
  <2>4. ASSUME op'[p] = op[p], header'[p] = header[p]
        PROVE  Admitted(op[p], header[p])' <=> Admitted(op[p], header[p])
    BY <2>3, <2>4 DEF Admitted, Authenticate
  <2>5. CASE p # q
    BY <1>1, <2>4, <2>5, Others, SparedFrame DEF Guarded
  <2>6. CASE p = q /\ Arrive(q)
    <3>1. Spared(q) /\ pos[q] = "idle"
      BY <2>6 DEF Told, Arrive
    <3>2. Spared(q)'
      BY <3>1, <2>6 DEF Arrive, Spared, Removals
    <3>3. PICK o \in Ops, h \in Headers :
            /\ op' = [op EXCEPT ![q] = o]
            /\ header' = [header EXCEPT ![q] = h]
            /\ IF Admitted(o, h) THEN Go(q, "entered") ELSE Reply(q, "refused")
      BY <2>6 DEF Arrive
    <3>4. op'[q] = o /\ header'[q] = h
      BY <2>2, <3>3
    <3>5. Admitted(op[q], header[q])' <=> Admitted(o, h)
      BY <2>3, <3>4 DEF Admitted, Authenticate
    <3>6. pos'[q] \notin {"idle", "done"} => Admitted(o, h)
      BY <2>2, <3>3 DEF Go, Reply
    <3> QED
      BY <2>6, <3>2, <3>5, <3>6
  <2>7. CASE p = q /\ ~Arrive(q)
    <3>1. op'[q] = op[q] /\ header'[q] = header[q]
      BY <1>1, <2>7 DEF Serve, Lookup, CancelFlag, CancelAudit, CancelNote, Reindex, WalkFails,
     CreateRefused, CreateRow, CreateAudit, CreateStart, DeleteLookup, DeleteRow,
         Unseal, RemoveTree, Close, DownloadLookup, DownloadAudit, DownloadServe, GcScan, GcLook, GcStat, GcEnd,
         asked
    <3>2. pos[q] \notin {"idle", "done"}
      BY <1>1, <2>7 DEF Serve, Lookup, CancelFlag, CancelAudit, CancelNote, Reindex, WalkFails,
     CreateRefused, CreateRow, CreateAudit, CreateStart, DeleteLookup, DeleteRow,
         Unseal, RemoveTree, Close, DownloadLookup, DownloadAudit, DownloadServe, GcScan, GcLook, GcStat, GcEnd
    <3>3. Admitted(op[p], header[p])'
      BY <2>4, <2>7, <3>1, <3>2 DEF Guarded
    <3>4. ~Spared(q)' => op[q] \in Deletions \cup Collections
      <4>1. CASE DeleteRow(q)
        BY <4>1 DEF DeleteRow
      <4>2. CASE RemoveTree(q)
        BY <4>2 DEF RemoveTree, Routed
      <4>3. CASE Spared(q)' <=> Spared(q)
        BY <4>3 DEF Guarded
      <4> QED
        BY <1>1, <4>1, <4>2, <4>3, SparedFrame
    <3> QED
      BY <2>7, <3>1, <3>3, <3>4
  <2> QED
    BY <2>5, <2>6, <2>7
<1>2. ASSUME UNCHANGED <<mode, op, header, removed>>,
             \A q \in Requests : pos'[q] \notin {"idle", "done"} => pos'[q] = pos[q]
      PROVE  Guarded'
  <2>1. \A q \in Requests : Spared(q)' <=> Spared(q)
    BY <1>2 DEF Spared, Removals
  <2>2. \A q \in Requests : Admitted(op[q], header[q])' <=> Admitted(op[q], header[q])
    BY <1>2 DEF Admitted, Authenticate
  <2> QED
    BY <1>2, <2>1, <2>2 DEF Guarded
<1>3. ASSUME NEW r \in Runs, Works(r) PROVE Guarded'
  BY <1>2, <1>3, ExecuteTypes DEF asked
<1>4. CASE Crash
  BY <1>2, <1>4 DEF Crash, asked
<1>5. CASE UNCHANGED vars
  BY <1>2, <1>5 DEF vars, asked
<1> QED
  BY <1>1, <1>3, <1>4, <1>5 DEF Next, Works

\* Who is an administrator in the mode the service runs in.
LEMMA AdminsAre ==
  ASSUME TypeOK, NEW o \in AdminOps, NEW h, Admitted(o, h)
  PROVE  \/ mode = "disabled"
         \/ mode = "trusted_header" /\ h.identity # None /\ DefaultRole = "admin"
         \/ /\ mode = "api_key"
            /\ \E k \in DOMAIN KeyMap :
                 KeyMap[k] = "admin" /\ (h.x_api_key = k \/ (h.x_api_key = None /\ h.bearer = k))
<1>1. Permission(o) = "admin"
  BY DEF Permission, AdminOps, ReaderOps, CreatorOps, QuerierOps
<1>2. \A role : "admin" \in RoleActions(role) => role = "admin"
  BY DEF RoleActions
<1>3. Authenticate(h) = "admin"
  BY <1>1, <1>2 DEF Admitted
<1>4. mode \in {"disabled", "trusted_header", "e2e_token", "api_key"}
  BY ConstantTypes DEF TypeOK
<1>5. CASE mode = "trusted_header"
  BY <1>3, <1>5 DEF Authenticate
<1>6. CASE mode = "e2e_token"
  BY <1>3, <1>6 DEF Authenticate
<1>7. CASE mode = "api_key"
  <2>1. Presented(h) \in DOMAIN KeyMap /\ KeyMap[Presented(h)] = "admin"
    BY <1>3, <1>7 DEF Authenticate
  <2>2. Presented(h) = h.x_api_key \/ (h.x_api_key = None /\ Presented(h) = h.bearer)
    BY DEF Presented
  <2> QED
    BY <1>7, <2>1, <2>2
<1> QED
  BY <1>4, <1>5, <1>6, <1>7

\* Whatever is removed of a run, its row or its directory, was removed for a caller
\* whose credential makes an administrator in the mode the service runs in.
THEOREM OnlyAdministrators == Spec => []OnlyAdminsRemove
<1>1. Init => TypeOK /\ Targeted /\ Routed /\ Told /\ Guarded
  <2>1. Init => Routed /\ Told /\ Guarded
    BY DEF Init, Routed, Told, Guarded, Spared, Removals
  <2> QED
    BY <2>1, TypesStart
<1>2. TypeOK /\ Targeted /\ Routed /\ Told /\ Guarded /\ [Next]_vars
        => (TypeOK /\ Targeted /\ Routed /\ Told /\ Guarded)'
  BY TypesKept, TargetedKept, RoutedKept, ToldKept, GuardedKept
<1>3. TypeOK /\ Targeted /\ Routed /\ Told /\ Guarded => OnlyAdminsRemove
  <2>1. SUFFICES ASSUME TypeOK, Guarded, NEW q \in Requests, Removals(q) # {}
                 PROVE  LET h == header[q] IN
                          \/ mode = "disabled"
                          \/ mode = "trusted_header" /\ h.identity # None /\ DefaultRole = "admin"
                          \/ /\ mode = "api_key"
                             /\ \E k \in DOMAIN KeyMap :
                                  KeyMap[k] = "admin" /\ (h.x_api_key = k \/ (h.x_api_key = None /\ h.bearer = k))
    BY DEF OnlyAdminsRemove
  <2>2. Admitted(op[q], header[q]) /\ op[q] \in AdminOps
    BY <2>1 DEF Guarded, Spared, Deletions, Collections, AdminOps
  <2> QED
    BY <2>1, <2>2, AdminsAre
<1> QED
  BY <1>1, <1>2, <1>3, PTL DEF Spec

-----------------------------------------------------------------------------
(* What is there of a run.                                                  *)

\* Nothing is forgotten of what was removed.
LEMMA RemovedGrows ==
  ASSUME TypeOK, [Next]_vars
  PROVE  removed \subseteq removed' /\ \A r : Live(r) => Live(r)'
<1>1. removed \subseteq removed'
  <2>1. ASSUME NEW q \in Requests, Serve(q) PROVE removed \subseteq removed'
    BY <2>1, OneRemoves
  <2>2. ASSUME NEW r \in Runs, Works(r) PROVE removed \subseteq removed'
    BY <2>2, ExecuteTypes
  <2>3. CASE Crash \/ UNCHANGED vars
    BY <2>3 DEF Crash, vars
  <2> QED
    BY <2>1, <2>2, <2>3 DEF Next, Works
<1> QED
  BY <1>1 DEF Live

\* A run changes its own state only; when it is settled, nothing but its age.
LEMMA ExecuteFrame ==
  ASSUME TypeOK, NEW r \in Runs, Works(r)
  PROVE  /\ \A s \in Runs : s # r => stage'[s] = stage[s] /\ row'[s] = row[s] /\ checkout'[s] = checkout[s]
                                    /\ thread'[s] = thread[s]
         /\ directory' \subseteq directory \cup {r}
         /\ \/ UNCHANGED <<stage, row, directory, checkout, thread>>
            \/ /\ Executing(r)
               /\ stage'[r] \notin {"fresh", "created"}
               /\ row'[r] # row[r] => stage'[r] = "ended" /\ row'[r] # "none"
            \/ /\ thread[r] # "none"
               /\ stage'[r] = stage[r] \/ (stage[r] = "fetching" /\ stage'[r] = "fetched")
               /\ row'[r] = row[r]
<1>1. /\ stage \in [Runs -> Stages] /\ row \in [Runs -> {"none", "bare", "listed"}]
      /\ checkout \in [Runs -> {"none", "open", "sealed"}] /\ thread \in [Runs -> Threads]
  BY DEF TypeOK, Stages, Threads
<1>2. CASE StartFetch(r)
  BY <1>1, <1>2 DEF StartFetch, Executing
<1>3. CASE StartAgent(r)
  BY <1>1, <1>3 DEF StartAgent, Executing, disk
<1>4. CASE Journal(r)
  BY <1>1, <1>4 DEF Journal, Executing
<1>5. CASE WriteFiles(r)
  BY <1>1, <1>5 DEF WriteFiles, Executing
<1>6. CASE EndRun(r)
  BY <1>1, <1>6 DEF EndRun
<1>7. CASE MakeCheckout(r)
  BY <1>1, <1>7 DEF MakeCheckout
<1>8. CASE SealCheckout(r)
  BY <1>1, <1>8 DEF SealCheckout
<1>9. CASE ThreadWrites(r)
  BY <1>1, <1>9 DEF ThreadWrites
<1>10. CASE ThreadEnds(r)
  BY <1>1, <1>10 DEF ThreadEnds
<1>11. CASE Age(r)
  BY <1>1, <1>11 DEF Age
<1> QED
  BY <1>2, <1>3, <1>4, <1>5, <1>6, <1>7, <1>8, <1>9, <1>10, <1>11 DEF Works, Coroutine, Thread

\* The other requests neither change a row nor the state of a run.
LEMMA RowFrame ==
  ASSUME NEW q \in Requests, Serve(q)
  PROVE  CreateRow(q) \/ CreateStart(q) \/ DeleteRow(q) \/ UNCHANGED <<row, stage>>
BY RunFrame DEF Unseal, RemoveTree, CancelNote, Reindex

LEMMA BegunKept ==
  ASSUME TypeOK, Targeted, OneCreates, Begun, [Next]_vars
  PROVE  Begun'
<1>1. stage \in [Runs -> Stages] /\ thread \in [Runs -> Threads]
  BY DEF TypeOK, Stages, Threads
<1>2. ASSUME NEW q \in Requests, Serve(q) PROVE Begun'
  <2>1. UNCHANGED thread
    BY <1>2, RunFrame
  <2>2. CASE CreateRow(q)
    BY <1>1, <2>1, <2>2 DEF CreateRow, Begun
  <2>3. CASE CreateStart(q)
    <3>1. \A r \in Runs : stage'[r] = stage[r] \/ stage'[r] = "started"
      BY <1>1, <2>3 DEF CreateStart
    <3> QED
      BY <2>1, <3>1 DEF Begun
  <2>4. CASE UNCHANGED stage
    BY <2>1, <2>4 DEF Begun
  <2> QED
    BY <1>2, <2>2, <2>3, <2>4, RowFrame DEF DeleteRow
<1>3. ASSUME NEW r \in Runs, Works(r) PROVE Begun'
  <2>1. \A s \in Runs : s # r => stage'[s] = stage[s] /\ thread'[s] = thread[s]
    BY <1>3, ExecuteFrame
  <2>2. \/ UNCHANGED <<stage, thread>>
        \/ stage'[r] \notin {"fresh", "created"}
        \/ thread[r] # "none" /\ (stage'[r] = stage[r] \/ stage'[r] = "fetched")
    BY <1>3, ExecuteFrame
  <2> QED
    BY <2>1, <2>2 DEF Begun
<1>4. CASE Crash
  BY <1>4 DEF Crash, Begun
<1>5. CASE UNCHANGED vars
  BY <1>5 DEF vars, Begun
<1> QED
  BY <1>2, <1>3, <1>4, <1>5 DEF Next, Works

\* A step of a request that is not the making of the run leaves the run unmade.
LEMMA OneCreatesKept ==
  ASSUME TypeOK, Targeted, Routed, OneCreates, [Next]_vars
  PROVE  OneCreates'
<1>1. /\ pos \in [Requests -> Positions] /\ op \in [Requests -> Ops \cup {"none"}]
      /\ target \in [Requests -> Runs \cup {NoRun}] /\ stage \in [Runs -> Stages]
  BY DEF TypeOK, Positions, Stages
<1>2. ASSUME NEW q \in Requests, CreateRow(q) PROVE OneCreates'
  <2>1. \A p \in Requests : ~Creating(p)
    BY <1>2 DEF CreateRow, LoopFree, Creating
  <2>2. \A p \in Requests : p # q => ~Creating(p)'
    BY <1>2, <2>1, Others DEF Serve, Creating
  <2>3. stage'[target'[q]] = "created"
    BY <1>1, <1>2 DEF CreateRow
  <2> QED
    BY <2>2, <2>3 DEF OneCreates
<1>3. ASSUME NEW q \in Requests, Serve(q), ~CreateRow(q) PROVE OneCreates'
  <2>1. Creating(q)' => Creating(q) /\ target'[q] = target[q] /\ ~CreateStart(q)
    <3>1. CASE Arrive(q)
      BY <1>1, <3>1 DEF Arrive, Go, Reply, Creating
    <3>2. CASE CreateRefused(q) \/ CreateAudit(q) \/ CreateStart(q) \/ Close(q)
      BY <1>1, <3>2 DEF CreateRefused, CreateAudit, CreateStart, Close, Go, Reply, Creating, Routed, asked
    <3>3. CASE DeleteLookup(q) \/ DeleteRow(q) \/ Unseal(q) \/ RemoveTree(q)
      BY <1>1, <3>3 DEF DeleteLookup, DeleteRow, Unseal, RemoveTree, Go, Reply, Creating, Routed, asked
    <3>4. CASE DownloadLookup(q) \/ DownloadAudit(q) \/ DownloadServe(q)
      BY <1>1, <3>4 DEF DownloadLookup, DownloadAudit, DownloadServe, Go, Reply, Creating, asked
    <3>5. CASE GcScan(q) \/ GcStat(q) \/ GcEnd(q)
      BY <1>1, <3>5 DEF GcScan, GcStat, GcEnd, Go, Reply, Creating, asked
    <3>6. CASE GcLook(q)
      BY <1>1, <3>6 DEF GcLook, Go, Creating, asked
    <3>7. CASE Lookup(q) \/ CancelFlag(q) \/ CancelAudit(q) \/ CancelNote(q) \/ Reindex(q) \/ WalkFails(q)
      BY <1>1, <3>7
         DEF Lookup, CancelFlag, CancelAudit, CancelNote, Reindex, WalkFails, Go, Reply, Creating, asked
    <3> QED
      BY <1>3, <3>1, <3>2, <3>3, <3>4, <3>5, <3>6, <3>7 DEF Serve
  <2>2. \A p \in Requests : p # q => (Creating(p)' <=> Creating(p)) /\ target'[p] = target[p]
    BY <1>3, Others DEF Creating
  <2>3. CASE CreateStart(q)
    <3>1. Creating(q) /\ ~Creating(q)'
      BY <2>1, <2>3 DEF CreateStart, Creating
    <3>2. \A p \in Requests : ~Creating(p)'
      BY <2>2, <3>1 DEF OneCreates
    <3> QED
      BY <3>2 DEF OneCreates
  <2>4. CASE UNCHANGED stage
    BY <2>1, <2>2, <2>4 DEF OneCreates
  <2> QED
    BY <1>3, <2>3, <2>4, RowFrame DEF DeleteRow
<1>4. ASSUME NEW r \in Runs, Works(r) PROVE OneCreates'
  <2>1. UNCHANGED <<pos, op, target>>
    BY <1>4, ExecuteTypes DEF asked
  <2>2. \A s \in Runs : stage[s] = "created" => stage'[s] = "created"
    BY <1>4, ExecuteFrame DEF Executing
  <2>3. \A q \in Requests : Creating(q) => target[q] \in Runs
    BY DEF Creating, Targeted
  <2> QED
    BY <2>1, <2>2, <2>3 DEF OneCreates, Creating
<1>5. CASE Crash
  BY <1>5 DEF Crash, OneCreates, Creating
<1>6. CASE UNCHANGED vars
  BY <1>6 DEF vars, asked, OneCreates, Creating
<1> QED
  BY <1>2, <1>3, <1>4, <1>5, <1>6 DEF Next, Works

\* A run that began does not become fresh again, and one that ended does not start.
LEMMA RunsGoOn ==
  ASSUME TypeOK, Targeted, OneCreates, [Next]_vars, NEW r \in Runs
  PROVE  /\ stage[r] # "fresh" => stage'[r] # "fresh"
         /\ stage[r] = "ended" => stage'[r] = "ended"
<1>1. stage \in [Runs -> Stages]
  BY DEF TypeOK, Stages
<1>2. ASSUME NEW q \in Requests, CreateRow(q) PROVE stage[r] # "fresh" => stage'[r] = stage[r]
  BY <1>1, <1>2 DEF CreateRow
<1>3. ASSUME NEW q \in Requests, CreateStart(q)
      PROVE  (stage[r] = "created" /\ stage'[r] = "started") \/ stage'[r] = stage[r]
  BY <1>1, <1>3 DEF CreateStart, OneCreates, Creating
<1>4. ASSUME NEW s \in Runs, Works(s)
      PROVE  stage'[r] = stage[r] \/ (stage[r] # "ended" /\ stage'[r] # "fresh")
  BY <1>4, ExecuteFrame DEF Executing
<1>5. CASE Crash
  BY <1>1, <1>5 DEF Crash
<1>6. CASE UNCHANGED stage
  BY <1>6
<1> QED
  BY <1>2, <1>3, <1>4, <1>5, <1>6, RowFrame DEF Next, Works, vars, DeleteRow

\* Of the steps of a request, these bring it to write for a run.
LEMMA WillWriteFrame ==
  ASSUME TypeOK, Routed, NEW q \in Requests, Serve(q), NEW r \in Runs, WillWrite(q, r)', ~WillWrite(q, r)
  PROVE  \/ Lookup(q) /\ target[q] = r /\ row[r] # "none"
         \/ CancelFlag(q) /\ target[q] = r /\ Executing(r)
<1>1. /\ pos \in [Requests -> Positions] /\ op \in [Requests -> Ops \cup {"none"}]
      /\ target \in [Requests -> Runs \cup {NoRun}]
  BY DEF TypeOK, Positions
<1>2. target'[q] = r /\ (pos'[q] \in {"accepted", "noting"} \/ (pos'[q] = "found" /\ op'[q] = "reindex"))
  BY DEF WillWrite
<1> USE <1>1, <1>2
<1>3. CASE Arrive(q)
  BY <1>3 DEF Arrive, Go, Reply
<1>4. CASE CreateRefused(q) \/ CreateRow(q) \/ CreateAudit(q) \/ CreateStart(q) \/ Close(q)
  BY <1>4 DEF CreateRefused, CreateRow, CreateAudit, CreateStart, Close, Go, Reply
<1>5. CASE DeleteLookup(q) \/ DeleteRow(q) \/ Unseal(q) \/ RemoveTree(q) \/ WalkFails(q)
  BY <1>5 DEF DeleteLookup, DeleteRow, Unseal, RemoveTree, WalkFails, Go, Reply, asked
<1>6. CASE DownloadLookup(q) \/ DownloadAudit(q) \/ DownloadServe(q)
  BY <1>6 DEF DownloadLookup, DownloadAudit, DownloadServe, Go, Reply, asked
<1>7. CASE GcScan(q) \/ GcStat(q) \/ GcEnd(q)
  BY <1>7 DEF GcScan, GcStat, GcEnd, Go, Reply
<1>8. CASE GcLook(q)
  BY <1>8 DEF GcLook, Go
<1>9. CASE CancelAudit(q)
  BY <1>9 DEF CancelAudit, Go, WillWrite
<1>10. CASE CancelNote(q) \/ Reindex(q)
  BY <1>10 DEF CancelNote, Reindex, Go, Reply
<1>11. CASE Lookup(q)
  BY <1>11 DEF Lookup, Go, Reply
<1>12. CASE CancelFlag(q)
  BY <1>12 DEF CancelFlag, Go
<1> QED
  BY <1>3, <1>4, <1>5, <1>6, <1>7, <1>8, <1>9, <1>10, <1>11, <1>12 DEF Serve

\* A settled run stays so when a request makes a step that finds no row for it, or
\* removes the row.
LEMMA SettledServed ==
  ASSUME TypeOK, Targeted, Routed, OneCreates, NEW q \in Requests, Serve(q), NEW r \in Runs, Settled(r),
         row[r] = "none" \/ DeleteRow(q)
  PROVE  Settled(r)'
<1>1. UNCHANGED thread /\ stage'[r] = "ended"
  BY RunFrame, RunsGoOn DEF Next, Settled
<1>2. ASSUME NEW p \in Requests, p # q PROVE ~WillWrite(p, r)'
  BY <1>2, Others DEF Settled, WillWrite
<1>3. ~WillWrite(q, r)'
  <2>1. SUFFICES ASSUME WillWrite(q, r)' PROVE FALSE
    OBVIOUS
  <2>2. ~WillWrite(q, r) /\ ~Executing(r)
    BY DEF Settled, Executing
  <2>3. Lookup(q) /\ target[q] = r /\ row[r] # "none"
    BY <2>1, <2>2, WillWriteFrame
  <2> QED
    BY <2>3 DEF Lookup, DeleteRow
<1> QED
  BY <1>1, <1>2, <1>3 DEF Settled

\* A settled run whose row is gone stays settled.
LEMMA SettledStays ==
  ASSUME TypeOK, Targeted, Routed, OneCreates, [Next]_vars, NEW r \in Runs, Settled(r), row[r] = "none"
  PROVE  Settled(r)'
<1>1. ASSUME NEW q \in Requests, Serve(q) PROVE Settled(r)'
  BY <1>1, SettledServed
<1>2. ASSUME NEW s \in Runs, Works(s) PROVE Settled(r)'
  <2>1. UNCHANGED <<pos, op, target>>
    BY <1>2, ExecuteTypes DEF asked
  <2>2. stage'[r] = "ended" /\ thread'[r] = "none"
    BY <1>2, ExecuteFrame DEF Settled, Executing
  <2> QED
    BY <2>1, <2>2 DEF Settled, WillWrite
<1>3. CASE Crash
  BY <1>3 DEF Crash, Settled, WillWrite
<1>4. CASE UNCHANGED vars
  BY <1>4 DEF vars, asked, Settled, WillWrite
<1> QED
  BY <1>1, <1>2, <1>3, <1>4 DEF Next, Works

LEMMA RowKeptKept ==
  ASSUME TypeOK, Targeted, Routed, RowKept, OneCreates, [Next]_vars
  PROVE  RowKept'
<1>1. stage \in [Runs -> Stages] /\ row \in [Runs -> {"none", "bare", "listed"}]
  BY DEF TypeOK, Stages
<1>2. \A r \in Runs : stage'[r] = "fresh" => row'[r] = "none"
  <2>1. ASSUME NEW q \in Requests, CreateRow(q) PROVE \A r \in Runs : stage'[r] = "fresh" => row'[r] = "none"
    BY <1>1, <2>1 DEF CreateRow, RowKept
  <2>2. ASSUME NEW q \in Requests, CreateStart(q) PROVE \A r \in Runs : stage'[r] = "fresh" => row'[r] = "none"
    BY <1>1, <2>2 DEF CreateStart, RowKept
  <2>3. ASSUME NEW q \in Requests, DeleteRow(q) PROVE \A r \in Runs : stage'[r] = "fresh" => row'[r] = "none"
    BY <1>1, <2>3 DEF DeleteRow, RowKept
  <2>4. ASSUME NEW s \in Runs, Works(s) PROVE \A r \in Runs : stage'[r] = "fresh" => row'[r] = "none"
    BY <2>4, ExecuteFrame DEF RowKept, Executing
  <2>5. CASE UNCHANGED <<row, stage>>
    BY <2>5 DEF RowKept
  <2>6. CASE Crash
    BY <2>6 DEF Crash, RowKept
  <2> QED
    BY <2>1, <2>2, <2>3, <2>4, <2>5, <2>6, RowFrame DEF Next, Works, vars
<1>3. ASSUME NEW r \in Runs, stage'[r] # "fresh", row'[r] = "none" PROVE Settled(r)' \/ Live(r)'
  <2>1. CASE row[r] = "none" /\ stage[r] # "fresh"
    BY <2>1, SettledStays, RemovedGrows DEF RowKept
  <2>2. CASE row[r] = "none" /\ stage[r] = "fresh"
    <3>1. ASSUME NEW q \in Requests, CreateRow(q) PROVE stage'[r] = "fresh" \/ row'[r] = "bare"
      BY <1>1, <2>2, <3>1 DEF CreateRow
    <3>2. ASSUME NEW q \in Requests, CreateStart(q) PROVE stage'[r] = "fresh"
      BY <1>1, <2>2, <3>2 DEF CreateStart, OneCreates, Creating
    <3>3. ASSUME NEW s \in Runs, Works(s) PROVE stage'[r] = "fresh"
      BY <2>2, <3>3, ExecuteFrame DEF Executing
    <3>4. ASSUME Crash PROVE stage'[r] = "fresh"
      BY <2>2, <3>4 DEF Crash
    <3>5. ASSUME UNCHANGED stage PROVE stage'[r] = "fresh"
      BY <2>2, <3>5
    <3>6. ASSUME NEW q \in Requests, Serve(q) PROVE stage'[r] = "fresh" \/ row'[r] = "bare"
      BY <3>1, <3>2, <3>5, <3>6, RowFrame DEF DeleteRow
    <3>7. stage'[r] = "fresh" \/ row'[r] = "bare"
      BY <3>3, <3>4, <3>5, <3>6 DEF Next, Works, vars
    <3> QED
      BY <1>3, <3>7
  <2>3. CASE row[r] # "none"
    <3>1. ASSUME NEW q \in Requests, CreateRow(q) \/ CreateStart(q) PROVE FALSE
      BY <1>1, <1>3, <2>3, <3>1 DEF CreateRow, CreateStart
    <3>2. ASSUME NEW s \in Runs, Works(s) PROVE FALSE
      BY <1>3, <2>3, <3>2, ExecuteFrame
    <3>3. PICK q \in Requests : DeleteRow(q)
      BY <1>3, <2>3, <3>1, <3>2, RowFrame DEF Next, Works, vars, Crash
    <3>4. target[q] = r /\ removed' = removed \cup {<<q, r, Of(r)>>}
      BY <1>1, <1>3, <2>3, <3>3 DEF DeleteRow
    <3>5. Serve(q)
      BY <3>3 DEF Serve
    <3> QED
      BY <3>3, <3>4, <3>5, SettledServed DEF Of, Live
  <2> QED
    BY <2>1, <2>2, <2>3
<1> QED
  BY <1>2, <1>3 DEF RowKept

\* A deletion keeps to its run.
LEMMA DeletionsFrame ==
  ASSUME TypeOK, Routed, NEW q \in Requests, Serve(q), ~Arrive(q), op'[q] \in Deletions
  PROVE  /\ op'[q] = op[q] /\ target'[q] = target[q]
         /\ DeleteLookup(q) \/ DeleteRow(q) \/ Unseal(q) \/ WalkFails(q) \/ RemoveTree(q) \/ Close(q)
<1>1. pos \in [Requests -> Positions] /\ op \in [Requests -> Ops \cup {"none"}]
  BY DEF TypeOK, Positions
<1> USE <1>1 DEF Deletions
<1>2. CASE CreateRefused(q) \/ CreateRow(q) \/ CreateStart(q)
  BY <1>2 DEF CreateRefused, CreateRow, CreateStart, asked
<1>3. CASE CreateAudit(q)
  BY <1>3 DEF CreateAudit, Routed, asked
<1>4. CASE DeleteLookup(q) \/ DeleteRow(q) \/ Unseal(q) \/ WalkFails(q) \/ RemoveTree(q) \/ Close(q)
  BY <1>4 DEF DeleteLookup, DeleteRow, Unseal, WalkFails, RemoveTree, Close, asked
<1>5. CASE DownloadLookup(q) \/ DownloadAudit(q) \/ DownloadServe(q)
  BY <1>5 DEF DownloadLookup, DownloadAudit, DownloadServe, asked
<1>6. CASE GcScan(q) \/ GcStat(q) \/ GcEnd(q) \/ GcLook(q)
  BY <1>6 DEF GcScan, GcStat, GcEnd, GcLook, Routed, Collections, asked
<1>7. CASE Lookup(q) \/ CancelFlag(q) \/ CancelAudit(q) \/ CancelNote(q) \/ Reindex(q)
  BY <1>7 DEF Lookup, CancelFlag, CancelAudit, CancelNote, Reindex, Routed, asked
<1> QED
  BY <1>2, <1>3, <1>4, <1>5, <1>6, <1>7 DEF Serve

\* So does a cancellation, and an indexing.
LEMMA SignalsFrame ==
  ASSUME TypeOK, Routed, NEW q \in Requests, Serve(q), ~Arrive(q), op'[q] \in Signals
  PROVE  /\ op'[q] = op[q] /\ target'[q] = target[q]
         /\ Lookup(q) \/ CancelFlag(q) \/ CancelAudit(q) \/ CancelNote(q) \/ Reindex(q) \/ Close(q)
<1>1. pos \in [Requests -> Positions] /\ op \in [Requests -> Ops \cup {"none"}]
  BY DEF TypeOK, Positions
<1> USE <1>1 DEF Signals
<1>2. CASE CreateRefused(q) \/ CreateRow(q) \/ CreateStart(q)
  BY <1>2 DEF CreateRefused, CreateRow, CreateStart, asked
<1>3. CASE CreateAudit(q)
  BY <1>3 DEF CreateAudit, Routed, asked
<1>4. CASE DeleteLookup(q) \/ DeleteRow(q) \/ Unseal(q) \/ WalkFails(q) \/ RemoveTree(q)
  BY <1>4 DEF DeleteLookup, DeleteRow, Unseal, WalkFails, RemoveTree, Routed, Collections, asked
<1>5. CASE DownloadLookup(q) \/ DownloadAudit(q) \/ DownloadServe(q)
  BY <1>5 DEF DownloadLookup, DownloadAudit, DownloadServe, asked
<1>6. CASE GcScan(q) \/ GcStat(q) \/ GcEnd(q) \/ GcLook(q)
  BY <1>6 DEF GcScan, GcStat, GcEnd, GcLook, Routed, Collections, asked
<1>7. CASE Lookup(q) \/ CancelFlag(q) \/ CancelAudit(q) \/ CancelNote(q) \/ Reindex(q) \/ Close(q)
  BY <1>7 DEF Lookup, CancelFlag, CancelAudit, CancelNote, Reindex, Close, asked
<1> QED
  BY <1>2, <1>3, <1>4, <1>5, <1>6, <1>7 DEF Serve

\* What is gone of a settled run does not come back.
LEMMA GoneStays ==
  ASSUME TypeOK, Targeted, Routed, OneCreates, [Next]_vars, NEW r \in Runs, Settled(r)
  PROVE  /\ row[r] = "none" => row'[r] = "none"
         /\ r \notin directory => r \notin directory'
         /\ checkout[r] # "sealed" => checkout'[r] # "sealed"
<1>0. stage[r] = "ended" /\ thread[r] = "none"
  BY DEF Settled
<1>1. /\ row \in [Runs -> {"none", "bare", "listed"}] /\ stage \in [Runs -> Stages]
      /\ checkout \in [Runs -> {"none", "open", "sealed"}]
  BY DEF TypeOK, Stages
<1>2. ASSUME NEW q \in Requests, CreateRow(q) PROVE row'[r] = row[r] /\ UNCHANGED <<directory, checkout>>
  BY <1>0, <1>1, <1>2 DEF CreateRow, disk
<1>3. ASSUME NEW q \in Requests, CreateStart(q)
      PROVE  UNCHANGED <<row, checkout>> /\ directory' = directory \cup {target[q]} /\ target[q] # r
  BY <1>0, <1>3 DEF CreateStart, OneCreates, Creating
<1>4. ASSUME NEW q \in Requests, DeleteRow(q)
      PROVE  (row[r] = "none" => row'[r] = "none") /\ UNCHANGED <<directory, checkout>>
  BY <1>1, <1>4 DEF DeleteRow, disk
<1>5. ASSUME NEW q \in Requests, Unseal(q)
      PROVE  UNCHANGED <<row, directory>> /\ (checkout[r] # "sealed" => checkout'[r] # "sealed")
  BY <1>1, <1>5 DEF Unseal
<1>6. ASSUME NEW q \in Requests, RemoveTree(q)
      PROVE  UNCHANGED row /\ directory' \subseteq directory /\ (checkout[r] # "sealed" => checkout'[r] # "sealed")
  BY <1>1, <1>6 DEF RemoveTree
<1>7. ASSUME NEW q \in Requests, CancelNote(q) \/ Reindex(q)
      PROVE  UNCHANGED <<row, checkout>> /\ directory' \subseteq directory \cup {target[q]} /\ target[q] # r
  <2>1. WillWrite(q, target[q])
    BY <1>7 DEF CancelNote, Reindex, WillWrite
  <2>2. target[q] # r
    BY <2>1 DEF Settled
  <2> QED
    BY <1>7, <2>2 DEF CancelNote, Reindex
<1>8. ASSUME NEW s \in Runs, Works(s)
      PROVE  row'[r] = row[r] /\ checkout'[r] = checkout[r] /\ (r \in directory' => r \in directory)
  BY <1>0, <1>8, ExecuteFrame DEF Executing
<1>9. CASE UNCHANGED <<row, directory, checkout>>
  BY <1>9
<1> QED
  BY <1>2, <1>3, <1>4, <1>5, <1>6, <1>7, <1>8, <1>9, RunFrame DEF Next, Works, vars, disk, Crash

LEMMA RowTakenKept ==
  ASSUME TypeOK, Targeted, Routed, Told, OneCreates, RowTaken, [Next]_vars
  PROVE  RowTaken'
<1>0. removed \subseteq Requests \X Runs \X {"row", "live row", "tree"}
  BY DEF TypeOK
<1>1. ASSUME NEW q \in Requests, Serve(q) PROVE RowTaken'
  <2>1. SUFFICES ASSUME NEW p \in Requests, NEW r \in Runs, <<p, r, "row">> \in removed'
                 PROVE  Settled(r)' /\ row'[r] = "none" /\ target'[p] = r /\ op'[p] \in Deletions
                        /\ pos'[p] \in {"purging", "unsealed", "closing", "done"}
    BY DEF RowTaken
  <2>2. pos \in [Requests -> Positions]
    BY DEF TypeOK, Positions
  <2>3. Settled(r) /\ row[r] = "none" => Settled(r)' /\ row'[r] = "none"
    BY SettledStays, GoneStays
  <2>4. CASE p # q
    <3>1. <<p, r, "row">> \in removed /\ pos'[p] = pos[p] /\ op'[p] = op[p] /\ target'[p] = target[p]
      BY <1>1, <2>1, <2>4, Others
    <3> QED
      BY <2>3, <3>1 DEF RowTaken
  <2>5. CASE p = q /\ <<q, r, "row">> \in removed
    <3>1. Settled(r) /\ row[r] = "none" /\ target[q] = r /\ op[q] \in Deletions
          /\ pos[q] \in {"purging", "unsealed", "closing", "done"}
      BY <2>5 DEF RowTaken
    <3>2. Unseal(q) \/ WalkFails(q) \/ RemoveTree(q) \/ Close(q)
      BY <1>1, <3>1 DEF Serve, Lookup, CancelFlag, CancelAudit, CancelNote, Reindex,
     Arrive, CreateRefused, CreateRow, CreateAudit, CreateStart, DeleteLookup,
         DeleteRow, DownloadLookup, DownloadAudit, DownloadServe, GcScan, GcLook, GcStat, GcEnd
    <3>3. UNCHANGED <<op, target>> /\ pos'[q] \in {"purging", "unsealed", "closing", "done"}
      BY <2>2, <3>1, <3>2 DEF Unseal, WalkFails, RemoveTree, Close, Routed, Deletions, Collections, Go, Reply, asked
    <3> QED
      BY <2>3, <2>5, <3>1, <3>3
  <2>6. CASE p = q /\ <<q, r, "row">> \notin removed
    <3>1. DeleteRow(q) /\ r = target[q] /\ Of(target[q]) = "row"
      BY <1>1, <2>1, <2>6, OneRemoves
    <3>2. Settled(r)
      BY <3>1 DEF Of
    <3>3. UNCHANGED <<op, target>> /\ op[q] \in Deletions /\ pos'[q] \in {"purging", "closing"}
      BY <2>2, <3>1 DEF DeleteRow, Deletions, Go, asked
    <3>4. row'[r] = "none"
      BY <3>1 DEF DeleteRow, TypeOK
    <3> QED
      BY <1>1, <2>6, <3>1, <3>2, <3>3, <3>4, SettledServed
  <2> QED
    BY <2>4, <2>5, <2>6
<1>2. ASSUME NEW r \in Runs, Works(r) PROVE RowTaken'
  <2>1. UNCHANGED <<pos, op, target, removed>>
    BY <1>2, ExecuteTypes DEF asked
  <2> QED
    BY <2>1, SettledStays, GoneStays DEF RowTaken
<1>3. CASE Crash
  <2>1. UNCHANGED <<op, target, removed>> /\ \A q \in Requests : pos[q] # "idle" => pos'[q] = "done"
    BY <1>3 DEF Crash, asked
  <2> QED
    BY <2>1, SettledStays, GoneStays DEF RowTaken
<1>4. CASE UNCHANGED vars
  <2>1. UNCHANGED <<pos, op, target, removed>>
    BY <1>4 DEF vars, asked
  <2> QED
    BY <2>1, SettledStays, GoneStays DEF RowTaken
<1> QED
  BY <1>1, <1>2, <1>3, <1>4 DEF Next, Works

LEMMA FoundKept ==
  ASSUME TypeOK, Targeted, Routed, OneCreates, RowKept, Found, [Next]_vars
  PROVE  Found'
<1>1. ASSUME NEW q \in Requests, Serve(q) PROVE Found'
  <2>1. SUFFICES ASSUME NEW p \in Requests, op'[p] \in Deletions \cup Signals,
                        pos'[p] \in {"found", "accepted", "noting", "purging", "unsealed", "closing"}
                 PROVE  stage'[target'[p]] # "fresh"
    BY DEF Found
  <2>2. pos \in [Requests -> Positions]
    BY DEF TypeOK, Positions
  <2>3. CASE p # q
    <3>1. op[p] \in Deletions \cup Signals /\ stage[target[p]] # "fresh" /\ target'[p] = target[p]
      BY <1>1, <2>1, <2>3, Others DEF Found
    <3> QED
      BY <3>1, RunsGoOn DEF Targeted
  <2>4. CASE p = q
    <3>1. ~Arrive(q)
      BY <2>1, <2>2, <2>4 DEF Arrive, Go, Reply
    <3>2. /\ op[q] \in Deletions \cup Signals /\ target'[q] = target[q] /\ target[q] \in Runs
          /\ \/ DeleteLookup(q) \/ DeleteRow(q) \/ Unseal(q) \/ WalkFails(q) \/ RemoveTree(q) \/ Close(q)
             \/ Lookup(q) \/ CancelFlag(q) \/ CancelAudit(q) \/ CancelNote(q) \/ Reindex(q)
      BY <1>1, <2>1, <2>4, <3>1, DeletionsFrame, SignalsFrame DEF Targeted
    <3>3. stage[target[q]] # "fresh"
      <4>1. CASE DeleteLookup(q)
        BY <2>1, <2>2, <2>4, <3>2, <4>1 DEF DeleteLookup, Reply, RowKept
      <4>3. CASE Lookup(q)
        BY <2>1, <2>2, <2>4, <3>2, <4>3 DEF Lookup, Reply, RowKept
      <4>4. CASE CancelFlag(q) \/ CancelAudit(q) \/ CancelNote(q) \/ Reindex(q) \/ WalkFails(q)
        BY <2>1, <2>2, <2>4, <3>2, <4>4
           DEF CancelFlag, CancelAudit, CancelNote, Reindex, WalkFails, Reply, Found
      <4>2. CASE DeleteRow(q) \/ Unseal(q) \/ RemoveTree(q) \/ Close(q)
        BY <3>2, <4>2 DEF DeleteRow, Unseal, RemoveTree, Close, Found
      <4> QED
        BY <3>2, <4>1, <4>2, <4>3, <4>4
    <3> QED
      BY <2>4, <3>2, <3>3, RunsGoOn
  <2> QED
    BY <2>3, <2>4
<1>2. ASSUME UNCHANGED <<op, target>>, \A q \in Requests : pos'[q] = pos[q] \/ pos'[q] \in {"idle", "done"}
      PROVE  Found'
  BY <1>2, RunsGoOn DEF Found, Targeted
<1>3. ASSUME NEW r \in Runs, Works(r) PROVE Found'
  BY <1>2, <1>3, ExecuteTypes DEF asked
<1>4. CASE Crash
  BY <1>2, <1>4 DEF Crash, asked
<1>5. CASE UNCHANGED vars
  BY <1>2, <1>5 DEF vars, asked
<1> QED
  BY <1>1, <1>3, <1>4, <1>5 DEF Next, Works

LEMMA PurgeProgressKept ==
  ASSUME TypeOK, Targeted, Routed, Told, RowKept, OneCreates, Found, PurgeProgress, [Next]_vars
  PROVE  PurgeProgress'
<1>0. /\ pos \in [Requests -> Positions] /\ answer \in [Requests -> Answers]
      /\ row \in [Runs -> {"none", "bare", "listed"}] /\ stage \in [Runs -> Stages]
      /\ checkout \in [Runs -> {"none", "open", "sealed"}]
  BY DEF TypeOK, Positions, Answers, Stages
<1>1. ASSUME NEW p \in Requests, NEW r \in Runs, op'[p] = op[p], target'[p] = target[p],
             \/ pos'[p] = pos[p] /\ answer'[p] = answer[p]
             \/ pos'[p] \in {"idle", "done"} /\ (answer'[p] = "ok" => answer[p] = "ok"),
             op'[p] = "purge", target'[p] = r, ~Live(r)',
             pos'[p] \in {"purging", "unsealed", "closing"} \/ answer'[p] = "ok"
      PROVE  /\ row'[r] = "none" /\ Settled(r)'
             /\ pos'[p] = "unsealed" => checkout'[r] # "sealed"
             /\ pos'[p] = "closing" \/ answer'[p] = "ok" => r \notin directory'
  <2>1. ~Live(r)
    BY <1>1, RemovedGrows
  <2>2. /\ row[r] = "none" /\ Settled(r)
        /\ pos'[p] = "unsealed" => checkout[r] # "sealed"
        /\ pos'[p] = "closing" \/ answer'[p] = "ok" => r \notin directory
    BY <1>1, <2>1 DEF PurgeProgress
  <2> QED
    BY <2>2, GoneStays, SettledStays
<1>2. ASSUME NEW q \in Requests, Serve(q) PROVE PurgeProgress'
  <2>1. SUFFICES ASSUME NEW p \in Requests, NEW r \in Runs, op'[p] = "purge", target'[p] = r, ~Live(r)',
                        pos'[p] \in {"purging", "unsealed", "closing"} \/ answer'[p] = "ok"
                 PROVE  /\ row'[r] = "none" /\ Settled(r)'
                        /\ pos'[p] = "unsealed" => checkout'[r] # "sealed"
                        /\ pos'[p] = "closing" \/ answer'[p] = "ok" => r \notin directory'
    BY DEF PurgeProgress
  <2>2. CASE p # q
    BY <1>1, <1>2, <2>1, <2>2, Others
  <2>3. CASE p = q
    <3>1. ~Arrive(q) /\ ~DeleteLookup(q)
      BY <1>0, <2>1, <2>3 DEF Arrive, DeleteLookup, Go, Reply, Told
    <3>2. /\ op[q] = "purge" /\ target'[q] = r /\ target[q] = r
          /\ DeleteRow(q) \/ Unseal(q) \/ WalkFails(q) \/ RemoveTree(q) \/ Close(q)
      BY <1>2, <2>1, <2>3, <3>1, DeletionsFrame DEF Deletions
    <3>3. ~Live(r)
      BY <2>1, RemovedGrows
    <3>4. CASE DeleteRow(q)
      <4>1. /\ pos'[q] = "purging" /\ answer'[q] = "none" /\ row'[r] = "none"
            /\ row[r] # "none" => <<q, r, Of(r)>> \in removed'
        BY <1>0, <3>2, <3>4 DEF DeleteRow, Go, Told
      <4>2. Settled(r)
        <5>1. CASE row[r] # "none"
          BY <2>1, <4>1, <5>1 DEF Of, Live
        <5>2. CASE row[r] = "none"
          BY <3>2, <3>3, <3>4, <5>2 DEF Found, DeleteRow, Deletions, RowKept
        <5> QED
          BY <5>1, <5>2
      <4>3. Settled(r)'
        BY <1>2, <3>2, <3>4, <4>2, SettledServed
      <4> QED
        BY <2>3, <3>2, <4>1, <4>3
    <3>6. CASE WalkFails(q)
      BY <1>0, <2>1, <2>3, <3>6 DEF WalkFails, Reply
    <3>5. CASE Unseal(q) \/ RemoveTree(q) \/ Close(q)
      <4>1. row[r] = "none" /\ Settled(r)
        BY <3>2, <3>3, <3>5 DEF PurgeProgress, Unseal, RemoveTree, Close
      <4>2. row'[r] = "none" /\ Settled(r)'
        BY <3>2, <4>1, GoneStays, SettledStays
      <4>3. CASE Unseal(q)
        <5>1. pos'[q] = "unsealed" /\ answer'[q] = "none"
          BY <1>0, <4>3 DEF Unseal, Go, Told
        <5>2. checkout'[r] # "sealed"
          BY <1>0, <3>2, <4>3 DEF Unseal
        <5> QED
          BY <2>3, <3>2, <4>2, <5>1, <5>2
      <4>4. CASE RemoveTree(q)
        <5>1. pos'[q] = "closing"
          BY <1>0, <3>2, <4>4 DEF RemoveTree, Go
        <5>2. checkout[r] # "sealed"
          BY <3>2, <3>3, <4>4 DEF PurgeProgress, RemoveTree
        <5>3. r \notin directory'
          BY <3>2, <4>4, <5>2 DEF RemoveTree
        <5> QED
          BY <2>3, <3>2, <4>2, <5>1, <5>3
      <4>5. CASE Close(q)
        <5>1. pos'[q] = "done"
          BY <1>0, <4>5 DEF Close, Reply
        <5>2. r \notin directory
          BY <3>2, <3>3, <4>5 DEF PurgeProgress, Close
        <5> QED
          BY <2>3, <3>2, <4>1, <4>2, <5>1, <5>2, GoneStays
      <4> QED
        BY <3>5, <4>3, <4>4, <4>5
    <3> QED
      BY <3>2, <3>4, <3>5, <3>6
  <2> QED
    BY <2>2, <2>3
<1>3. ASSUME NEW r \in Runs, Works(r) PROVE PurgeProgress'
  <2>1. UNCHANGED <<pos, answer, op, target>>
    BY <1>3, ExecuteTypes DEF asked
  <2> QED
    BY <1>1, <2>1 DEF PurgeProgress
<1>4. CASE Crash
  <2>1. UNCHANGED <<op, target>>
    BY <1>4 DEF Crash, asked
  <2>2. \A q \in Requests : pos'[q] \in {"idle", "done"} /\ (answer'[q] = "ok" => answer[q] = "ok")
    BY <1>4 DEF Crash
  <2> QED
    BY <1>1, <2>1, <2>2 DEF PurgeProgress
<1>5. CASE UNCHANGED vars
  <2>1. UNCHANGED <<pos, answer, op, target>>
    BY <1>5 DEF vars, asked
  <2> QED
    BY <1>1, <2>1 DEF PurgeProgress
<1> QED
  BY <1>2, <1>3, <1>4, <1>5 DEF Next, Works

\* The deletion that explains why files are left goes on explaining it, unless it
\* is a purge that has just succeeded.
LEMMA ExplanationStays ==
  ASSUME TypeOK, Targeted, Routed, RowTaken, [Next]_vars,
         NEW q \in Requests, NEW r \in Runs, <<q, r, "row">> \in removed,
         op[q] = "delete" \/ pos[q] # "done" \/ answer[q] \in {"lost", "error"},
         ~(Close(q) /\ op[q] = "purge")
  PROVE  op'[q] = "delete" \/ pos'[q] # "done" \/ answer'[q] \in {"lost", "error"}
<1>1. pos \in [Requests -> Positions] /\ answer \in [Requests -> Answers]
  BY DEF TypeOK, Positions, Answers
<1>2. op[q] \in Deletions /\ pos[q] \in {"purging", "unsealed", "closing", "done"}
  BY DEF RowTaken
<1>3. ASSUME NEW p \in Requests, Serve(p), p # q
      PROVE  op'[q] = "delete" \/ pos'[q] # "done" \/ answer'[q] \in {"lost", "error"}
  BY <1>3, Others
<1>4. ASSUME Serve(q) PROVE op'[q] = "delete" \/ pos'[q] # "done" \/ answer'[q] \in {"lost", "error"}
  <2>1. Unseal(q) \/ WalkFails(q) \/ RemoveTree(q) \/ Close(q)
    BY <1>2, <1>4 DEF Serve, Lookup, CancelFlag, CancelAudit, CancelNote, Reindex,
     Arrive, CreateRefused, CreateRow, CreateAudit, CreateStart, DeleteLookup,
       DeleteRow, DownloadLookup, DownloadAudit, DownloadServe, GcScan, GcLook, GcStat, GcEnd
  <2> QED
    BY <1>1, <1>2, <2>1 DEF Unseal, WalkFails, RemoveTree, Close, Go, Reply, Deletions, asked
<1>5. ASSUME NEW s \in Runs, Works(s)
      PROVE  op'[q] = "delete" \/ pos'[q] # "done" \/ answer'[q] \in {"lost", "error"}
  BY <1>5, ExecuteTypes DEF asked
<1>6. CASE Crash
  <2>1. op'[q] = op[q] /\ answer'[q] = IF pos[q] \in {"idle", "done"} THEN answer[q] ELSE "lost"
    BY <1>6 DEF Crash, asked
  <2> QED
    BY <1>2, <2>1
<1>7. CASE UNCHANGED vars
  BY <1>7 DEF vars, asked
<1> QED
  BY <1>3, <1>4, <1>5, <1>6, <1>7 DEF Next, Works

\* A directory without a row that is new has an explanation.
LEMMA NewLeftover ==
  ASSUME TypeOK, Targeted, Routed, Begun, RowKept, OneCreates, Found, [Next]_vars,
         NEW r \in Runs, r \in directory', row'[r] = "none", ~(r \in directory /\ row[r] = "none")
  PROVE  \E q \in Requests :
           \/ <<q, r, "live row">> \in removed'
           \/ <<q, r, "row">> \in removed' /\ pos'[q] # "done"
<1>1. row \in [Runs -> {"none", "bare", "listed"}] /\ pos \in [Requests -> Positions]
  BY DEF TypeOK, Positions
<1>2. SUFFICES ASSUME ~Live(r)
               PROVE  \E q \in Requests : <<q, r, Of(r)>> \in removed' /\ pos'[q] # "done"
  BY RemovedGrows DEF Live, Of
<1>3. stage[r] # "fresh" /\ row[r] = "none" => Settled(r)
  BY <1>2 DEF RowKept
<1>4. ASSUME NEW q \in Requests, CreateRow(q) PROVE FALSE
  BY <1>1, <1>4 DEF CreateRow, disk
<1>5. ASSUME NEW q \in Requests, CreateStart(q) PROVE FALSE
  BY <1>3, <1>5 DEF CreateStart, OneCreates, Creating, Settled
<1>6. ASSUME NEW q \in Requests, DeleteRow(q)
      PROVE  <<q, r, Of(r)>> \in removed' /\ pos'[q] # "done"
  <2>1. row[r] # "none" /\ r = target[q]
    BY <1>1, <1>6 DEF DeleteRow, disk
  <2> QED
    BY <1>1, <1>6, <2>1 DEF DeleteRow, Go
<1>7. ASSUME NEW q \in Requests, Unseal(q) \/ RemoveTree(q) PROVE FALSE
  BY <1>7 DEF Unseal, RemoveTree
<1>8. ASSUME NEW s \in Runs, Works(s) PROVE FALSE
  <2>1. row[r] = "none" /\ r \notin directory /\ s = r
    BY <1>8, ExecuteFrame
  <2>2. Executing(r) \/ thread[r] # "none"
    BY <1>8, <2>1, ExecuteFrame
  <2> QED
    BY <1>3, <2>1, <2>2 DEF Begun, Executing, Settled
<1>9. CASE UNCHANGED <<row, directory>>
  BY <1>9
<1>10. ASSUME NEW q \in Requests, CancelNote(q) \/ Reindex(q) PROVE FALSE
  <2>1. row[r] = "none" /\ r = target[q] /\ WillWrite(q, r)
    BY <1>10 DEF CancelNote, Reindex, WillWrite
  <2>2. stage[r] # "fresh"
    BY <1>10, <2>1 DEF CancelNote, Reindex, Routed, Found, Signals
  <2> QED
    BY <1>3, <2>1, <2>2 DEF Settled
<1> QED
  BY <1>10, <1>4, <1>5, <1>6, <1>7, <1>8, <1>9, RunFrame DEF Next, Works, vars, disk, Crash

LEMMA LeftoversKept ==
  ASSUME Inv, [Next]_vars
  PROVE  LeftoversExplained'
<1> USE DEF Inv
<1>1. SUFFICES ASSUME NEW r \in Runs, r \in directory', row'[r] = "none"
               PROVE  \E q \in Requests :
                        \/ <<q, r, "live row">> \in removed'
                        \/ /\ <<q, r, "row">> \in removed'
                           /\ op'[q] = "delete" \/ pos'[q] # "done" \/ answer'[q] \in {"lost", "error"}
  BY TypesKept DEF LeftoversExplained, TypeOK
<1>2. CASE ~(r \in directory /\ row[r] = "none")
  BY <1>1, <1>2, NewLeftover
<1>3. CASE Live(r)
  BY <1>3, RemovedGrows DEF Live
<1>4. CASE r \in directory /\ row[r] = "none" /\ ~Live(r)
  <2>1. PICK q \in Requests :
          /\ <<q, r, "row">> \in removed
          /\ op[q] = "delete" \/ pos[q] # "done" \/ answer[q] \in {"lost", "error"}
    BY <1>4 DEF LeftoversExplained, Live
  <2>2. <<q, r, "row">> \in removed'
    BY <2>1, RemovedGrows
  <2>3. ~(Close(q) /\ op[q] = "purge")
    <3>1. SUFFICES ASSUME Close(q), op[q] = "purge" PROVE FALSE
      OBVIOUS
    <3>2. target[q] = r
      BY <2>1 DEF RowTaken
    <3> QED
      BY <1>4, <3>1, <3>2 DEF PurgeProgress, Close
  <2> QED
    BY <2>1, <2>2, <2>3, ExplanationStays
<1> QED
  BY <1>2, <1>3, <1>4

LEMMA InvStart ==
  Init => Inv
<1> SUFFICES ASSUME Init PROVE Inv
  OBVIOUS
<1>1. Routed /\ Told /\ Guarded /\ OneCreates /\ Found
  BY DEF Init, Routed, Told, Guarded, Spared, Removals, OneCreates, Creating, Found
<1>2. Begun /\ RowKept /\ RowTaken
  BY DEF Init, Begun, RowKept, RowTaken
<1>3. PurgeProgress
  BY DEF Init, PurgeProgress
<1>4. LeftoversExplained
  BY ConstantTypes DEF Init, LeftoversExplained
<1> QED
  BY <1>1, <1>2, <1>3, <1>4, TypesStart DEF Inv

LEMMA InvStep ==
  Inv /\ [Next]_vars => Inv'
BY TypesKept, TargetedKept, RoutedKept, ToldKept, GuardedKept, BegunKept, RowKeptKept, RowTakenKept,
   OneCreatesKept, FoundKept, PurgeProgressKept, LeftoversKept DEF Inv

\* "files_purged" is true of a run for which nothing was at work any more when its row
\* was removed: once the deletion is answered, neither its row nor its directory is
\* there, and neither comes back.
THEOREM PurgesAreComplete == Spec => []PurgeIsComplete
<1>1. Inv => PurgeIsComplete
  BY DEF Inv, Targeted, Deletions, PurgeProgress, PurgeIsComplete, Live
<1> QED
  BY <1>1, InvStart, InvStep, PTL DEF Spec

\* A directory without a row is there only because of a deletion that keeps files, that
\* is in progress, was lost or failed on its way through the checkout, or of one of a run
\* whose coroutine, thread, cancellation or indexing was still at work for it.
THEOREM LeftoversHaveACause == Spec => []LeftoversExplained
<1>1. Inv => LeftoversExplained
  BY DEF Inv
<1> QED
  BY <1>1, InvStart, InvStep, PTL DEF Spec
=============================================================================
