------------------------------ MODULE RunStorage ------------------------------
(***************************************************************************)
(* Runs as the REST API keeps them: their rows, their directories and the  *)
(* audit log, under requests that create, cancel, delete, download, index  *)
(* again and collect (api/routes.py, services/run_service.py,              *)
(* services/git_service.py), each admitted by core/auth.py.                *)
(*                                                                         *)
(* A request is served in a thread of the pool, and nothing but a single   *)
(* statement or system call of it is atomic.  Nothing is transactional:    *)
(* rows, directories and audit entries are changed one after the other.    *)
(* The process can die in between; the requests in progress are then lost. *)
(*                                                                         *)
(* A run is a coroutine, which writes the journal, the deliverables and    *)
(* the row, and the threads it waits for: one that makes the checkout,     *)
(* then those of the agents and of the indexing.  The end of the coroutine *)
(* (a timeout, say) does not end a thread, and both make the directory of  *)
(* the run whenever they write, as do two requests: one that has its       *)
(* cancellation noted in the journal and one that indexes the run again.   *)
(*                                                                         *)
(* Why a run ends and what it delivers is in RunLifecycle and              *)
(* Deliverables; its last event and its row, which follow each other, are  *)
(* one step here.  The chunks that go with a row are in KnowledgeIndex.    *)
(***************************************************************************)
EXTENDS FiniteSets, Naturals

CONSTANTS
  Runs,         \* run identifiers
  Present,      \* runs that ended before the service was started
  Requests,     \* one client request each
  Modes,        \* values of AUTH_MODE
  Headers,      \* what a client, or the proxy in front, sends: [x_api_key, bearer, identity]
  None,         \* a header field that is not sent
  KeyMap,       \* API_KEYS
  DefaultRole,  \* TRUSTED_DEFAULT_ROLE
  Ops,          \* what is asked for
  MaxCrashes    \* bound

Roles == {"viewer", "analyst", "reviewer", "admin"}
ReaderOps == {"health", "whoami", "list_repos", "resolve", "list_runs", "get_run", "events", "logs",
              "list_artifacts", "preview", "download", "kb_stats"}
CreatorOps == {"create", "cancel", "fetch", "reindex"}
QuerierOps == {"kb_query"}
AdminOps == {"delete", "purge", "gc", "gc_all", "reload_repos", "audit"}

ASSUME RunStorageAssumption ==
  /\ Present \subseteq Runs
  /\ IsFiniteSet(Runs)
  /\ Modes \subseteq {"disabled", "trusted_header", "e2e_token", "api_key"}
  /\ DefaultRole \in Roles
  /\ Ops \subseteq {"create", "cancel", "delete", "purge", "gc", "gc_all", "download", "reindex"}
  /\ MaxCrashes \in Nat

VARIABLES
  mode,      \* AUTH_MODE
  row,       \* row[r]: "none", "bare", or "listed" if it names deliverables
  stage,     \* stage[r]: how far the coroutine of the run is
  thread,    \* thread[r]: its worker thread: "none", "fetch" before the checkout is there,
             \* "checkout" until it is sealed, or "agent", which stands for all that follow
  directory, \* runs with a directory
  files,     \* runs whose deliverables are in it
  checkout,  \* checkout[r]: "none", "open", or "sealed"
  old,       \* runs whose directory is past its time to live
  pos,       \* pos[q]: how far the request is
  op,        \* op[q]: what it asks for
  header,    \* header[q]: what was sent with it
  target,    \* target[q]: its run; a collector: the directory it looks at
  todo,      \* todo[q]: directories the collector has not looked at
  answer,    \* answer[q]: what the client got
  audit,     \* requests with an entry in the audit log
  removed,   \* history: <<q, r, what>>, what the request removed
  crashes

disk == <<directory, files, checkout, old>>
asked == <<op, header>>
vars == <<mode, row, stage, thread, disk, pos, asked, target, todo, answer, audit, removed, crashes>>

NoHeader == [x_api_key |-> None, bearer |-> None, identity |-> None]
NoRun == "no run"

Init ==
  /\ mode \in Modes
  /\ row = [r \in Runs |-> IF r \in Present THEN "listed" ELSE "none"]
  /\ stage = [r \in Runs |-> IF r \in Present THEN "ended" ELSE "fresh"]
  /\ thread = [r \in Runs |-> "none"]
  /\ directory = Present
  /\ files = Present
  /\ checkout = [r \in Runs |-> IF r \in Present THEN "sealed" ELSE "none"]
  /\ old = {}
  /\ pos = [q \in Requests |-> "idle"]
  /\ op = [q \in Requests |-> "none"]
  /\ header = [q \in Requests |-> NoHeader]
  /\ target = [q \in Requests |-> NoRun]
  /\ todo = [q \in Requests |-> {}]
  /\ answer = [q \in Requests |-> "none"]
  /\ audit = {}
  /\ removed = {}
  /\ crashes = 0

-----------------------------------------------------------------------------
(* core/auth.py.                                                            *)

\* Mutant: reviewers may do what administrators may.
RoleActionsMutant(role) ==
  CASE role = "viewer" -> {"read"}
    [] role = "analyst" -> {"read", "create_run", "cancel_run", "query_kb"}
    [] OTHER -> {"read", "create_run", "cancel_run", "query_kb", "approve", "admin"}

RoleActions(role) ==
  CASE role = "viewer" -> {"read"}
    [] role = "analyst" -> {"read", "create_run", "cancel_run", "query_kb"}
    [] role = "reviewer" -> {"read", "create_run", "cancel_run", "query_kb", "approve"}
    [] role = "admin" -> {"read", "create_run", "cancel_run", "query_kb", "approve", "admin"}
    [] OTHER -> {}

\* extract_key: X-API-Key comes before Authorization.
Presented(h) == IF h.x_api_key # None THEN h.x_api_key ELSE h.bearer

\* authenticate: the role of the caller, or the status of the refusal.
Authenticate(h) ==
  CASE mode = "disabled" -> "admin"
    [] mode = "trusted_header" -> IF h.identity = None THEN "401" ELSE DefaultRole
    [] mode = "e2e_token" -> "501"
    [] mode = "api_key" ->
         IF Presented(h) \in DOMAIN KeyMap THEN KeyMap[Presented(h)] ELSE "401"

\* The permission each route requires.
Permission(o) ==
  CASE o \in ReaderOps -> "read"
    [] o \in CreatorOps -> "create_run"
    [] o \in QuerierOps -> "query_kb"
    [] o \in AdminOps -> "admin"

\* require(action): a refusal (401, 501) has no actions, like an unknown role.
Admitted(o, h) == Permission(o) \in RoleActions(Authenticate(h))

Go(q, p) == pos' = [pos EXCEPT ![q] = p] /\ UNCHANGED answer
Reply(q, a) == pos' = [pos EXCEPT ![q] = "done"] /\ answer' = [answer EXCEPT ![q] = a]

Arrive(q) ==
  /\ pos[q] = "idle"
  /\ \E o \in Ops, h \in Headers :
       /\ op' = [op EXCEPT ![q] = o]
       /\ header' = [header EXCEPT ![q] = h]
       /\ IF Admitted(o, h) THEN Go(q, "entered") ELSE Reply(q, "refused")
       /\ \E r \in (IF o \in {"cancel", "delete", "purge", "download", "reindex"} THEN Runs ELSE {NoRun}) :
            target' = [target EXCEPT ![q] = r]
  /\ UNCHANGED <<mode, row, stage, thread, disk, todo, audit, removed, crashes>>

-----------------------------------------------------------------------------
(* POST /runs, and what the run it starts leaves on the disk.               *)

\* create_run runs in the event loop, from the row to the start without a pause, and so
\* do the coroutines of the runs; the other routes are threads of the pool.
LoopFree == \A q \in Requests : op[q] = "create" => pos[q] \notin {"created", "audited"}

\* is_running, until the flag of the run is cleared at its end.
Executing(r) == stage[r] \in {"started", "fetching", "fetched", "written"}

\* The repository is unknown.
CreateRefused(q) ==
  /\ pos[q] = "entered"
  /\ op[q] = "create"
  /\ Reply(q, "missing")
  /\ UNCHANGED <<mode, row, stage, thread, disk, asked, target, todo, audit, removed, crashes>>

\* A new identifier, and its row.
CreateRow(q) ==
  /\ pos[q] = "entered"
  /\ op[q] = "create"
  /\ LoopFree
  /\ \E r \in Runs :
       /\ stage[r] = "fresh"
       /\ stage' = [stage EXCEPT ![r] = "created"]
       /\ row' = [row EXCEPT ![r] = "bare"]
       /\ target' = [target EXCEPT ![q] = r]
  /\ Go(q, "created")
  /\ UNCHANGED <<mode, thread, disk, asked, todo, audit, removed, crashes>>

CreateAudit(q) ==
  /\ pos[q] = "created"
  /\ audit' = audit \cup {q}
  /\ Go(q, "audited")
  /\ UNCHANGED <<mode, row, stage, thread, disk, asked, target, todo, removed, crashes>>

\* "Run queued": the first event makes the run's directory.  The run is started.
CreateStart(q) ==
  /\ pos[q] = "audited"
  /\ op[q] = "create"
  /\ directory' = directory \cup {target[q]}
  /\ stage' = [stage EXCEPT ![target[q]] = "started"]
  /\ Reply(q, "ok")
  /\ UNCHANGED <<mode, row, thread, files, checkout, old, asked, target, todo, audit, removed, crashes>>

\* _fetch hands resolve_ref and create_worktree to a thread.
StartFetch(r) ==
  /\ LoopFree
  /\ stage[r] = "started"
  /\ stage' = [stage EXCEPT ![r] = "fetching"]
  /\ thread' = [thread EXCEPT ![r] = "fetch"]
  /\ directory' = directory \cup {r}
  /\ UNCHANGED <<mode, row, files, checkout, old, pos, asked, target, todo, answer, audit, removed,
                 crashes>>

\* create_worktree: git makes the checkout,
MakeCheckout(r) ==
  /\ thread[r] = "fetch"
  /\ thread' = [thread EXCEPT ![r] = "checkout"]
  /\ directory' = directory \cup {r}
  /\ checkout' = [checkout EXCEPT ![r] = "open"]
  /\ UNCHANGED <<mode, row, stage, files, old, pos, asked, target, todo, answer, audit, removed, crashes>>

\* and it is sealed, if it is still there.  The coroutine goes on if it still waits.
SealCheckout(r) ==
  /\ thread[r] = "checkout"
  /\ thread' = [thread EXCEPT ![r] = "none"]
  /\ stage' = [stage EXCEPT ![r] = IF @ = "fetching" THEN "fetched" ELSE @]
  /\ checkout' = [checkout EXCEPT ![r] = IF @ = "open" THEN "sealed" ELSE @]
  /\ UNCHANGED <<mode, row, directory, files, old, pos, asked, target, todo, answer, audit, removed,
                 crashes>>

\* _run_agent and _index_kb hand their work to threads.
StartAgent(r) ==
  /\ LoopFree
  /\ stage[r] \in {"fetched", "written"}
  /\ thread[r] = "none"
  /\ thread' = [thread EXCEPT ![r] = "agent"]
  /\ UNCHANGED <<mode, row, stage, disk, pos, asked, target, todo, answer, audit, removed, crashes>>

\* A thread writes: the parent of a checkout, the checkout again (git falls back to a
\* clone), the agents' files, the directory of the deliverables that are indexed.
ThreadWrites(r) ==
  /\ thread[r] # "none"
  /\ directory' = directory \cup {r}
  /\ checkout' = [checkout EXCEPT ![r] = IF thread[r] = "checkout" /\ @ = "none" THEN "open" ELSE @]
  /\ UNCHANGED <<mode, row, stage, thread, files, old, pos, asked, target, todo, answer, audit, removed,
                 crashes>>

\* A thread is over, or has failed; git may remove what it could not check out.
ThreadEnds(r) ==
  /\ thread[r] # "none"
  /\ thread' = [thread EXCEPT ![r] = "none"]
  /\ \E c \in (IF thread[r] = "checkout" THEN {checkout[r], "none"} ELSE {checkout[r]}) :
       checkout' = [checkout EXCEPT ![r] = c]
  /\ UNCHANGED <<mode, row, stage, directory, files, old, pos, asked, target, todo, answer, audit, removed,
                 crashes>>

\* The coroutine emits an event: the journal makes the directory.
Journal(r) ==
  /\ LoopFree
  /\ Executing(r)
  /\ directory' = directory \cup {r}
  /\ UNCHANGED <<mode, row, stage, thread, files, checkout, old, pos, asked, target, todo, answer, audit,
                 removed, crashes>>

\* The coroutine writes deliverables.
WriteFiles(r) ==
  /\ LoopFree
  /\ stage[r] \in {"fetched", "written"}
  /\ stage' = [stage EXCEPT ![r] = "written"]
  /\ directory' = directory \cup {r}
  /\ files' = files \cup {r}
  /\ UNCHANGED <<mode, row, thread, checkout, old, pos, asked, target, todo, answer, audit, removed,
                 crashes>>

\* The run ends, with the done event and the row.  A thread it waited for goes on.
EndRun(r) ==
  /\ LoopFree
  /\ Executing(r)
  /\ stage' = [stage EXCEPT ![r] = "ended"]
  /\ directory' = directory \cup {r}
  /\ row' = [row EXCEPT ![r] = IF stage[r] = "written" THEN "listed" ELSE "bare"]
  /\ UNCHANGED <<mode, thread, files, checkout, old, pos, asked, target, todo, answer, audit, removed,
                 crashes>>

-----------------------------------------------------------------------------
(* POST /runs/r/cancel and POST /kb/reindex/r.                              *)

\* No row: 404 for a cancellation, no chunks for an indexing.
Lookup(q) ==
  /\ pos[q] = "entered"
  /\ op[q] \in {"cancel", "reindex"}
  /\ IF row[target[q]] # "none" THEN Go(q, "found") ELSE Reply(q, "missing")
  /\ UNCHANGED <<mode, row, stage, thread, disk, asked, target, todo, audit, removed, crashes>>

\* The flag is set, if the run has one; "noop" is told as well.
CancelFlag(q) ==
  /\ pos[q] = "found"
  /\ op[q] = "cancel"
  /\ Go(q, IF Executing(target[q]) THEN "accepted" ELSE "closing")
  /\ UNCHANGED <<mode, row, stage, thread, disk, asked, target, todo, audit, removed, crashes>>

CancelAudit(q) ==
  /\ pos[q] = "accepted"
  /\ audit' = audit \cup {q}
  /\ Go(q, "noting")
  /\ UNCHANGED <<mode, row, stage, thread, disk, asked, target, todo, removed, crashes>>

\* "Cancellation requested", in the journal, whatever has happened to the run since.
CancelNote(q) ==
  /\ pos[q] = "noting"
  /\ directory' = directory \cup {target[q]}
  /\ Reply(q, "ok")
  /\ UNCHANGED <<mode, row, stage, thread, files, checkout, old, asked, target, todo, audit, removed,
                 crashes>>

\* index_run makes the directory of the deliverables; reading them, before and after, can
\* fail.
Reindex(q) ==
  /\ pos[q] = "found"
  /\ op[q] = "reindex"
  /\ \/ Go(q, "closing") /\ directory' = directory \cup {target[q]}
     \/ Reply(q, "error") /\ directory' \in {directory, directory \cup {target[q]}}
  /\ UNCHANGED <<mode, row, stage, thread, files, checkout, old, asked, target, todo, audit, removed,
                 crashes>>

-----------------------------------------------------------------------------
(* DELETE /runs/r, with purge_files ("purge") or without.                   *)

DeleteLookup(q) ==
  /\ pos[q] = "entered"
  /\ op[q] \in {"delete", "purge"}
  /\ IF row[target[q]] # "none" THEN Go(q, "found") ELSE Reply(q, "missing")
  /\ UNCHANGED <<mode, row, stage, thread, disk, asked, target, todo, audit, removed, crashes>>

\* Request q will still make the directory of run r.
WillWrite(q, r) ==
  /\ target[q] = r
  /\ \/ pos[q] \in {"accepted", "noting"}
     \/ pos[q] = "found" /\ op[q] = "reindex"

\* The run has ended, its threads too, and no request is about to write for it.
Settled(r) ==
  /\ stage[r] = "ended"
  /\ thread[r] = "none"
  /\ \A q \in Requests : ~WillWrite(q, r)

\* What is noted of a row that is removed: was its run settled?
Of(r) == IF Settled(r) THEN "row" ELSE "live row"

DeleteRow(q) ==
  /\ pos[q] = "found"
  /\ op[q] \in {"delete", "purge"}
  /\ row' = [row EXCEPT ![target[q]] = "none"]
  /\ removed' = removed \cup
       (IF row[target[q]] = "none" THEN {} ELSE {<<q, target[q], Of(target[q])>>})
  /\ Go(q, IF op[q] = "purge" THEN "purging" ELSE "closing")
  /\ UNCHANGED <<mode, stage, thread, disk, asked, target, todo, audit, crashes>>

\* Mutant: the checkout stays sealed.
UnsealMutant(q) ==
  /\ pos[q] = "purging"
  /\ Go(q, "unsealed")
  /\ UNCHANGED <<mode, row, stage, thread, disk, asked, target, todo, audit, removed, crashes>>

\* unseal_worktree.
Unseal(q) ==
  /\ pos[q] = "purging"
  /\ checkout' = [checkout EXCEPT ![target[q]] = IF @ = "sealed" THEN "open" ELSE @]
  /\ Go(q, "unsealed")
  /\ UNCHANGED <<mode, row, stage, thread, directory, files, old, asked, target, todo, audit, removed,
                 crashes>>

\* Something else removes entries of the directory of run r.
Vanishing(q, r) ==
  \/ \E p \in Requests \ {q} : pos[p] = "unsealed" /\ target[p] = r
  \/ thread[r] = "checkout"

\* The walk over the directory, or over the checkout, comes to an entry that has gone,
\* and raises: the request ends there.
WalkFails(q) ==
  /\ pos[q] = "purging"
  /\ op[q] = "purge" => checkout[target[q]] # "none"
  /\ Vanishing(q, target[q])
  /\ Reply(q, "error")
  /\ UNCHANGED <<mode, row, stage, thread, disk, asked, target, todo, audit, removed, crashes>>

\* Mutant: the deliverables are removed, the directory is not.
RemoveTreeMutant(q) ==
  /\ pos[q] = "unsealed"
  /\ files' = files \ {target[q]}
  /\ removed' = removed \cup (IF target[q] \in directory THEN {<<q, target[q], "tree">>} ELSE {})
  /\ todo' = [todo EXCEPT ![q] = @ \ {target[q]}]
  /\ Go(q, IF op[q] = "purge" THEN "closing" ELSE "scanning")
  /\ UNCHANGED <<mode, row, stage, thread, directory, checkout, old, asked, target, audit, crashes>>

\* rmtree(ignore_errors=True): a sealed checkout stays, whatever else is removed.
RemoveTree(q) ==
  LET r == target[q]  gone == checkout[r] # "sealed" IN
  /\ pos[q] = "unsealed"
  /\ files' = files \ {r}
  /\ directory' = IF gone THEN directory \ {r} ELSE directory
  /\ checkout' = IF gone THEN [checkout EXCEPT ![r] = "none"] ELSE checkout
  /\ old' = IF gone THEN old \ {r} ELSE old
  /\ removed' = removed \cup (IF r \in directory THEN {<<q, r, "tree">>} ELSE {})
  /\ todo' = [todo EXCEPT ![q] = @ \ {r}]
  /\ Go(q, IF op[q] = "purge" THEN "closing" ELSE "scanning")
  /\ UNCHANGED <<mode, row, stage, thread, asked, target, audit, crashes>>

\* Mutant: only a deletion with purge_files is told.
CloseMutant(q) ==
  /\ pos[q] = "closing"
  /\ audit' = IF op[q] = "delete" THEN audit ELSE audit \cup {q}
  /\ Reply(q, "ok")
  /\ UNCHANGED <<mode, row, stage, thread, disk, asked, target, todo, removed, crashes>>

\* The last step of a deletion and of a collection.
Close(q) ==
  /\ pos[q] = "closing"
  /\ audit' = audit \cup {q}
  /\ Reply(q, "ok")
  /\ UNCHANGED <<mode, row, stage, thread, disk, asked, target, todo, removed, crashes>>

-----------------------------------------------------------------------------
(* GET /runs/r/artifacts/k/download.                                        *)

\* artifact_path: the row names a file, and the file is there.
DownloadLookup(q) ==
  /\ pos[q] = "entered"
  /\ op[q] = "download"
  /\ IF row[target[q]] = "listed" /\ target[q] \in files THEN Go(q, "found") ELSE Reply(q, "missing")
  /\ UNCHANGED <<mode, row, stage, thread, disk, asked, target, todo, audit, removed, crashes>>

DownloadAudit(q) ==
  /\ pos[q] = "found"
  /\ op[q] = "download"
  /\ audit' = audit \cup {q}
  /\ Go(q, "audited")
  /\ UNCHANGED <<mode, row, stage, thread, disk, asked, target, todo, removed, crashes>>

\* FileResponse opens the file, if it is still there.
DownloadServe(q) ==
  /\ pos[q] = "audited"
  /\ op[q] = "download"
  /\ Reply(q, IF target[q] \in files THEN "ok" ELSE "error")
  /\ UNCHANGED <<mode, row, stage, thread, disk, asked, target, todo, audit, removed, crashes>>

-----------------------------------------------------------------------------
(* POST /admin/gc, with the time to live or ("gc_all") with days=0.         *)

GcScan(q) ==
  /\ pos[q] = "entered"
  /\ op[q] \in {"gc", "gc_all"}
  /\ todo' = [todo EXCEPT ![q] = directory]
  /\ Go(q, "scanning")
  /\ UNCHANGED <<mode, row, stage, thread, disk, asked, target, audit, removed, crashes>>

\* is_dir().
GcLook(q) ==
  /\ pos[q] = "scanning"
  /\ \E r \in todo[q] :
       IF r \in directory
         THEN Go(q, "stat") /\ target' = [target EXCEPT ![q] = r] /\ UNCHANGED todo
         ELSE todo' = [todo EXCEPT ![q] = @ \ {r}] /\ UNCHANGED <<pos, answer, target>>
  /\ UNCHANGED <<mode, row, stage, thread, disk, asked, audit, removed, crashes>>

\* stat(), which raises if the directory has been removed since: the collection
\* ends there.
GcStat(q) ==
  LET r == target[q] IN
  /\ pos[q] = "stat"
  /\ IF r \notin directory THEN Reply(q, "error") /\ UNCHANGED todo
     ELSE IF r \in old \/ op[q] = "gc_all" THEN Go(q, "purging") /\ UNCHANGED todo
     ELSE Go(q, "scanning") /\ todo' = [todo EXCEPT ![q] = @ \ {r}]
  /\ UNCHANGED <<mode, row, stage, thread, disk, asked, target, audit, removed, crashes>>

\* disk_usage_mb() walks over all directories, and raises likewise.
GcEnd(q) ==
  /\ pos[q] = "scanning"
  /\ todo[q] = {}
  /\ \/ Go(q, "closing")
     \/ (\E r \in directory : Vanishing(q, r)) /\ Reply(q, "error")
  /\ UNCHANGED <<mode, row, stage, thread, disk, asked, target, todo, audit, removed, crashes>>

-----------------------------------------------------------------------------
\* A directory gets older than the time to live; runs do not last that long.
Age(r) ==
  /\ r \in directory
  /\ stage[r] = "ended"
  /\ old' = old \cup {r}
  /\ UNCHANGED <<mode, row, stage, thread, directory, files, checkout, pos, asked, target, todo, answer,
                 audit, removed, crashes>>

\* Mutant: the runs that were interrupted get a status of their own.
CrashMutant ==
  /\ crashes < MaxCrashes
  /\ crashes' = crashes + 1
  /\ stage' = [r \in Runs |-> IF stage[r] \in {"fresh", "ended"} THEN stage[r] ELSE "interrupted"]
  /\ thread' = [r \in Runs |-> "none"]
  /\ pos' = [q \in Requests |-> IF pos[q] = "idle" THEN "idle" ELSE "done"]
  /\ answer' = [q \in Requests |->
       IF pos[q] \in {"idle", "done"} THEN answer[q] ELSE "lost"]
  /\ UNCHANGED <<mode, row, disk, asked, target, todo, audit, removed>>

\* The process dies, with its threads and git commands, and is started again.
Crash ==
  /\ crashes < MaxCrashes
  /\ crashes' = crashes + 1
  /\ stage' = [r \in Runs |-> IF stage[r] = "fresh" THEN "fresh" ELSE "ended"]
  /\ thread' = [r \in Runs |-> "none"]
  /\ pos' = [q \in Requests |-> IF pos[q] = "idle" THEN "idle" ELSE "done"]
  /\ answer' = [q \in Requests |->
       IF pos[q] \in {"idle", "done"} THEN answer[q] ELSE "lost"]
  /\ UNCHANGED <<mode, row, disk, asked, target, todo, audit, removed>>

Serve(q) ==
  \/ Arrive(q)
  \/ CreateRefused(q) \/ CreateRow(q) \/ CreateAudit(q) \/ CreateStart(q)
  \/ Lookup(q) \/ CancelFlag(q) \/ CancelAudit(q) \/ CancelNote(q) \/ Reindex(q)
  \/ DeleteLookup(q) \/ DeleteRow(q) \/ Unseal(q) \/ WalkFails(q) \/ RemoveTree(q) \/ Close(q)
  \/ DownloadLookup(q) \/ DownloadAudit(q) \/ DownloadServe(q)
  \/ GcScan(q) \/ GcLook(q) \/ GcStat(q) \/ GcEnd(q)

Coroutine(r) == StartFetch(r) \/ StartAgent(r) \/ Journal(r) \/ WriteFiles(r) \/ EndRun(r)

Thread(r) == MakeCheckout(r) \/ SealCheckout(r) \/ ThreadWrites(r) \/ ThreadEnds(r)

Next ==
  \/ \E q \in Requests : Serve(q)
  \/ \E r \in Runs : Coroutine(r) \/ Thread(r) \/ Age(r)
  \/ Crash

Spec == Init /\ [][Next]_vars

-----------------------------------------------------------------------------
(* Properties.                                                              *)

TypeOK ==
  /\ mode \in Modes
  /\ row \in [Runs -> {"none", "bare", "listed"}]
  /\ stage \in [Runs -> {"fresh", "created", "started", "fetching", "fetched", "written", "ended"}]
  /\ thread \in [Runs -> {"none", "fetch", "checkout", "agent"}]
  /\ directory \in SUBSET Runs
  /\ files \in SUBSET Runs
  /\ checkout \in [Runs -> {"none", "open", "sealed"}]
  /\ old \in SUBSET Runs
  /\ pos \in [Requests -> {"idle", "entered", "created", "audited", "found", "accepted", "noting", "purging",
                           "unsealed", "closing", "scanning", "stat", "done"}]
  /\ op \in [Requests -> Ops \cup {"none"}]
  /\ header \in [Requests -> Headers \cup {NoHeader}]
  /\ target \in [Requests -> Runs \cup {NoRun}]
  /\ todo \in [Requests -> SUBSET Runs]
  /\ answer \in [Requests -> {"none", "ok", "refused", "missing", "error", "lost"}]
  /\ audit \in SUBSET Requests
  /\ removed \in SUBSET (Requests \X Runs \X {"row", "live row", "tree"})
  /\ crashes \in 0 .. MaxCrashes

Removals(q) == {x \in removed : x[1] = q}

\* The audit log tells what was done: a request that succeeded is in it, one that
\* was refused or found nothing is not and has removed nothing.  Only a request
\* that was lost in a crash, or failed half way, can have removed what no entry
\* tells.
AuditExact ==
  \A q \in Requests :
    /\ answer[q] = "ok" => q \in audit
    /\ answer[q] \in {"refused", "missing"} => q \notin audit /\ Removals(q) = {}

\* Nothing of a run is removed except for a caller who is an administrator in the
\* mode the service runs in, and nothing at all while the mode is the reserved one.
OnlyAdminsRemove ==
  \A q \in Requests : Removals(q) # {} =>
    LET h == header[q] IN
    \/ mode = "disabled"
    \/ mode = "trusted_header" /\ h.identity # None /\ DefaultRole = "admin"
    \/ /\ mode = "api_key"
       /\ \E k \in DOMAIN KeyMap :
            KeyMap[k] = "admin" /\ (h.x_api_key = k \/ (h.x_api_key = None /\ h.bearer = k))

\* "files_purged": once the deletion of a run for which nothing was at work any more is
\* answered, neither its row nor anything of its directory is there, and none of it comes
\* back.
PurgeIsComplete ==
  \A q \in Requests :
    op[q] = "purge" /\ answer[q] = "ok" /\ (\A p \in Requests : <<p, target[q], "live row">> \notin removed)
      => row[target[q]] = "none" /\ target[q] \notin directory

\* A directory nothing in the database tells of has one of these causes: the row was
\* deleted while the run executed, while a thread of it went on, or while a cancellation
\* was to be noted or an indexing to begin; or the deletion keeps the files, is in
\* progress, was lost in a crash, or failed on its way through the checkout.
LeftoversExplained ==
  \A r \in directory :
    row[r] = "none" => \E q \in Requests :
      \/ <<q, r, "live row">> \in removed
      \/ /\ <<q, r, "row">> \in removed
         /\ op[q] = "delete" \/ pos[q] # "done" \/ answer[q] \in {"lost", "error"}
=============================================================================
