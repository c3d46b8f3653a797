---------------------------- MODULE RunLifecycle ----------------------------
(***************************************************************************)
(* The life of analysis runs: RunService (services/run_service.py), the    *)
(* control flow of Pipeline.execute (agent/pipeline.py), CancelRegistry    *)
(* (services/events.py), the runs table (infra/db.py) and the start and    *)
(* stop of the service (context.py, main.py).                              *)
(*                                                                         *)
(* A run is a row in the database and, while the service lives, an asyncio *)
(* task.  The row is written at creation and at the very end only.  Tasks  *)
(* share one event loop: code between two awaits is never interrupted by   *)
(* other loop code (LoopHeld), but a request handled by a pool thread (a   *)
(* cancellation, a deletion) or a crash can fall between any two of its    *)
(* effects.                                                                *)
(*                                                                         *)
(* What the phases compute is not modelled here, only how each can end.    *)
(***************************************************************************)
EXTENDS Naturals, Sequences, FiniteSets

CONSTANTS
  Runs,          \* run identifiers (fresh UUIDs: each is created once)
  MaxCrashes,    \* bound: crashes of the service
  MaxStops       \* bound: orderly shutdowns of the service

ASSUME LifecycleAssumption == MaxCrashes \in Nat /\ MaxStops \in Nat

Terminal == {"completed", "failed", "cancelled"}

RunStatus == Terminal \cup
  {"queued", "fetching", "analyzing", "generating", "validating", "archiving", "indexing_kb"}

VARIABLES
  server,      \* "up", "stopping" (lifespan exit), "down"
  row,         \* row[r]: status column of the runs table, "absent" without a row
  status,      \* status[r]: status of the Run object in memory, "none" before creation
  pc,          \* pc[r]: where the coroutine handling r is
  exc,         \* exc[r]: what made execute() end
  flag,        \* flag[r]: the cancel flag of r: "absent", "clear", "set"
  journal,     \* journal[r]: final (done) events and cancel requests of r
  canceller,   \* canceller[r]: where the thread serving POST /runs/r/cancel is
  purging,     \* runs whose directory a deletion is about to remove
  crashes, stops,
  accepted,    \* history: accepted[r]: "no", or "early"/"late": was r cancelled by a user
  interrupted  \* history: runs in flight when an orderly shutdown began

service == <<server, crashes, stops>>
task == <<status, pc, exc>>
history == <<accepted, interrupted>>
vars == <<service, task, history, row, flag, journal, canceller, purging>>

(* Positions of the coroutine.  The task has not begun: "persisted" (in the *)
(* POST handler, row saved), "scheduled".  Awaiting: a phase is running in  *)
(* a thread or in child tasks.  Holding the loop: everything else.          *)
Awaiting == {"fetch", "analyze", "parse", "generate", "kb"}
Ending == {"unwind", "classify", "done", "clear", "save"}
Holding == {"persisted", "validate", "archive"} \cup Ending
Positions == {"none", "scheduled"} \cup Awaiting \cup Holding

\* A flag set now is still to be looked at by the analysis agent's stream.
Early == {"scheduled", "fetch", "analyze"}

LoopHeld == \E r \in Runs : pc[r] \in Holding

LoopFree == server # "down" /\ ~LoopHeld

\* r has the loop: it is holding it, or it is resumed at an await.
Resumed(r, at) == pc[r] = at /\ IF at \in Holding THEN server # "down" ELSE LoopFree

Goto(r, at) == pc' = [pc EXCEPT ![r] = at]

SetStatus(r, s) == status' = [status EXCEPT ![r] = s]

Init ==
  /\ server = "up"
  /\ row = [r \in Runs |-> "absent"]
  /\ status = [r \in Runs |-> "none"]
  /\ pc = [r \in Runs |-> "none"]
  /\ exc = [r \in Runs |-> "none"]
  /\ flag = [r \in Runs |-> "absent"]
  /\ journal = [r \in Runs |-> <<>>]
  /\ canceller = [r \in Runs |-> "idle"]
  /\ purging = {}
  /\ crashes = 0
  /\ stops = 0
  /\ accepted = [r \in Runs |-> "no"]
  /\ interrupted = {}

-----------------------------------------------------------------------------
(* Creation: POST /runs, an async route.                                    *)

\* RunService.create(): the row is saved.
Create(r) ==
  /\ server = "up" /\ ~LoopHeld
  /\ status[r] = "none"
  /\ row' = [row EXCEPT ![r] = "queued"]
  /\ SetStatus(r, "queued")
  /\ Goto(r, "persisted")
  /\ UNCHANGED <<service, history, exc, flag, journal, canceller, purging>>

\* RunService.start(): the flag is registered and the task is scheduled.
Start(r) ==
  /\ Resumed(r, "persisted")
  /\ flag' = [flag EXCEPT ![r] = "clear"]
  /\ Goto(r, "scheduled")
  /\ UNCHANGED <<service, history, row, status, exc, journal, canceller, purging>>

-----------------------------------------------------------------------------
(* Pipeline.execute(): the phases in order.                                 *)

Enter(r, from, to, s) ==
  /\ Resumed(r, from)
  /\ server = "up"
  /\ Goto(r, to)
  /\ SetStatus(r, s)
  /\ UNCHANGED <<service, history, row, exc, flag, journal, canceller, purging>>

BeginFetch(r) == Enter(r, "scheduled", "fetch", "fetching")

BeginAnalyze(r) == Enter(r, "fetch", "analyze", "analyzing")

\* Mutant: the agent's stream is consumed without looking at the flag.
StreamOverMutant(r) == Enter(r, "analyze", "parse", status[r])

\* The analysis agent's stream is over and no event of it found the flag set.
StreamOver(r) ==
  /\ flag[r] # "set"
  /\ Enter(r, "analyze", "parse", status[r])

BeginGenerate(r) == Enter(r, "parse", "generate", "generating")

\* At least one deliverable was generated, or none was asked for.  A flag set
\* meanwhile stops branches, not the run (module Deliverables).
BeginValidate(r) == Enter(r, "generate", "validate", "validating")

BeginArchive(r) ==
  /\ Resumed(r, "validate")
  /\ Goto(r, "archive")
  /\ SetStatus(r, "archiving")
  /\ UNCHANGED <<service, history, row, exc, flag, journal, canceller, purging>>

BeginIndex(r) ==
  /\ Resumed(r, "archive")
  /\ Goto(r, "kb")
  /\ SetStatus(r, "indexing_kb")
  /\ UNCHANGED <<service, history, row, exc, flag, journal, canceller, purging>>

\* Every phase succeeded.
Complete(r) == Enter(r, "kb", "classify", "completed")

Throw(r, e) ==
  /\ exc' = [exc EXCEPT ![r] = e]
  /\ Goto(r, "unwind")
  /\ UNCHANGED <<service, status, row, flag, journal, canceller, purging>>

\* A phase raises: git, the model, a missing analysis, no deliverable, the disk.
PhaseFails(r) ==
  /\ \E at \in Awaiting \cup {"validate", "archive"} : Resumed(r, at)
  /\ server = "up"
  /\ Throw(r, "error")
  /\ UNCHANGED history

\* An event of the analysis agent's stream finds the flag set.
CancelSeen(r) ==
  /\ Resumed(r, "analyze")
  /\ server = "up"
  /\ flag[r] = "set"
  /\ Throw(r, "cancelled")
  /\ UNCHANGED history

\* The wall clock limit: wait_for cancels execute() at its await.
TimeOut(r) ==
  /\ \E at \in Awaiting : Resumed(r, at)
  /\ server = "up"
  /\ Throw(r, "timeout")
  /\ UNCHANGED history

\* execute()'s except clauses: a timeout still looks like a cancellation here.
Unwind(r) ==
  /\ Resumed(r, "unwind")
  /\ SetStatus(r, IF exc[r] = "error" THEN "failed" ELSE "cancelled")
  /\ Goto(r, "classify")
  /\ UNCHANGED <<service, history, row, exc, flag, journal, canceller, purging>>

-----------------------------------------------------------------------------
(* RunService._execute(): except clauses and finally.                       *)

\* Mutant: the limit is told by the cancellation it is delivered as.
ClassifyMutant(r) ==
  /\ Resumed(r, "classify")
  /\ SetStatus(r, CASE exc[r] = "error" -> "failed"
                    [] exc[r] \in {"timeout", "cancelled"} -> "cancelled"
                    [] exc[r] = "none" -> status[r])
  /\ Goto(r, "done")
  /\ UNCHANGED <<service, history, row, exc, flag, journal, canceller, purging>>

Classify(r) ==
  /\ Resumed(r, "classify")
  /\ SetStatus(r, CASE exc[r] \in {"timeout", "error"} -> "failed"
                    [] exc[r] = "cancelled" -> "cancelled"
                    [] exc[r] = "none" -> status[r])
  /\ Goto(r, "done")
  /\ UNCHANGED <<service, history, row, exc, flag, journal, canceller, purging>>

\* Mutant: the pipeline publishes the outcome as well.
EmitDoneMutant(r) ==
  /\ Resumed(r, "done")
  /\ journal' = [journal EXCEPT ![r] = @ \o <<status[r], status[r]>>]
  /\ Goto(r, "clear")
  /\ UNCHANGED <<service, history, row, status, exc, flag, canceller, purging>>

EmitDone(r) ==
  /\ Resumed(r, "done")
  /\ journal' = [journal EXCEPT ![r] = Append(@, status[r])]
  /\ Goto(r, "clear")
  /\ UNCHANGED <<service, history, row, status, exc, flag, canceller, purging>>

ClearFlag(r) ==
  /\ Resumed(r, "clear")
  /\ flag' = [flag EXCEPT ![r] = "absent"]
  /\ Goto(r, "save")
  /\ UNCHANGED <<service, history, row, status, exc, journal, canceller, purging>>

\* Mutant: the final status is published but not saved.
SaveMutant(r) ==
  /\ Resumed(r, "save")
  /\ Goto(r, "none")
  /\ exc' = [exc EXCEPT ![r] = "none"]
  /\ UNCHANGED <<service, history, row, status, flag, journal, canceller, purging>>

\* save_run() is an upsert: it writes the row whether or not there is one.
Save(r) ==
  /\ Resumed(r, "save")
  /\ row' = [row EXCEPT ![r] = status[r]]
  /\ Goto(r, "none")
  /\ exc' = [exc EXCEPT ![r] = "none"]
  /\ UNCHANGED <<service, history, status, flag, journal, canceller, purging>>

-----------------------------------------------------------------------------
(* Requests served by pool threads.  A run is cancelled at most once here.  *)

\* POST /runs/r/cancel: the run has a row, and the registry has its flag.
CancelLookup(r) ==
  /\ server = "up"
  /\ canceller[r] = "idle"
  /\ row[r] # "absent"
  /\ flag[r] # "absent"
  /\ canceller' = [canceller EXCEPT ![r] = "found"]
  /\ UNCHANGED <<service, task, history, row, flag, journal, purging>>

\* The flag object is set, which nobody sees if it was cleared meanwhile.
CancelSet(r) ==
  /\ server # "down"
  /\ canceller[r] = "found"
  /\ flag' = [flag EXCEPT ![r] = IF @ = "absent" THEN @ ELSE "set"]
  /\ accepted' = [accepted EXCEPT ![r] = IF pc[r] \in Early THEN "early" ELSE "late"]
  /\ canceller' = [canceller EXCEPT ![r] = "log"]
  /\ UNCHANGED <<service, task, interrupted, row, journal, purging>>

\* "Cancellation requested" goes to the journal, also after the done event.
CancelLog(r) ==
  /\ server # "down"
  /\ canceller[r] = "log"
  /\ journal' = [journal EXCEPT ![r] = Append(@, "cancel requested")]
  /\ canceller' = [canceller EXCEPT ![r] = "served"]
  /\ UNCHANGED <<service, task, history, row, flag, purging>>

\* DELETE /runs/r: the row goes, whatever the run is doing.
Delete(r) ==
  /\ server # "down"
  /\ row[r] # "absent"
  /\ row' = [row EXCEPT ![r] = "absent"]
  /\ purging' \in {purging, purging \cup {r}}
  /\ UNCHANGED <<service, task, history, flag, journal, canceller>>

\* purge_files: the run directory goes, and the journal with it.
Purge(r) ==
  /\ server # "down"
  /\ r \in purging
  /\ purging' = purging \ {r}
  /\ journal' = [journal EXCEPT ![r] = <<>>]
  /\ UNCHANGED <<service, task, history, row, flag, canceller>>

-----------------------------------------------------------------------------
(* Start and stop of the service.                                           *)

\* RunService.shutdown(): every task gets its flag set and is cancelled.  A
\* task that has not begun ends without ever entering _execute().
Shutdown ==
  /\ server = "up" /\ ~LoopHeld
  /\ stops < MaxStops
  /\ server' = "stopping"
  /\ stops' = stops + 1
  /\ interrupted' = interrupted \cup {r \in Runs : pc[r] # "none"}
  /\ flag' = [r \in Runs |-> IF pc[r] # "none" /\ flag[r] # "absent" THEN "set" ELSE flag[r]]
  /\ pc' = [r \in Runs |-> IF pc[r] = "scheduled" THEN "none" ELSE pc[r]]
  /\ UNCHANGED <<crashes, status, exc, accepted, row, journal, canceller, purging>>

\* The cancellation arrives at the await of a task.
TaskCancelled(r) ==
  /\ server = "stopping"
  /\ \E at \in Awaiting : Resumed(r, at)
  /\ Throw(r, "cancelled")
  /\ UNCHANGED history

\* Nothing of the process survives; what the database and the disk hold does.
Die ==
  /\ server' = "down"
  /\ pc' = [r \in Runs |-> "none"]
  /\ exc' = [r \in Runs |-> "none"]
  /\ flag' = [r \in Runs |-> "absent"]
  /\ canceller' = [r \in Runs |-> IF canceller[r] = "idle" THEN "idle" ELSE "served"]
  /\ purging' = {}
  /\ UNCHANGED <<status, row, journal, history>>

\* All tasks are gone: the process exits.
Stop ==
  /\ server = "stopping"
  /\ \A r \in Runs : pc[r] = "none"
  /\ Die
  /\ UNCHANGED <<crashes, stops>>

Crash ==
  /\ server # "down"
  /\ crashes < MaxCrashes
  /\ crashes' = crashes + 1
  /\ Die
  /\ UNCHANGED stops

\* Mutant: only the statuses of a started run are looked for.
RestartMutant ==
  /\ server = "down"
  /\ server' = "up"
  /\ row' = [r \in Runs |-> IF row[r] \in {"absent", "queued"} \cup Terminal
                              THEN row[r] ELSE "failed"]
  /\ UNCHANGED <<crashes, stops, task, history, flag, journal, canceller, purging>>

\* Mutant: every run the last process left behind is marked failed.
RestartAllMutant ==
  /\ server = "down"
  /\ server' = "up"
  /\ row' = [r \in Runs |-> IF row[r] = "absent" THEN row[r] ELSE "failed"]
  /\ UNCHANGED <<crashes, stops, task, history, flag, journal, canceller, purging>>

\* Mutant: the row gets a status of its own, which RunStatus does not have.
RestartNewStatusMutant ==
  /\ server = "down"
  /\ server' = "up"
  /\ row' = [r \in Runs |-> IF row[r] \in {"absent"} \cup Terminal THEN row[r] ELSE "interrupted"]
  /\ UNCHANGED <<crashes, stops, task, history, flag, journal, canceller, purging>>

\* AppContext.create(): reset_stale_runs() before anything is served.
Restart ==
  /\ server = "down"
  /\ server' = "up"
  /\ row' = [r \in Runs |-> IF row[r] \in {"absent"} \cup Terminal THEN row[r] ELSE "failed"]
  /\ UNCHANGED <<crashes, stops, task, history, flag, journal, canceller, purging>>

-----------------------------------------------------------------------------
Phase(r) ==
  \/ BeginFetch(r)
  \/ BeginAnalyze(r)
  \/ StreamOver(r)
  \/ BeginGenerate(r)
  \/ BeginValidate(r)
  \/ BeginArchive(r)
  \/ BeginIndex(r)
  \/ Complete(r)
  \/ PhaseFails(r)
  \/ CancelSeen(r)

Finalise(r) ==
  \/ Unwind(r)
  \/ Classify(r)
  \/ EmitDone(r)
  \/ ClearFlag(r)
  \/ Save(r)

Request(r) ==
  \/ CancelLookup(r)
  \/ CancelSet(r)
  \/ CancelLog(r)
  \/ Delete(r)
  \/ Purge(r)

Next ==
  \/ \E r \in Runs :
       \/ Create(r)
       \/ Start(r)
       \/ Phase(r)
       \/ TimeOut(r)
       \/ TaskCancelled(r)
       \/ Finalise(r)
       \/ Request(r)
  \/ Shutdown
  \/ Stop
  \/ Crash
  \/ Restart

Spec == Init /\ [][Next]_vars

(* Code that has the loop goes on; a task that can be resumed is resumed    *)
(* although other tasks run in between (strong fairness: the ready queue of *)
(* asyncio is first in, first out); the wall clock limit fires; a stopped   *)
(* service is started again.  The phases themselves need never end: no      *)
(* fairness is assumed of git, of the model, or of the deliverables.        *)
Fairness ==
  /\ \A r \in Runs :
       /\ WF_vars(Start(r))
       /\ WF_vars(BeginArchive(r) \/ BeginIndex(r))
       /\ WF_vars(Finalise(r))
       /\ SF_vars(BeginFetch(r))
       /\ SF_vars(TimeOut(r))
       /\ SF_vars(TaskCancelled(r))
  /\ WF_vars(Stop)
  /\ WF_vars(Restart)

FairSpec == Spec /\ Fairness

-----------------------------------------------------------------------------
(* Properties.                                                              *)

JournalEvents == Terminal \cup {"cancel requested"}

TypeOK ==
  /\ server \in {"up", "stopping", "down"}
  /\ row \in [Runs -> RunStatus \cup {"absent"}]
  /\ status \in [Runs -> RunStatus \cup {"none"}]
  /\ pc \in [Runs -> Positions]
  /\ exc \in [Runs -> {"none", "cancelled", "timeout", "error"}]
  /\ flag \in [Runs -> {"absent", "clear", "set"}]
  /\ journal \in [Runs -> Seq(JournalEvents)]
  /\ canceller \in [Runs -> {"idle", "found", "log", "served"}]
  /\ purging \in SUBSET Runs
  /\ crashes \in Nat
  /\ stops \in Nat
  /\ accepted \in [Runs -> {"no", "early", "late"}]
  /\ interrupted \in SUBSET Runs

\* A run publishes at most one final event, whatever combination of errors,
\* cancellation, timeout, shutdown, deletion and restart ends it.
AtMostOneDone ==
  \A r \in Runs : \A i, j \in DOMAIN journal[r] :
    journal[r][i] \in Terminal /\ journal[r][j] \in Terminal => i = j

\* The final event and the database agree: once the loop has let go of the run,
\* whoever saw done(s) finds status s in the row, unless the run was deleted or
\* a crash fell between the event and the row.
DoneAgreesWithRow ==
  \A r \in Runs : \A i \in DOMAIN journal[r] :
    journal[r][i] \in Terminal /\ pc[r] = "none" =>
      \/ row[r] \in {journal[r][i], "absent"}
      \/ crashes > 0 /\ row[r] \in {"queued", "failed"}

\* A run is shown as cancelled only if a user or a shutdown cancelled it: a
\* timeout, which reaches the pipeline as a cancellation, is not reported as one.
CancelledOnlyWhenAsked ==
  \A r \in Runs :
    row[r] = "cancelled" \/ (\E i \in DOMAIN journal[r] : journal[r][i] = "cancelled")
      => accepted[r] # "no" \/ r \in interrupted

\* A cancellation accepted before the analysis agent's last event is honoured:
\* the run does not go on to be reported as completed.
EarlyCancelHonoured ==
  \A r \in Runs : accepted[r] = "early" => status[r] # "completed"

\* A cancel flag is registered only while there is something to cancel, so a
\* finished run answers "not currently executing".
FlagsReleased ==
  server = "up" => \A r \in Runs : flag[r] # "absent" => pc[r] \notin {"none", "save"}

\* The outcome of a run, once in the database, is never replaced by another.
OutcomeIsFinal ==
  [][\A r \in Runs : row[r] \in Terminal => row'[r] \in {row[r], "absent"}]_vars

(* The runs as the promise of RunRecord sees them.                          *)

\* Between the final event and the row, the outcome is told and not recorded.
RecordStage ==
  [r \in Runs |-> IF pc[r] \in {"clear", "save"} THEN "decided"
                  ELSE IF pc[r] # "none" THEN "open"
                  ELSE IF status[r] = "none" THEN "new" ELSE "closed"]

RecordVerdict == [r \in Runs |-> IF pc[r] \in {"clear", "save"} THEN status[r] ELSE "none"]

RecordTold == [r \in Runs |-> {journal[r][i] : i \in DOMAIN journal[r]} \cap Terminal]

RecordAsked == {r \in Runs : accepted[r] # "no" \/ r \in interrupted}

Record == INSTANCE RunRecord WITH
  stage <- RecordStage, verdict <- RecordVerdict, told <- RecordTold, asked <- RecordAsked

\* A run is decided once; what its journal tells is what its row gets, which nothing
\* replaces but a deletion, and a run that a crash cut short is recorded as failed.
RecordSpec == Record!Spec

(* The runs as PhaseRules sees them, from their first phase to the row.     *)

RulesAt ==
  [r \in Runs |-> IF pc[r] \in {"generate", "validate", "archive", "kb"} THEN pc[r]
                  ELSE IF pc[r] \in Ending THEN "ended"
                  ELSE IF pc[r] = "none" /\ status[r] # "none" THEN "closed" ELSE "early"]

\* How execute() has ended, by what it has raised.
Raised == [none |-> "completed", error |-> "failed", timeout |-> "failed", cancelled |-> "cancelled"]

\* What was raised decides, until the except clauses have put it into the status.
RulesVerdict ==
  [r \in Runs |-> IF pc[r] \in {"unwind", "classify"} THEN Raised[exc[r]]
                  ELSE IF pc[r] \in Ending THEN status[r] ELSE "none"]

Rules == INSTANCE PhaseRules WITH
  at <- RulesAt, verdict <- RulesVerdict

\* The phases of a run come in their order, it completes after the last of them only,
\* is cancelled only where it awaits, and what is published is how it ended: a timeout
\* is a failure, although the phases see it as the cancellation it is delivered as.
PhaseSpec == Rules!Spec

\* No run stays unfinished in the database for ever, even if git or the model
\* never answers and even if the service dies before the run begins.
EveryRunSettles == \A r \in Runs : row[r] = "queued" ~> row[r] # "queued"

\* A deleted run stays deleted (DESIGN.md 6.4 and 7.3 describe what deletion
\* removes).
DeletedStaysDeleted ==
  [][\A r \in Runs : status[r] # "none" /\ row[r] = "absent" => row'[r] = "absent"]_vars
=============================================================================
