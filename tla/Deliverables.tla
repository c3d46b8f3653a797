---------------------------- MODULE Deliverables ----------------------------
(***************************************************************************)
(* The second half of one run: Pipeline._generate, _validate, _archive and *)
(* _index_kb (agent/pipeline.py) with the artifact entries and the files   *)
(* they are about (services/artifacts.py).                                 *)
(*                                                                         *)
(* Every requested deliverable gets a branch, a task of its own; branches  *)
(* share a semaphore, and the agent call of a branch runs in a worker      *)
(* thread.  Between two awaits the event loop is not given up, so a branch *)
(* resumes in one step.  A user's cancel flag and the removal of the run   *)
(* directory (DELETE with purge_files, the collector of old runs) come     *)
(* from other threads and can fall anywhere; the wall clock limit and a    *)
(* shutdown cancel the run at an await.                                    *)
(*                                                                         *)
(* A thread that outlives its branch has no effect modelled here.          *)
(***************************************************************************)
EXTENDS Naturals, Sequences, FiniteSets

CONSTANTS
  Deliverables,  \* kinds of deliverable, in the order of the artifact list
  TextKinds,     \* those written by write_text, which makes the directory
  Requests,      \* the "skills" a request may list; a kind may be listed twice
  Slots,         \* max_parallel_artifacts
  MaxPurges      \* bound: removals of the run directory

Kinds == {Deliverables[n] : n \in DOMAIN Deliverables}

ASSUME DeliverablesAssumption ==
  /\ Deliverables \in Seq(Kinds)
  /\ TextKinds \subseteq Kinds
  /\ Requests \subseteq Seq(Kinds)
  /\ Slots \in Nat \ {0}
  /\ MaxPurges \in Nat

VARIABLES
  request,     \* the deliverables asked for
  at,          \* where execute() is
  branch,      \* branch[i]: where the branch for request[i] is
  queue,       \* branches waiting for the semaphore, first come first served
  artifact,    \* artifact[k]: state of the artifact entry of kind k
  directory,   \* does the artifact directory exist
  files,       \* kinds whose file is in it
  flag,        \* the cancel flag
  phase,       \* status of the phases
  checked,     \* entries of the artifact list validated so far
  verified,    \* kinds whose file validation found in order
  problems,    \* has validation met a problem
  manifest,    \* artifact states archived in manifest.json, or NoManifest
  stopped,     \* "none", or what cancelled execute(): "timeout", "shutdown"
  outcome,     \* how the run ended
  purges

disk == <<directory, files, purges>>
validation == <<checked, verified, problems>>
result == <<manifest, stopped, outcome>>
vars == <<request, at, branch, queue, artifact, disk, flag, phase, validation, result>>

Phases == {"generate", "validate", "archive", "kb"}
NoManifest == [k \in Kinds |-> "pending"]

Answers == {"usable", "unusable", "error", "stopped"}
Finished == {"ok", "failed", "cancelled", "killed"}

\* Mutant: a branch that fails keeps its slot.
HoldersMutant == {i \in DOMAIN branch : branch[i] \in {"calling", "failed"} \cup Answers}

\* Inside "async with semaphore".
Holders == {i \in DOMAIN branch : branch[i] \in {"calling"} \cup Answers}

Init ==
  /\ request \in Requests
  /\ at = "start"
  /\ branch = [i \in DOMAIN request |-> "waiting"]
  /\ queue = [i \in DOMAIN request |-> i]
  /\ artifact = [k \in Kinds |-> "pending"]
  /\ directory = TRUE
  /\ files = {}
  /\ flag = FALSE
  /\ phase = [p \in Phases |-> "pending"]
  /\ checked = 0
  /\ verified = {}
  /\ problems = FALSE
  /\ manifest = NoManifest
  /\ stopped = "none"
  /\ outcome = "none"
  /\ purges = 0

\* The run directory is removed.
Removal ==
  /\ purges < MaxPurges
  /\ purges' = purges + 1
  /\ directory' = FALSE
  /\ files' = {}

\* execute() goes on to the next phase, or ends.
Advance(done, how, to) ==
  /\ at' = to
  /\ phase' = [p \in Phases |-> IF p = done THEN how ELSE IF p = to THEN "running" ELSE phase[p]]

Ends(o) == outcome' = o /\ UNCHANGED <<manifest, stopped>>

\* A phase raises: execute() marks the phase that was running as failed.
Raises ==
  /\ Advance(at, "failed", "over")
  /\ Ends("failed")

-----------------------------------------------------------------------------
(* _generate.                                                               *)

Begin ==
  /\ at = "start"
  /\ IF request = <<>>
       THEN at' = "validate" /\ phase' = [phase EXCEPT !["generate"] = "skipped", !["validate"] = "running"]
       ELSE at' = "generate" /\ phase' = [phase EXCEPT !["generate"] = "running"]
  /\ UNCHANGED <<request, branch, queue, artifact, disk, flag, validation, result>>

\* A branch gets the semaphore and looks at the flag before it starts its agent.
Acquire(i) ==
  /\ at = "generate"
  /\ queue # <<>> /\ i = Head(queue)
  /\ Cardinality(Holders) < Slots
  /\ queue' = Tail(queue)
  /\ IF flag
       THEN branch' = [branch EXCEPT ![i] = "cancelled"] /\ UNCHANGED artifact
       ELSE /\ branch' = [branch EXCEPT ![i] = "calling"]
            /\ artifact' = [artifact EXCEPT ![request[i]] = "running"]
  /\ UNCHANGED <<request, at, disk, flag, phase, validation, result>>

\* The thread is done: with an answer, with an exception, or because an event of
\* the agent's stream found the flag set.
Answer(i) ==
  /\ branch[i] = "calling"
  /\ \E a \in IF flag THEN Answers ELSE Answers \ {"stopped"} :
       branch' = [branch EXCEPT ![i] = a]
  /\ UNCHANGED <<request, at, queue, artifact, disk, flag, phase, validation, result>>

Settle(i, b, state) ==
  /\ branch' = [branch EXCEPT ![i] = b]
  /\ artifact' = [artifact EXCEPT ![request[i]] = state]
  /\ UNCHANGED <<request, at, queue, flag, phase, validation, result>>

\* _persist_deliverable: the file is written and the entry is marked ready.
Persist(i) ==
  /\ at = "generate"
  /\ branch[i] = "usable"
  /\ directory \/ request[i] \in TextKinds
  /\ directory' = TRUE
  /\ files' = files \cup {request[i]}
  /\ UNCHANGED purges
  /\ Settle(i, "ok", "ready")

\* The agent raised, its answer is too short or has no rows, or it cannot be
\* written, perhaps after the file was (the sidecar).
BranchFails(i) ==
  /\ at = "generate"
  /\ branch[i] \in {"usable", "unusable", "error"}
  /\ files' \in {files} \cup (IF branch[i] = "usable" /\ directory
                                THEN {files \cup {request[i]}} ELSE {})
  /\ UNCHANGED <<directory, purges>>
  /\ Settle(i, "failed", "failed")

\* CancelledError is raised on: the branch is over and its entry is left as it is.
BranchCancelled(i) ==
  /\ at = "generate"
  /\ branch[i] = "stopped"
  /\ UNCHANGED disk
  /\ Settle(i, "cancelled", artifact[request[i]])

\* Mutant: one failure fails the run, as gather() does without return_exceptions.
CollectMutant ==
  /\ at = "generate"
  /\ \A i \in DOMAIN branch : branch[i] \in Finished
  /\ IF \E i \in DOMAIN branch : branch[i] = "failed"
       THEN Raises
       ELSE Advance("generate", "done", "validate") /\ UNCHANGED result
  /\ UNCHANGED <<request, branch, queue, artifact, disk, flag, validation>>

\* gather(return_exceptions=True) is complete; cancelled branches count for nothing.
Collect ==
  /\ at = "generate"
  /\ \A i \in DOMAIN branch : branch[i] \in Finished
  /\ IF \E i \in DOMAIN branch : branch[i] = "ok"
       THEN Advance("generate", "done", "validate") /\ UNCHANGED result
       ELSE Raises
  /\ UNCHANGED <<request, branch, queue, artifact, disk, flag, validation>>

-----------------------------------------------------------------------------
(* _validate, which never gives up the loop, _archive and _index_kb.        *)

\* Mutant: a deliverable that was not generated is nothing to validate.
ValidateMutant ==
  LET k == Deliverables[checked + 1] IN
  /\ at = "validate"
  /\ checked < Len(Deliverables)
  /\ checked' = checked + 1
  /\ artifact' = IF artifact[k] = "ready" /\ k \notin files
                   THEN [artifact EXCEPT ![k] = "failed"] ELSE artifact
  /\ verified' = IF artifact[k] = "ready" /\ k \in files THEN verified \cup {k} ELSE verified
  /\ problems' = (problems \/ artifact'[k] # artifact[k])
  /\ UNCHANGED <<request, at, branch, queue, disk, flag, phase, result>>

Validate ==
  LET k == Deliverables[checked + 1] IN
  /\ at = "validate"
  /\ checked < Len(Deliverables)
  /\ checked' = checked + 1
  /\ artifact' = IF artifact[k] = "ready" /\ k \notin files
                   THEN [artifact EXCEPT ![k] = "failed"] ELSE artifact
  /\ verified' = IF artifact[k] = "ready" /\ k \in files THEN verified \cup {k} ELSE verified
  /\ problems' = (problems \/ artifact'[k] = "failed")
  /\ UNCHANGED <<request, at, branch, queue, disk, flag, phase, result>>

\* verify() asks for the size of a file it has just seen, and which is removed.
VerifyRaises ==
  /\ at = "validate"
  /\ checked < Len(Deliverables)
  /\ artifact[Deliverables[checked + 1]] = "ready"
  /\ Deliverables[checked + 1] \in files
  /\ Removal
  /\ Raises
  /\ UNCHANGED <<request, branch, queue, artifact, flag, validation>>

EndValidate ==
  /\ at = "validate"
  /\ checked = Len(Deliverables)
  /\ Advance("validate", IF problems THEN "failed" ELSE "done", "archive")
  /\ UNCHANGED <<request, branch, queue, artifact, disk, flag, validation, result>>

Archive ==
  /\ at = "archive"
  /\ directory' = TRUE
  /\ manifest' = artifact
  /\ Advance("archive", "done", "kb")
  /\ UNCHANGED <<request, branch, queue, artifact, files, purges, flag, validation, stopped, outcome>>

\* Every phase succeeded.
IndexKb ==
  /\ at = "kb"
  /\ Advance("kb", "done", "over")
  /\ Ends("completed")
  /\ UNCHANGED <<request, branch, queue, artifact, disk, flag, validation>>

\* Mutant: the phase is left open.
LatePhaseFailsMutant ==
  /\ at \in {"archive", "kb"}
  /\ at' = "over"
  /\ Ends("failed")
  /\ UNCHANGED <<request, branch, queue, artifact, disk, flag, phase, validation>>

\* The disk, or the index.
LatePhaseFails ==
  /\ at \in {"archive", "kb"}
  /\ Raises
  /\ UNCHANGED <<request, branch, queue, artifact, disk, flag, validation>>

-----------------------------------------------------------------------------
(* From outside.                                                            *)

\* POST /runs/r/cancel.
Cancel ==
  /\ at # "over"
  /\ ~flag
  /\ flag' = TRUE
  /\ UNCHANGED <<request, at, branch, queue, artifact, disk, phase, validation, result>>

\* Mutant: what was still being generated is marked as failed, in memory.
KillMutant(why) ==
  /\ at \in {"generate", "kb"}
  /\ at' = "over"
  /\ stopped' = why
  /\ outcome' = IF why = "timeout" THEN "failed" ELSE "cancelled"
  /\ flag' = (flag \/ why = "shutdown")
  /\ branch' = [i \in DOMAIN branch |-> IF branch[i] \in Finished THEN branch[i] ELSE "killed"]
  /\ queue' = <<>>
  /\ artifact' = [k \in Kinds |-> IF artifact[k] = "running" THEN "failed" ELSE artifact[k]]
  /\ UNCHANGED <<request, disk, phase, validation, manifest>>

\* Mutant: the phase that is interrupted gets a status PhaseStatus does not have.
KillPhaseMutant(why) ==
  /\ at \in {"generate", "kb"}
  /\ Advance(at, "cancelled", "over")
  /\ stopped' = why
  /\ outcome' = IF why = "timeout" THEN "failed" ELSE "cancelled"
  /\ flag' = (flag \/ why = "shutdown")
  /\ branch' = [i \in DOMAIN branch |-> IF branch[i] \in Finished THEN branch[i] ELSE "killed"]
  /\ queue' = <<>>
  /\ UNCHANGED <<request, artifact, disk, validation, manifest>>

\* The wall clock limit or a shutdown cancels execute() at its await; the gather
\* passes it on to the branches.  No phase and no artifact is marked.
Kill(why) ==
  /\ at \in {"generate", "kb"}
  /\ at' = "over"
  /\ stopped' = why
  /\ outcome' = IF why = "timeout" THEN "failed" ELSE "cancelled"
  /\ flag' = (flag \/ why = "shutdown")
  /\ branch' = [i \in DOMAIN branch |-> IF branch[i] \in Finished THEN branch[i] ELSE "killed"]
  /\ queue' = <<>>
  /\ UNCHANGED <<request, artifact, disk, phase, validation, manifest>>

Purge ==
  /\ at # "over"
  /\ Removal
  /\ UNCHANGED <<request, at, branch, queue, artifact, flag, phase, validation, result>>

-----------------------------------------------------------------------------
Loop ==
  \/ Begin
  \/ \E i \in DOMAIN branch : Acquire(i) \/ Persist(i) \/ BranchFails(i) \/ BranchCancelled(i)
  \/ Collect
  \/ Validate
  \/ VerifyRaises
  \/ EndValidate
  \/ Archive

Next ==
  \/ Loop
  \/ \E i \in DOMAIN branch : Answer(i)
  \/ IndexKb
  \/ LatePhaseFails
  \/ Cancel
  \/ \E why \in {"timeout", "shutdown"} : Kill(why)
  \/ Purge

Spec == Init /\ [][Next]_vars

(* The loop is never stuck, and an agent call ends: the model client has a  *)
(* request timeout and a bounded number of retries, and the middleware a    *)
(* budget of tool calls.  The index is local.  Nothing is assumed of the    *)
(* wall clock limit, of users or of operators.                              *)
Fairness ==
  /\ WF_vars(Loop)
  /\ WF_vars(\E i \in DOMAIN branch : Answer(i))
  /\ WF_vars(IndexKb)

FairSpec == Spec /\ Fairness

-----------------------------------------------------------------------------
(* Properties.                                                              *)

TypeOK ==
  /\ request \in Requests
  /\ at \in {"start", "over"} \cup Phases
  /\ branch \in [DOMAIN request -> {"waiting", "calling"} \cup Answers \cup Finished]
  /\ queue \in Seq(DOMAIN request)
  /\ artifact \in [Kinds -> {"pending", "running", "ready", "failed"}]
  /\ directory \in BOOLEAN
  /\ files \in SUBSET Kinds
  /\ flag \in BOOLEAN
  /\ phase \in [Phases -> {"pending", "running", "done", "failed", "skipped"}]
  /\ checked \in 0 .. Len(Deliverables)
  /\ verified \in SUBSET Kinds
  /\ problems \in BOOLEAN
  /\ manifest \in [Kinds -> {"pending", "running", "ready", "failed"}]
  /\ stopped \in {"none", "timeout", "shutdown"}
  /\ outcome \in {"none", "completed", "failed", "cancelled"}
  /\ purges \in 0 .. MaxPurges

\* "One failing branch never fails the run": generation fails only if no branch
\* has delivered.
FailuresIsolated == phase["generate"] = "failed" => \A i \in DOMAIN branch : branch[i] # "ok"

\* A run reported as completed has something to show: one of the deliverables
\* asked for is ready when it ends (unless its files were removed under it).
CompletedDelivers ==
  outcome = "completed" /\ request # <<>> /\ purges = 0 =>
    \E k \in Kinds : artifact[k] = "ready"

\* Validation reported as done has found the file of every deliverable that is
\* ready, and no deliverable has failed.
ValidatedIsVerified ==
  phase["validate"] = "done" =>
    \A k \in Kinds : artifact[k] # "failed" /\ (artifact[k] = "ready" => k \in verified)

\* The manifest tells the final states of the deliverables: nothing that ends the
\* run later changes them.
ManifestIsFinal == phase["archive"] = "done" => manifest = artifact

\* A run that no timeout and no shutdown cancelled leaves no phase open, and no
\* deliverable in generation unless the user cancelled it.
NothingLeftOpen ==
  at = "over" /\ stopped = "none" =>
    /\ \A p \in Phases : phase[p] # "running"
    /\ ~flag => \A k \in Kinds : artifact[k] # "running"

(* The run as PhaseRules sees it.                                           *)

RulesAt ==
  [r \in {"run"} |-> IF at = "start" THEN "early" ELSE IF at = "over" THEN "ended" ELSE at]

Rules == INSTANCE PhaseRules WITH
  Runs <- {"run"}, at <- RulesAt, verdict <- [r \in {"run"} |-> outcome]

\* Whatever the branches and the checkpoints do, the phases come in their order, the
\* run completes after the last of them only, and its outcome is decided once.
\* RunLifecycle keeps the same rules.
PhaseSpec == Rules!Spec

\* Branches never wait for each other for ever: the run ends even if nobody
\* cancels it and no limit fires.
RunEnds == <>(at = "over")

\* "Cancellation requested; the run stops at the next checkpoint": a run one of
\* whose branches stopped at a checkpoint is reported as cancelled.
CheckpointStopsRun ==
  at = "over" /\ stopped = "none" /\ (\E i \in DOMAIN branch : branch[i] = "cancelled")
    => outcome = "cancelled"
=============================================================================
