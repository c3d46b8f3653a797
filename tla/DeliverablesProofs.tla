------------------------- MODULE DeliverablesProofs -------------------------
(***************************************************************************)
(* Theorems about Deliverables for any kinds, requests, number of slots    *)
(* and removals of the run directory.                                      *)
(***************************************************************************)
EXTENDS Deliverables, TLAPS

BranchStates == {"waiting", "calling"} \cup Answers \cup Finished
EntryStates == {"pending", "running", "ready", "failed"}
PhaseStates == {"pending", "running", "done", "failed", "skipped"}
Late == {"archive", "kb", "over"}

(* The inductive invariant, in parts.                                       *)

\* Generation that has failed ended the run, with no branch that delivered.
GenerationFailed ==
  phase["generate"] = "failed" => at = "over" /\ \A i \in DOMAIN branch : branch[i] # "ok"

\* The manifest is written once the entries are settled.
Archived == phase["archive"] = "done" => manifest = artifact /\ at \in {"kb", "over"}

InOrder(k) == artifact[k] # "failed" /\ (artifact[k] = "ready" => k \in verified)

\* What validation has looked at is in order, or it has met a problem.
Validated ==
  /\ at \in {"start", "generate"} => checked = 0
  /\ ~problems => \A n \in 1 .. checked : InOrder(Deliverables[n])
  /\ phase["validate"] = "done" => at \in Late /\ ~problems /\ checked = Len(Deliverables)

\* The phase that is open is the one execute() is in, unless it was cancelled.
PhaseOpen == \A p \in Phases : phase[p] = "running" => at = p \/ stopped # "none"

\* What is shown in generation has a branch, unless something was cancelled.
EntryOpen ==
  /\ \A i \in DOMAIN branch : branch[i] \in {"stopped", "cancelled"} => flag
  /\ at \in {"validate"} \cup Late /\ stopped = "none" => \A i \in DOMAIN branch : branch[i] \in Finished
  /\ ~flag /\ stopped = "none" =>
       \A k \in Kinds : artifact[k] = "running" => \E i \in Holders : request[i] = k

\* The semaphore's queue: branches that have not begun, each of them once.
Queued ==
  /\ \A n \in DOMAIN queue : queue[n] \in DOMAIN branch /\ branch[queue[n]] = "waiting"
  /\ \A m, n \in DOMAIN queue : queue[m] = queue[n] => m = n

\* A branch that delivered has its entry and its file.
Delivered ==
  purges = 0 => \A i \in DOMAIN branch :
    branch[i] = "ok" => artifact[request[i]] = "ready" /\ request[i] \in files

\* What comes after generation has something to work on.
SomethingDelivered ==
  /\ outcome = "completed" => at = "over"
  /\ at \in {"validate", "archive", "kb"} \/ outcome = "completed" =>
       request = <<>> \/ \E i \in DOMAIN branch : branch[i] = "ok"

\* No deliverable is listed twice.
Once == \A r \in Requests : \A i, j \in DOMAIN r : r[i] = r[j] => i = j

-----------------------------------------------------------------------------
(* Types.                                                                   *)

\* What the assumption says of the constants.
LEMMA ConstantTypes ==
  /\ Len(Deliverables) \in Nat /\ DOMAIN Deliverables = 1 .. Len(Deliverables)
  /\ \A n \in 1 .. Len(Deliverables) : Deliverables[n] \in Kinds
  /\ \A k \in Kinds : \E n \in 1 .. Len(Deliverables) : Deliverables[n] = k
  /\ \A r \in Requests : r \in Seq(Kinds) /\ DOMAIN r = 1 .. Len(r) /\ Len(r) \in Nat
  /\ \A r \in Requests : \A i \in DOMAIN r : r[i] \in Kinds
  /\ MaxPurges \in Nat
<1>1. Deliverables \in Seq(Kinds) /\ MaxPurges \in Nat
  BY DeliverablesAssumption
<1>2. /\ Len(Deliverables) \in Nat /\ DOMAIN Deliverables = 1 .. Len(Deliverables)
      /\ \A n \in 1 .. Len(Deliverables) : Deliverables[n] \in Kinds
  BY <1>1
<1>3. \A k \in Kinds : \E n \in 1 .. Len(Deliverables) : Deliverables[n] = k
  BY <1>2 DEF Kinds
<1>4. \A r \in Requests : r \in Seq(Kinds)
  BY DeliverablesAssumption
<1>5. \A r \in Requests : DOMAIN r = 1 .. Len(r) /\ Len(r) \in Nat /\ \A i \in DOMAIN r : r[i] \in Kinds
  BY <1>4
<1> QED
  BY <1>1, <1>2, <1>3, <1>4, <1>5

\* What the other proofs use of the types.
LEMMA Types ==
  ASSUME TypeOK
  PROVE  /\ DOMAIN branch = DOMAIN request
         /\ \A i \in DOMAIN request : request[i] \in Kinds
         /\ \A k \in Kinds : artifact[k] \in EntryStates
BY ConstantTypes DEF TypeOK, EntryStates

LEMMA InitType == Init => TypeOK
<1> SUFFICES ASSUME Init PROVE TypeOK
  OBVIOUS
<1>1. request \in Seq(Kinds) /\ DOMAIN request = 1 .. Len(request) /\ Len(request) \in Nat
  BY ConstantTypes DEF Init
<1>2. queue \in Seq(DOMAIN request)
  BY <1>1 DEF Init
<1>3. branch \in [DOMAIN request -> {"waiting", "calling"} \cup Answers \cup Finished]
  BY DEF Init
<1>4. /\ artifact \in [Kinds -> {"pending", "running", "ready", "failed"}]
      /\ manifest \in [Kinds -> {"pending", "running", "ready", "failed"}]
  BY DEF Init, NoManifest
<1>5. phase \in [Phases -> {"pending", "running", "done", "failed", "skipped"}]
  BY DEF Init
<1>6. checked \in 0 .. Len(Deliverables) /\ purges \in 0 .. MaxPurges
  BY ConstantTypes DEF Init
<1> QED
  BY <1>2, <1>3, <1>4, <1>5, <1>6 DEF Init, TypeOK

\* execute() moves on.
LEMMA AdvanceType ==
  ASSUME TypeOK, NEW p, NEW how \in PhaseStates, NEW to \in {"start", "over"} \cup Phases,
         Advance(p, how, to)
  PROVE  /\ at' \in {"start", "over"} \cup Phases
         /\ phase' \in [Phases -> PhaseStates]
BY DEF TypeOK, Advance, PhaseStates

\* A branch moves, with its artifact entry.
LEMMA BranchType ==
  ASSUME TypeOK, [Next]_vars
  PROVE  /\ request' = request
         /\ branch' \in [DOMAIN request -> BranchStates]
         /\ artifact' \in [Kinds -> EntryStates]
<1>1. /\ branch \in [DOMAIN request -> BranchStates]
      /\ artifact \in [Kinds -> EntryStates]
      /\ DOMAIN branch = DOMAIN request
      /\ \A i \in DOMAIN request : request[i] \in Kinds
  BY ConstantTypes DEF TypeOK, BranchStates, EntryStates
<1>2. CASE UNCHANGED <<request, branch, artifact>>
  BY <1>1, <1>2
<1>3. ASSUME NEW i \in DOMAIN branch, Acquire(i)
      PROVE  request' = request /\ branch' \in [DOMAIN request -> BranchStates]
             /\ artifact' \in [Kinds -> EntryStates]
  BY <1>1, <1>3 DEF Acquire, BranchStates, EntryStates, Finished
<1>4. ASSUME NEW i \in DOMAIN branch, Answer(i)
      PROVE  request' = request /\ branch' \in [DOMAIN request -> BranchStates]
             /\ artifact' \in [Kinds -> EntryStates]
  BY <1>1, <1>4 DEF Answer, BranchStates
<1>5. ASSUME NEW i \in DOMAIN branch, Persist(i) \/ BranchFails(i) \/ BranchCancelled(i)
      PROVE  request' = request /\ branch' \in [DOMAIN request -> BranchStates]
             /\ artifact' \in [Kinds -> EntryStates]
  <2>1. artifact[request[i]] \in EntryStates
    BY <1>1
  <2> QED
    BY <2>1, <1>1, <1>5 DEF Persist, BranchFails, BranchCancelled, Settle, BranchStates,
       EntryStates, Finished
<1>6. CASE Validate
  BY <1>1, <1>6, ConstantTypes DEF Validate, EntryStates
<1>7. ASSUME NEW why \in {"timeout", "shutdown"}, Kill(why)
      PROVE  request' = request /\ branch' \in [DOMAIN request -> BranchStates]
             /\ artifact' \in [Kinds -> EntryStates]
  BY <1>1, <1>7 DEF Kill, BranchStates, Finished
<1>8. [Next]_vars =>
        \/ UNCHANGED <<request, branch, artifact>>
        \/ \E i \in DOMAIN branch :
             Acquire(i) \/ Answer(i) \/ Persist(i) \/ BranchFails(i) \/ BranchCancelled(i)
        \/ Validate
        \/ \E why \in {"timeout", "shutdown"} : Kill(why)
  BY DEF Next, Loop, Begin, Collect, VerifyRaises, EndValidate, Archive, IndexKb,
     LatePhaseFails, Cancel, Purge, vars
<1> QED
  BY <1>2, <1>3, <1>4, <1>5, <1>6, <1>7, <1>8

\* Tail(queue), or nothing, is a queue.
LEMMA QueueType ==
  ASSUME TypeOK, [Next]_vars
  PROVE  queue' \in Seq(DOMAIN request)
<1>1. queue \in Seq(DOMAIN request)
  BY DEF TypeOK
<1>2. ASSUME NEW i \in DOMAIN branch, Acquire(i)
      PROVE  queue' \in Seq(DOMAIN request)
  BY <1>1, <1>2 DEF Acquire
<1>3. ASSUME NEW why \in {"timeout", "shutdown"}, Kill(why)
      PROVE  queue' \in Seq(DOMAIN request)
  BY <1>3 DEF Kill
<1>4. [Next]_vars =>
        \/ UNCHANGED queue
        \/ \E i \in DOMAIN branch : Acquire(i)
        \/ \E why \in {"timeout", "shutdown"} : Kill(why)
  BY DEF Next, Loop, Begin, Answer, Persist, BranchFails, BranchCancelled, Settle, Collect,
     Validate, VerifyRaises, EndValidate, Archive, IndexKb, LatePhaseFails, Cancel, Purge, vars
<1> QED
  BY <1>1, <1>2, <1>3, <1>4

\* execute() is somewhere, and its phases have a status.
LEMMA PhaseType ==
  ASSUME TypeOK, [Next]_vars
  PROVE  /\ at' \in {"start", "over"} \cup Phases
         /\ phase' \in [Phases -> PhaseStates]
<1>1. at \in {"start", "over"} \cup Phases /\ phase \in [Phases -> PhaseStates]
  BY DEF TypeOK, PhaseStates
<1>2. /\ {"generate", "validate", "archive", "kb"} \subseteq Phases
      /\ {"running", "done", "failed", "skipped"} \subseteq PhaseStates
  BY DEF Phases, PhaseStates
<1>3. CASE Begin
  BY <1>1, <1>2, <1>3 DEF Begin
<1>4. CASE Collect \/ VerifyRaises \/ LatePhaseFails
  BY <1>2, <1>4, AdvanceType DEF Collect, VerifyRaises, LatePhaseFails, Raises
<1>5. CASE EndValidate
  <2>1. (IF problems THEN "failed" ELSE "done") \in PhaseStates
    BY <1>2
  <2> QED
    BY <2>1, <1>2, <1>5, AdvanceType DEF EndValidate
<1>6. CASE Archive \/ IndexKb
  BY <1>2, <1>6, AdvanceType DEF Archive, IndexKb
<1>7. ASSUME NEW why \in {"timeout", "shutdown"}, Kill(why)
      PROVE  at' \in {"start", "over"} \cup Phases /\ phase' \in [Phases -> PhaseStates]
  BY <1>1, <1>7 DEF Kill
<1>8. [Next]_vars =>
        \/ UNCHANGED <<at, phase>>
        \/ Begin \/ Collect \/ VerifyRaises \/ LatePhaseFails \/ EndValidate \/ Archive \/ IndexKb
        \/ \E why \in {"timeout", "shutdown"} : Kill(why)
  BY DEF Next, Loop, Acquire, Answer, Persist, BranchFails, BranchCancelled, Settle,
     Validate, Cancel, Purge, vars
<1> QED
  BY <1>1, <1>3, <1>4, <1>5, <1>6, <1>7, <1>8

\* The disk.
LEMMA DiskType ==
  ASSUME TypeOK, [Next]_vars
  PROVE  directory' \in BOOLEAN /\ files' \in SUBSET Kinds /\ purges' \in 0 .. MaxPurges
<1>1. directory \in BOOLEAN /\ files \in SUBSET Kinds /\ purges \in 0 .. MaxPurges
  BY DEF TypeOK
<1>2. ASSUME NEW i \in DOMAIN branch, Persist(i) \/ BranchFails(i)
      PROVE  directory' \in BOOLEAN /\ files' \in SUBSET Kinds /\ purges' \in 0 .. MaxPurges
  <2>1. request[i] \in Kinds /\ directory' \in BOOLEAN /\ purges' = purges
    BY <1>1, <1>2, Types DEF Persist, BranchFails
  <2>2. files' \subseteq files \cup {request[i]}
    BY <1>2 DEF Persist, BranchFails
  <2> QED
    BY <2>1, <2>2, <1>1
<1>3. CASE VerifyRaises \/ Purge
  <2>1. directory' = FALSE /\ files' = {} /\ purges < MaxPurges /\ purges' = purges + 1
    BY <1>3 DEF VerifyRaises, Purge, Removal
  <2>2. purges \in Nat /\ MaxPurges \in Nat
    BY <1>1, ConstantTypes
  <2>3. purges' \in 0 .. MaxPurges
    BY <2>1, <2>2
  <2> QED
    BY <2>1, <2>3
<1>4. CASE Archive
  BY <1>1, <1>4 DEF Archive
<1>5. [Next]_vars =>
        \/ UNCHANGED disk
        \/ \E i \in DOMAIN branch : Persist(i) \/ BranchFails(i)
        \/ VerifyRaises \/ Purge \/ Archive
  BY DEF Next, Loop, Begin, Acquire, Answer, BranchCancelled, Settle, Collect, Validate,
     EndValidate, IndexKb, LatePhaseFails, Cancel, Kill, vars, disk
<1> QED
  BY <1>1, <1>2, <1>3, <1>4, <1>5 DEF disk

\* Validation.
LEMMA ValidationType ==
  ASSUME TypeOK, [Next]_vars
  PROVE  checked' \in 0 .. Len(Deliverables) /\ verified' \in SUBSET Kinds /\ problems' \in BOOLEAN
<1>1. checked \in 0 .. Len(Deliverables) /\ verified \in SUBSET Kinds /\ problems \in BOOLEAN
  BY DEF TypeOK
<1>2. CASE Validate
  BY <1>1, <1>2, ConstantTypes DEF Validate
<1>3. [Next]_vars => UNCHANGED validation \/ Validate
  BY DEF Next, Loop, Begin, Acquire, Answer, Persist, BranchFails, BranchCancelled, Settle,
     Collect, VerifyRaises, EndValidate, Archive, IndexKb, LatePhaseFails, Cancel, Kill, Purge,
     vars, validation
<1> QED
  BY <1>1, <1>2, <1>3 DEF validation

\* The manifest and the outcome.
LEMMA ResultType ==
  ASSUME TypeOK, [Next]_vars
  PROVE  /\ manifest' \in [Kinds -> EntryStates]
         /\ stopped' \in {"none", "timeout", "shutdown"}
         /\ outcome' \in {"none", "completed", "failed", "cancelled"}
         /\ flag' \in BOOLEAN
<1>1. /\ manifest \in [Kinds -> EntryStates] /\ artifact \in [Kinds -> EntryStates]
      /\ stopped \in {"none", "timeout", "shutdown"}
      /\ outcome \in {"none", "completed", "failed", "cancelled"}
      /\ flag \in BOOLEAN
  BY DEF TypeOK, EntryStates
<1>2. CASE Archive
  BY <1>1, <1>2 DEF Archive
<1>3. CASE Collect \/ VerifyRaises \/ IndexKb \/ LatePhaseFails
  BY <1>1, <1>3 DEF Collect, VerifyRaises, IndexKb, LatePhaseFails, Raises, Ends, result
<1>4. CASE Cancel
  BY <1>1, <1>4 DEF Cancel, result
<1>5. ASSUME NEW why \in {"timeout", "shutdown"}, Kill(why)
      PROVE  /\ manifest' \in [Kinds -> EntryStates]
             /\ stopped' \in {"none", "timeout", "shutdown"}
             /\ outcome' \in {"none", "completed", "failed", "cancelled"}
             /\ flag' \in BOOLEAN
  BY <1>1, <1>5 DEF Kill
<1>6. [Next]_vars =>
        \/ UNCHANGED <<manifest, stopped, outcome, flag>>
        \/ Archive \/ Collect \/ VerifyRaises \/ IndexKb \/ LatePhaseFails \/ Cancel
        \/ \E why \in {"timeout", "shutdown"} : Kill(why)
  BY DEF Next, Loop, Begin, Acquire, Answer, Persist, BranchFails, BranchCancelled, Settle,
     Validate, EndValidate, Purge, vars, result
<1> QED
  BY <1>1, <1>2, <1>3, <1>4, <1>5, <1>6

LEMMA TypeStep == TypeOK /\ [Next]_vars => TypeOK'
<1> SUFFICES ASSUME TypeOK, [Next]_vars PROVE TypeOK'
  OBVIOUS
<1>1. request' \in Requests
  BY BranchType DEF TypeOK
<1>2. DOMAIN request' = DOMAIN request
  BY BranchType
<1> QED
  BY <1>1, <1>2, BranchType, QueueType, PhaseType, DiskType, ValidationType, ResultType
  DEF TypeOK, BranchStates, EntryStates, PhaseStates

\* The state of a run of deliverables keeps its types: _generate, _validate, _archive
\* and _index_kb, whatever is requested and whatever fails.
THEOREM TypeCorrect == Spec => []TypeOK
BY InitType, TypeStep, PTL DEF Spec
-----------------------------------------------------------------------------
(* Invariants, one at a time.                                               *)

\* The steps that leave the phases alone, and those that end a phase.
LEMMA PhaseSteps ==
  ASSUME [Next]_vars
  PROVE  \/ UNCHANGED <<at, phase, stopped>>
         \/ Begin /\ UNCHANGED stopped
         \/ /\ Collect \/ VerifyRaises \/ EndValidate \/ Archive \/ IndexKb \/ LatePhaseFails
            /\ UNCHANGED stopped
         \/ at' = "over" /\ stopped' \in {"timeout", "shutdown"} /\ UNCHANGED phase
              /\ \E why \in {"timeout", "shutdown"} : Kill(why)
BY DEF Next, Loop, Begin, Acquire, Answer, Persist, BranchFails, BranchCancelled, Settle, Collect,
   Validate, VerifyRaises, EndValidate, Archive, IndexKb, LatePhaseFails, Raises, Ends, Cancel, Kill,
   Purge, vars, result

LEMMA PhaseOpenStep == TypeOK /\ PhaseOpen /\ [Next]_vars => PhaseOpen'
<1> SUFFICES ASSUME TypeOK, PhaseOpen, [Next]_vars, NEW p \in Phases, phase'[p] = "running"
             PROVE  at' = p \/ stopped' # "none"
  BY DEF PhaseOpen
<1>1. phase \in [Phases -> PhaseStates]
  BY DEF TypeOK, PhaseStates
<1>2. phase[p] = "running" => at = p \/ stopped # "none"
  BY DEF PhaseOpen
<1>3. ASSUME NEW how \in {"done", "failed"}, NEW to, Advance(at, how, to), UNCHANGED stopped
      PROVE  at' = p \/ stopped' # "none"
  BY <1>2, <1>3 DEF Advance
<1>4. CASE Begin /\ UNCHANGED stopped
  BY <1>1, <1>2, <1>4 DEF Begin, Phases
<1>5. CASE /\ Collect \/ VerifyRaises \/ EndValidate \/ Archive \/ IndexKb \/ LatePhaseFails
           /\ UNCHANGED stopped
  BY <1>3, <1>5 DEF Collect, VerifyRaises, EndValidate, Archive, IndexKb, LatePhaseFails, Raises
<1> QED
  BY <1>2, <1>4, <1>5, PhaseSteps

LEMMA GenerationFailedStep == TypeOK /\ GenerationFailed /\ [Next]_vars => GenerationFailed'
<1> SUFFICES ASSUME TypeOK, GenerationFailed, [Next]_vars, phase'["generate"] = "failed"
             PROVE  at' = "over" /\ \A i \in DOMAIN branch' : branch'[i] # "ok"
  BY DEF GenerationFailed
<1>1. phase \in [Phases -> PhaseStates] /\ DOMAIN branch = DOMAIN request
  BY Types DEF TypeOK, PhaseStates
<1>2. CASE phase["generate"] = "failed"
  <2>1. at = "over" /\ \A i \in DOMAIN branch : branch[i] # "ok"
    BY <1>2 DEF GenerationFailed
  <2>2. at' = "over"
    BY <2>1 DEF Next, Loop, Begin, Acquire, Answer, Persist, BranchFails, BranchCancelled, Settle,
       Collect, Validate, VerifyRaises, EndValidate, Archive, IndexKb, LatePhaseFails, Cancel, Kill,
       Purge, vars
  <2>3. UNCHANGED branch \/ \E i \in DOMAIN branch : Answer(i)
    BY <2>1 DEF Next, Loop, Begin, Acquire, Answer, Persist, BranchFails, BranchCancelled, Settle,
       Collect, Validate, VerifyRaises, EndValidate, Archive, IndexKb, LatePhaseFails, Cancel, Kill,
       Purge, vars
  <2>4. ASSUME NEW i \in DOMAIN branch, Answer(i)
        PROVE  \A j \in DOMAIN branch' : branch'[j] # "ok"
    BY <2>1, <2>4 DEF Answer, Answers
  <2> QED
    BY <2>1, <2>2, <2>3, <2>4
<1>3. CASE phase["generate"] # "failed"
  <2>1. Collect
    BY <1>1, <1>3, PhaseSteps DEF Begin, Collect, VerifyRaises, EndValidate, Archive, IndexKb,
       LatePhaseFails, Raises, Advance, Phases
  <2> QED
    BY <2>1, <1>1, <1>3 DEF Collect, Raises, Advance, Phases
<1> QED
  BY <1>2, <1>3

LEMMA ArchivedStep == TypeOK /\ Archived /\ [Next]_vars => Archived'
<1> SUFFICES ASSUME TypeOK, Archived, [Next]_vars, phase'["archive"] = "done"
             PROVE  manifest' = artifact' /\ at' \in {"kb", "over"}
  BY DEF Archived
<1>1. phase \in [Phases -> PhaseStates]
  BY DEF TypeOK, PhaseStates
<1>2. CASE phase["archive"] = "done"
  <2>1. manifest = artifact /\ at \in {"kb", "over"}
    BY <1>2 DEF Archived
  <2> QED
    BY <2>1 DEF Next, Loop, Begin, Acquire, Answer, Persist, BranchFails, BranchCancelled, Settle,
       Collect, Validate, VerifyRaises, EndValidate, Archive, IndexKb, LatePhaseFails, Cancel, Kill,
       Purge, vars, result, Raises, Advance, Ends
<1>3. CASE phase["archive"] # "done"
  <2>1. Archive
    BY <1>1, <1>3, PhaseSteps DEF Begin, Collect, VerifyRaises, EndValidate, Archive, IndexKb,
       LatePhaseFails, Raises, Advance, Phases
  <2> QED
    BY <2>1 DEF Archive, Advance
<1> QED
  BY <1>2, <1>3

\* Entries change in generation, and one at a time in validation.
LEMMA EntrySteps ==
  ASSUME [Next]_vars
  PROVE  \/ UNCHANGED <<artifact, validation>>
         \/ at = "generate" /\ at' = at /\ UNCHANGED validation
         \/ Validate
BY DEF Next, Loop, Begin, Acquire, Answer, Persist, BranchFails, BranchCancelled, Settle, Collect,
   VerifyRaises, EndValidate, Archive, IndexKb, LatePhaseFails, Cancel, Kill, Purge, vars, validation

LEMMA ValidatedStep == TypeOK /\ Validated /\ [Next]_vars => Validated'
<1> SUFFICES ASSUME TypeOK, Validated, [Next]_vars PROVE Validated'
  OBVIOUS
<1>1. /\ checked \in Nat /\ checked' \in Nat /\ problems \in BOOLEAN
      /\ artifact \in [Kinds -> EntryStates] /\ phase \in [Phases -> PhaseStates]
  BY ValidationType, ConstantTypes DEF TypeOK, EntryStates, PhaseStates
<1>2. at' \in {"start", "generate"} => checked' = 0
  <2>1. at' \in {"start", "generate"} => at \in {"start", "generate"}
    BY DEF Next, Loop, Begin, Acquire, Answer, Persist, BranchFails, BranchCancelled, Settle, Collect,
       Validate, VerifyRaises, EndValidate, Archive, IndexKb, LatePhaseFails, Raises, Advance, Cancel,
       Kill, Purge, vars
  <2>2. at \in {"start", "generate"} => UNCHANGED checked
    BY EntrySteps DEF Validate, validation
  <2> QED
    BY <2>1, <2>2 DEF Validated
<1>3. ~problems' => \A n \in 1 .. checked' : InOrder(Deliverables[n])'
  <2>1. CASE UNCHANGED <<artifact, validation>>
    BY <2>1 DEF Validated, InOrder, validation
  <2>2. CASE at = "generate" /\ at' = at /\ UNCHANGED validation
    <3>1. checked' = 0
      BY <2>2, <1>2
    <3> QED
      BY <3>1
  <2>3. CASE Validate
    <3> SUFFICES ASSUME ~problems', NEW n \in 1 .. checked'
                 PROVE  artifact'[Deliverables[n]] # "failed"
                        /\ (artifact'[Deliverables[n]] = "ready" => Deliverables[n] \in verified')
      BY DEF InOrder
    <3> DEFINE k == Deliverables[checked + 1]
    <3>0. /\ checked < Len(Deliverables) /\ checked' = checked + 1
          /\ problems' = (problems \/ artifact'[k] = "failed")
          /\ UNCHANGED artifact \/ artifact' = [artifact EXCEPT ![k] = "failed"]
      BY <2>3 DEF Validate
    <3>1. /\ ~problems /\ artifact'[k] # "failed"
          /\ checked' = checked + 1 /\ checked + 1 \in 1 .. Len(Deliverables)
          /\ UNCHANGED artifact \/ artifact' = [artifact EXCEPT ![k] = "failed"]
      <4>1. checked + 1 \in 1 .. Len(Deliverables)
        BY <3>0, <1>1, ConstantTypes
      <4>2. ~problems /\ artifact'[k] # "failed"
        BY <3>0
      <4> QED
        BY <3>0, <4>1, <4>2
    <3>2. k \in Kinds
      BY <3>1, ConstantTypes
    <3>3. UNCHANGED artifact /\ artifact[k] # "failed" /\ (artifact[k] = "ready" => k \in files)
      BY <3>1, <3>2, <2>3, <1>1 DEF Validate
    <3>4. verified \subseteq verified' /\ (artifact[k] = "ready" => k \in verified')
      BY <3>3, <2>3 DEF Validate
    <3>5. CASE n \in 1 .. checked
      BY <3>1, <3>3, <3>4, <3>5 DEF Validated, InOrder
    <3>6. CASE n = checked + 1
      BY <3>3, <3>4, <3>6
    <3> QED
      BY <3>1, <3>5, <3>6, <1>1
  <2> QED
    BY <2>1, <2>2, <2>3, EntrySteps
<1>4. phase'["validate"] = "done" => at' \in Late /\ ~problems' /\ checked' = Len(Deliverables)
  <2> SUFFICES ASSUME phase'["validate"] = "done"
               PROVE  at' \in Late /\ ~problems' /\ checked' = Len(Deliverables)
    OBVIOUS
  <2>1. CASE phase["validate"] = "done"
    <3>1. at \in Late /\ ~problems /\ checked = Len(Deliverables)
      BY <2>1 DEF Validated
    <3>2. UNCHANGED validation
      BY <3>1, EntrySteps DEF Validate, Late
    <3>3. at' \in Late
      BY <3>1, PhaseSteps DEF Late, Begin, Collect, VerifyRaises, EndValidate, Archive, IndexKb,
         LatePhaseFails, Raises, Advance
    <3> QED
      BY <3>1, <3>2, <3>3 DEF validation
  <2>2. CASE phase["validate"] # "done"
    <3>1. EndValidate
      BY <1>1, <2>2, PhaseSteps DEF Begin, Collect, VerifyRaises, EndValidate, Archive, IndexKb,
         LatePhaseFails, Raises, Advance, Phases
    <3> QED
      BY <3>1, <1>1 DEF EndValidate, Advance, Phases, Late, validation
  <2> QED
    BY <2>1, <2>2
<1> QED
  BY <1>2, <1>3, <1>4 DEF Validated, InOrder

\* Branches move by themselves, or are killed with the run.
LEMMA BranchSteps ==
  ASSUME [Next]_vars
  PROVE  \/ /\ UNCHANGED <<branch, artifact, request, stopped>>
            /\ flag => flag'
         \/ /\ \E i \in DOMAIN branch :
                Acquire(i) \/ Answer(i) \/ Persist(i) \/ BranchFails(i) \/ BranchCancelled(i)
            /\ UNCHANGED <<request, stopped, flag, at>>
         \/ Validate /\ UNCHANGED <<request, branch, stopped, flag, at>>
         \/ \E why \in {"timeout", "shutdown"} : Kill(why)
BY DEF Next, Loop, Begin, Acquire, Answer, Persist, BranchFails, BranchCancelled, Settle, Collect,
   Validate, VerifyRaises, EndValidate, Archive, IndexKb, LatePhaseFails, Raises, Ends, Cancel,
   Purge, vars, result

LEMMA EntryOpenStep == TypeOK /\ EntryOpen /\ [Next]_vars => EntryOpen'
<1> SUFFICES ASSUME TypeOK, EntryOpen, [Next]_vars PROVE EntryOpen'
  OBVIOUS
<1>1. /\ branch \in [DOMAIN request -> BranchStates] /\ artifact \in [Kinds -> EntryStates]
      /\ DOMAIN branch = DOMAIN request /\ flag \in BOOLEAN
      /\ \A i \in DOMAIN request : request[i] \in Kinds
  BY Types DEF TypeOK, EntryStates, BranchStates
<1>2. request' = request /\ DOMAIN branch' = DOMAIN branch
  BY <1>1, BranchType
<1>3. \A i \in DOMAIN branch' : branch'[i] \in {"stopped", "cancelled"} => flag'
  <2>1. ASSUME NEW i \in DOMAIN branch, flag' = flag,
               Acquire(i) \/ Answer(i) \/ Persist(i) \/ BranchFails(i) \/ BranchCancelled(i)
        PROVE  \A j \in DOMAIN branch' : branch'[j] \in {"stopped", "cancelled"} => flag'
    <3>1. \A j \in DOMAIN branch : j # i => branch'[j] = branch[j]
      BY <2>1, <1>1 DEF Acquire, Answer, Persist, BranchFails, BranchCancelled, Settle
    <3>2. branch'[i] \in {"stopped", "cancelled"} => flag
      BY <2>1, <1>1 DEF EntryOpen, Acquire, Answer, Persist, BranchFails, BranchCancelled, Settle, Answers
    <3> QED
      BY <3>1, <3>2, <2>1, <1>2 DEF EntryOpen
  <2>2. ASSUME NEW why \in {"timeout", "shutdown"}, Kill(why)
        PROVE  \A j \in DOMAIN branch' : branch'[j] \in {"stopped", "cancelled"} => flag'
    BY <2>2, <1>1 DEF Kill, EntryOpen, Finished
  <2>3. CASE UNCHANGED branch /\ (flag => flag')
    BY <2>3 DEF EntryOpen
  <2> QED
    BY <2>1, <2>2, <2>3, BranchSteps
<1>4. at' \in {"validate"} \cup Late /\ stopped' = "none" =>
        \A i \in DOMAIN branch' : branch'[i] \in Finished
  <2> SUFFICES ASSUME at' \in {"validate"} \cup Late, stopped' = "none"
               PROVE  \A i \in DOMAIN branch' : branch'[i] \in Finished
    OBVIOUS
  <2>1. CASE Begin
    BY <2>1, <1>1 DEF Begin, Late
  <2>2. CASE Collect
    BY <2>2 DEF Collect
  <2>3. CASE at \in {"validate"} \cup Late
    <3>1. stopped = "none"
      BY PhaseSteps
    <3>2. \A i \in DOMAIN branch : branch[i] \in Finished
      BY <3>1, <2>3 DEF EntryOpen
    <3>3. UNCHANGED branch
      BY <3>1, <3>2, <2>3, BranchSteps DEF Acquire, Answer, Persist, BranchFails, BranchCancelled, Kill,
         Finished, Late
    <3> QED
      BY <3>2, <3>3
  <2>4. Begin \/ Collect \/ at \in {"validate"} \cup Late
    BY PhaseSteps DEF VerifyRaises, EndValidate, Archive, IndexKb, LatePhaseFails, Late
  <2> QED
    BY <2>1, <2>2, <2>3, <2>4
<1>5. ASSUME ~flag', stopped' = "none", NEW k \in Kinds, artifact'[k] = "running"
      PROVE  \E i \in Holders' : request'[i] = k
  <2>1. Holders' = {i \in DOMAIN branch : branch'[i] \in {"calling"} \cup Answers}
    BY <1>2 DEF Holders
  <2>2. CASE UNCHANGED <<branch, artifact, request, stopped>> /\ (flag => flag')
    BY <2>2, <1>5, <2>1 DEF EntryOpen, Holders
  <2>3. CASE Validate /\ UNCHANGED <<request, branch, stopped, flag, at>>
    <3>1. artifact[k] = "running"
      BY <2>3, <1>5, <1>1, ConstantTypes DEF Validate
    <3> QED
      BY <3>1, <2>3, <1>5, <2>1 DEF EntryOpen, Holders
  <2>4. ASSUME NEW why \in {"timeout", "shutdown"}, Kill(why) PROVE FALSE
    BY <2>4, <1>5 DEF Kill
  <2>5. ASSUME NEW i \in DOMAIN branch, UNCHANGED <<request, stopped, flag>>,
               Acquire(i) \/ Answer(i) \/ Persist(i) \/ BranchFails(i) \/ BranchCancelled(i)
        PROVE  \E j \in Holders' : request'[j] = k
    <3>1. \A j \in DOMAIN branch : j # i => branch'[j] = branch[j]
      BY <2>5, <1>1 DEF Acquire, Answer, Persist, BranchFails, BranchCancelled, Settle
    <3>2. CASE Acquire(i)
      BY <3>1, <3>2, <2>1, <2>5, <1>1, <1>5 DEF Acquire, EntryOpen, Holders
    <3>3. CASE Answer(i)
      BY <3>1, <3>3, <2>1, <2>5, <1>1, <1>5 DEF Answer, EntryOpen, Holders, Answers
    <3>4. CASE Persist(i) \/ BranchFails(i)
      <4>1. artifact'[request[i]] # "running" /\ (k # request[i] => artifact'[k] = artifact[k])
        BY <3>4, <1>1 DEF Persist, BranchFails, Settle
      <4>2. k # request[i] /\ artifact[k] = "running"
        BY <4>1, <1>5
      <4> QED
        BY <4>2, <3>1, <2>1, <2>5, <1>5 DEF EntryOpen, Holders
    <3>5. CASE BranchCancelled(i)
      BY <3>5, <2>5, <1>5 DEF BranchCancelled, EntryOpen
    <3> QED
      BY <2>5, <3>2, <3>3, <3>4, <3>5
  <2> QED
    BY <2>2, <2>3, <2>4, <2>5, BranchSteps
<1> QED
  BY <1>3, <1>4, <1>5 DEF EntryOpen

LEMMA QueuedStep == TypeOK /\ Queued /\ [Next]_vars => Queued'
<1> SUFFICES ASSUME TypeOK, Queued, [Next]_vars PROVE Queued'
  OBVIOUS
<1>1. /\ branch \in [DOMAIN request -> BranchStates] /\ queue \in Seq(DOMAIN request)
      /\ DOMAIN branch = DOMAIN request /\ DOMAIN branch' = DOMAIN branch
  BY BranchType DEF TypeOK, BranchStates
<1>2. ASSUME NEW i \in DOMAIN branch, Acquire(i)
      PROVE  Queued'
  <2>1. queue # <<>> /\ i = Head(queue) /\ queue' = Tail(queue)
    BY <1>2 DEF Acquire
  <2>2. /\ DOMAIN queue' = 1 .. Len(queue) - 1 /\ DOMAIN queue = 1 .. Len(queue)
        /\ \A n \in DOMAIN queue' : n + 1 \in DOMAIN queue /\ queue'[n] = queue[n + 1] /\ n \in Nat
        /\ i = queue[1] /\ 1 \in DOMAIN queue
    BY <2>1, <1>1
  <2>3. \A n \in DOMAIN queue' : queue'[n] # i
    BY <2>2 DEF Queued
  <2>4. \A j \in DOMAIN branch : j # i => branch'[j] = branch[j]
    BY <1>1, <1>2 DEF Acquire
  <2>5. \A n \in DOMAIN queue' : queue'[n] \in DOMAIN branch' /\ branch'[queue'[n]] = "waiting"
    BY <2>2, <2>3, <2>4, <1>1 DEF Queued
  <2>6. \A m, n \in DOMAIN queue' : queue'[m] = queue'[n] => m = n
    <3> SUFFICES ASSUME NEW m \in DOMAIN queue', NEW n \in DOMAIN queue', queue'[m] = queue'[n]
                 PROVE  m = n
      OBVIOUS
    <3>1. m + 1 = n + 1
      BY <2>2 DEF Queued
    <3> QED
      BY <3>1, <2>2
  <2> QED
    BY <2>5, <2>6 DEF Queued
<1>3. ASSUME NEW i \in DOMAIN branch,
             Answer(i) \/ Persist(i) \/ BranchFails(i) \/ BranchCancelled(i)
      PROVE  Queued'
  <2>1. /\ branch[i] # "waiting" /\ UNCHANGED queue
        /\ \A j \in DOMAIN branch : j # i => branch'[j] = branch[j]
    BY <1>1, <1>3 DEF Answer, Persist, BranchFails, BranchCancelled, Settle
  <2> QED
    BY <2>1, <1>1 DEF Queued
<1>4. ASSUME NEW why \in {"timeout", "shutdown"}, Kill(why)
      PROVE  Queued'
  BY <1>4 DEF Kill, Queued
<1>5. \/ UNCHANGED <<queue, branch>>
      \/ \E i \in DOMAIN branch :
           Acquire(i) \/ Answer(i) \/ Persist(i) \/ BranchFails(i) \/ BranchCancelled(i)
      \/ \E why \in {"timeout", "shutdown"} : Kill(why)
  BY DEF Next, Loop, Begin, Collect, Validate, VerifyRaises, EndValidate, Archive, IndexKb,
     LatePhaseFails, Cancel, Purge, vars
<1>6. CASE UNCHANGED <<queue, branch>>
  BY <1>6 DEF Queued
<1> QED
  BY <1>2, <1>3, <1>4, <1>5, <1>6

LEMMA DeliveredStep ==
  ASSUME Once, TypeOK, Queued, Delivered, [Next]_vars
  PROVE  Delivered'
<1> SUFFICES ASSUME purges' = 0, NEW i \in DOMAIN branch', branch'[i] = "ok"
             PROVE  artifact'[request'[i]] = "ready" /\ request'[i] \in files'
  BY DEF Delivered
<1>1. /\ branch \in [DOMAIN request -> BranchStates] /\ artifact \in [Kinds -> EntryStates]
      /\ DOMAIN branch = DOMAIN request /\ DOMAIN branch' = DOMAIN branch /\ request' = request
      /\ queue \in Seq(DOMAIN request)
  BY BranchType DEF TypeOK, BranchStates, EntryStates
<1>2. /\ request[i] \in Kinds
      /\ \A j \in DOMAIN branch : request[j] = request[i] => j = i
  BY <1>1, Types DEF Once, TypeOK
<1>3. purges = 0 /\ files \subseteq files'
  <2>1. purges \in Nat
    BY ConstantTypes DEF TypeOK
  <2>2. purges' # purges + 1
    BY <2>1
  <2> QED
    BY <2>2 DEF Next, Loop, Begin, Acquire, Answer, Persist, BranchFails, BranchCancelled, Settle,
       Collect, Validate, VerifyRaises, EndValidate, Archive, IndexKb, LatePhaseFails, Cancel, Kill,
       Purge, Removal, vars, disk
<1>4. ASSUME NEW j \in DOMAIN branch,
             Acquire(j) \/ Answer(j) \/ Persist(j) \/ BranchFails(j) \/ BranchCancelled(j)
      PROVE  artifact'[request'[i]] = "ready" /\ request'[i] \in files'
  <2>1. CASE j = i
    <3>1. Persist(i) \/ branch[i] = "ok"
      BY <1>1, <1>4, <2>1 DEF Acquire, Answer, Persist, BranchFails, BranchCancelled, Settle, Answers
    <3>2. branch[i] # "ok"
      <4>1. CASE Acquire(i)
        <5>1. queue # <<>> /\ i = Head(queue)
          BY <4>1 DEF Acquire
        <5>2. 1 \in DOMAIN queue /\ queue[1] = i
          BY <5>1, <1>1
        <5> QED
          BY <5>2 DEF Queued
      <4>2. CASE ~Acquire(i)
        BY <4>2, <1>4, <2>1 DEF Answer, Persist, BranchFails, BranchCancelled
      <4> QED
        BY <4>1, <4>2
    <3> QED
      BY <3>1, <3>2, <1>1, <1>2 DEF Persist, Settle
  <2>2. CASE j # i
    <3>1. branch[i] = "ok"
      BY <1>1, <1>4, <2>2 DEF Acquire, Answer, Persist, BranchFails, BranchCancelled, Settle
    <3>2. request[j] # request[i]
      BY <1>2, <2>2
    <3>3. artifact'[request[i]] = artifact[request[i]]
      BY <3>2, <1>1, <1>2, <1>4 DEF Acquire, Answer, Persist, BranchFails, BranchCancelled, Settle
    <3> QED
      BY <3>1, <3>3, <1>1, <1>3 DEF Delivered
  <2> QED
    BY <2>1, <2>2
<1>5. CASE branch[i] = "ok" /\ (Validate \/ UNCHANGED artifact)
  <2>1. artifact[request[i]] = "ready" /\ request[i] \in files
    BY <1>5, <1>3, <1>1 DEF Delivered
  <2>2. artifact'[request[i]] = artifact[request[i]]
    BY <2>1, <1>1, <1>2, <1>5 DEF Validate
  <2> QED
    BY <2>1, <2>2, <1>1, <1>3
<1>6. ASSUME NEW why \in {"timeout", "shutdown"}, Kill(why)
      PROVE  branch[i] = "ok" /\ UNCHANGED artifact
  BY <1>1, <1>6 DEF Kill
<1> QED
  BY <1>4, <1>5, <1>6, BranchSteps

LEMMA SomethingDeliveredStep == TypeOK /\ SomethingDelivered /\ [Next]_vars => SomethingDelivered'
<1>4. ASSUME TypeOK, SomethingDelivered, [Next]_vars, outcome' = "completed"
      PROVE  at' = "over"
  BY <1>4 DEF SomethingDelivered, Next, Loop, Begin, Collect, Acquire, Answer, Persist, BranchFails,
     BranchCancelled, Settle, Validate, VerifyRaises, EndValidate, Archive, IndexKb, LatePhaseFails,
     Raises, Advance, Ends, Cancel, Kill, Purge, vars, result
<1> SUFFICES ASSUME TypeOK, SomethingDelivered, [Next]_vars,
                    at' \in {"validate", "archive", "kb"} \/ outcome' = "completed"
             PROVE  request' = <<>> \/ \E i \in DOMAIN branch' : branch'[i] = "ok"
  BY <1>4 DEF SomethingDelivered
<1>1. CASE Begin \/ Collect
  BY <1>1 DEF Begin, Collect, Raises, Advance, Ends, SomethingDelivered, result
<1>2. CASE at \in {"validate", "archive", "kb"} \/ outcome = "completed"
  <2>1. PICK i : request = <<>> \/ (i \in DOMAIN branch /\ branch[i] = "ok")
    BY <1>2 DEF SomethingDelivered
  <2>2. branch \in [DOMAIN request -> BranchStates] /\ DOMAIN branch' = DOMAIN branch
        /\ request' = request
    BY BranchType DEF TypeOK, BranchStates
  <2>3. CASE at # "generate"
    BY <2>1, <2>2, <2>3, BranchSteps DEF Acquire, Answer, Persist, BranchFails, BranchCancelled, Kill,
       Finished
  <2>4. at # "generate"
    BY <1>2 DEF SomethingDelivered
  <2> QED
    BY <2>3, <2>4
<1>3. (Begin \/ Collect) \/ at \in {"validate", "archive", "kb"} \/ outcome = "completed"
  BY DEF Next, Loop, Acquire, Answer, Persist, BranchFails, BranchCancelled, Settle, Validate,
     VerifyRaises, EndValidate, Archive, IndexKb, LatePhaseFails, Raises, Advance, Ends, Cancel, Kill,
     Purge, vars, result
<1> QED
  BY <1>1, <1>2, <1>3

-----------------------------------------------------------------------------
(* The theorems.                                                            *)

Safe ==
  TypeOK /\ GenerationFailed /\ Archived /\ Validated /\ PhaseOpen /\ EntryOpen

LEMMA SafeInvariant == Spec => []Safe
<1>1. Init => Safe
  <2> SUFFICES ASSUME Init PROVE Safe
    OBVIOUS
  <2>1. TypeOK
    BY InitType
  <2>2. GenerationFailed /\ Archived /\ PhaseOpen
    BY DEF Init, GenerationFailed, Archived, PhaseOpen, Phases
  <2>3. Validated
    BY DEF Init, Validated, Phases
  <2>4. EntryOpen
    BY DEF Init, EntryOpen, Late
  <2> QED
    BY <2>1, <2>2, <2>3, <2>4 DEF Safe
<1>2. Safe /\ [Next]_vars => Safe'
  BY TypeStep, GenerationFailedStep, ArchivedStep, ValidatedStep, PhaseOpenStep, EntryOpenStep DEF Safe
<1> QED
  BY <1>1, <1>2, PTL DEF Spec

\* _generate fails a run only if no branch has delivered, for any branches and slots.
THEOREM FailuresStayIsolated == Spec => []FailuresIsolated
<1>1. Safe => FailuresIsolated
  BY DEF Safe, GenerationFailed, FailuresIsolated
<1> QED
  BY <1>1, SafeInvariant, PTL

\* The manifest _archive writes tells what the entries are for good.
THEOREM ManifestStays == Spec => []ManifestIsFinal
<1>1. Safe => ManifestIsFinal
  BY DEF Safe, Archived, ManifestIsFinal
<1> QED
  BY <1>1, SafeInvariant, PTL

\* A validation that is reported as done has seen every file that is ready.
THEOREM ValidationIsHonest == Spec => []ValidatedIsVerified
<1>1. Safe => ValidatedIsVerified
  <2> SUFFICES ASSUME Validated, phase["validate"] = "done", NEW k \in Kinds
               PROVE  InOrder(k)
    BY DEF Safe, ValidatedIsVerified, InOrder
  <2>1. ~problems /\ checked = Len(Deliverables)
    BY DEF Validated
  <2>2. PICK n \in 1 .. Len(Deliverables) : Deliverables[n] = k
    BY ConstantTypes
  <2> QED
    BY <2>1, <2>2 DEF Validated
<1> QED
  BY <1>1, SafeInvariant, PTL

\* execute() leaves no phase open when a phase raises or all are done, and no
\* deliverable in generation unless somebody cancelled it.
THEOREM EverythingClosed == Spec => []NothingLeftOpen
<1>1. Safe => NothingLeftOpen
  <2> SUFFICES ASSUME Safe, at = "over", stopped = "none"
               PROVE  /\ \A p \in Phases : phase[p] # "running"
                      /\ ~flag => \A k \in Kinds : artifact[k] # "running"
    BY DEF NothingLeftOpen
  <2>1. \A p \in Phases : phase[p] # "running"
    BY DEF Safe, PhaseOpen, Phases
  <2>2. Holders = {}
    BY DEF Safe, EntryOpen, Late, Holders, Finished, Answers
  <2> QED
    BY <2>1, <2>2 DEF Safe, EntryOpen
<1> QED
  BY <1>1, SafeInvariant, PTL

\* A run that is reported as completed has a deliverable, if no request lists one
\* twice.
THEOREM CompletedRunsDeliver ==
  ASSUME Once
  PROVE  Spec => []CompletedDelivers
<1> DEFINE Inv == TypeOK /\ Queued /\ Delivered /\ SomethingDelivered
<1>1. Init => Inv
  <2> SUFFICES ASSUME Init PROVE Inv
    OBVIOUS
  <2>1. TypeOK
    BY InitType
  <2>2. Queued /\ Delivered /\ SomethingDelivered
    BY DEF Init, Queued, Delivered, SomethingDelivered
  <2> QED
    BY <2>1, <2>2
<1>2. Inv /\ [Next]_vars => Inv'
  BY Once, TypeStep, QueuedStep, DeliveredStep, SomethingDeliveredStep
<1>3. Inv => CompletedDelivers
  <2> SUFFICES ASSUME Inv, outcome = "completed", request # <<>>, purges = 0
               PROVE  \E k \in Kinds : artifact[k] = "ready"
    BY DEF CompletedDelivers
  <2>1. PICK i \in DOMAIN branch : branch[i] = "ok"
    BY DEF SomethingDelivered
  <2> QED
    BY <2>1, Types DEF Delivered
<1> HIDE DEF Inv
<1> QED
  BY <1>1, <1>2, <1>3, PTL DEF Spec

-----------------------------------------------------------------------------
(* The rules of PhaseRules.                                                 *)

Run == "run"

\* The steps of Deliverables that PhaseRules sees.
LEMMA RuleSteps ==
  ASSUME TypeOK, [Next]_vars
  PROVE  \/ UNCHANGED <<at, outcome>>
         \/ /\ \/ at = "start" /\ at' \in {"generate", "validate"}
               \/ at = "generate" /\ at' = "validate"
               \/ at = "validate" /\ at' = "archive"
               \/ at = "archive" /\ at' = "kb"
            /\ UNCHANGED outcome
         \/ at = "kb" /\ at' = "over" /\ outcome' = "completed"
         \/ at \in Phases /\ at' = "over" /\ outcome' = "failed"
         \/ at \in {"generate", "kb"} /\ at' = "over" /\ outcome' = "cancelled"
<1> USE DEF result
<1>1. CASE UNCHANGED vars
  BY <1>1 DEF vars
<1>2. CASE Begin
  BY <1>2 DEF Begin
<1>3. CASE \E i \in DOMAIN branch :
             Acquire(i) \/ Answer(i) \/ Persist(i) \/ BranchFails(i) \/ BranchCancelled(i)
  BY <1>3 DEF Acquire, Answer, Persist, BranchFails, BranchCancelled, Settle
<1>4. CASE Collect \/ VerifyRaises \/ LatePhaseFails
  BY <1>4 DEF Collect, VerifyRaises, LatePhaseFails, Raises, Advance, Ends, Phases
<1>5. CASE Validate \/ Cancel \/ Purge
  BY <1>5 DEF Validate, Cancel, Purge
<1>6. CASE EndValidate \/ Archive \/ IndexKb
  BY <1>6 DEF EndValidate, Archive, IndexKb, Advance, Ends
<1>7. ASSUME NEW why \in {"timeout", "shutdown"}, Kill(why)
      PROVE  \/ at \in Phases /\ at' = "over" /\ outcome' = "failed"
             \/ at \in {"generate", "kb"} /\ at' = "over" /\ outcome' = "cancelled"
  BY <1>7 DEF Kill, Phases
<1> QED
  BY <1>1, <1>2, <1>3, <1>4, <1>5, <1>6, <1>7 DEF Next, Loop

\* The run as the rules see it, before and after a step.
LEMMA OneRun ==
  /\ RulesAt[Run] = IF at = "start" THEN "early" ELSE IF at = "over" THEN "ended" ELSE at
  /\ RulesAt'[Run] = IF at' = "start" THEN "early" ELSE IF at' = "over" THEN "ended" ELSE at'
  /\ RulesAt' = [RulesAt EXCEPT ![Run] = RulesAt'[Run]]
  /\ [r \in {Run} |-> outcome]' = [[r \in {Run} |-> outcome] EXCEPT ![Run] = outcome']
BY DEF RulesAt, Run

\* The phases come in their order, the run completes after the last of them, and its
\* outcome is decided once, whatever becomes of its deliverables: which is what
\* RunLifecycle says of a run whose phases it leaves open.
THEOREM DeliverablesKeepTheRules == Spec => PhaseSpec
<1>1. Init => Rules!Init
  BY DEF Init, Rules!Init, RulesAt
<1>2. TypeOK /\ [Next]_vars => [Rules!Next]_(Rules!rulevars)
  <2> SUFFICES ASSUME TypeOK, [Next]_vars
               PROVE  [Rules!Next]_(Rules!rulevars)
    OBVIOUS
  <2> USE DEF Run
  <2>1. CASE UNCHANGED <<at, outcome>>
    BY <2>1 DEF Rules!rulevars, RulesAt
  <2>2. CASE /\ \/ at = "start" /\ at' \in {"generate", "validate"}
                \/ at = "generate" /\ at' = "validate"
                \/ at = "validate" /\ at' = "archive"
                \/ at = "archive" /\ at' = "kb"
             /\ UNCHANGED outcome
    <3>1. RulesAt[Run] \in DOMAIN Rules!Following /\ RulesAt'[Run] \in Rules!Following[RulesAt[Run]]
      BY <2>2, OneRun DEF Rules!Following
    <3>2. Rules!Proceed(Run)
      BY <2>2, <3>1, OneRun DEF Rules!Proceed
    <3> QED
      BY <3>2 DEF Rules!Next
  <2>3. CASE at = "kb" /\ at' = "over" /\ outcome' = "completed"
    <3>1. Rules!Complete(Run)
      BY <2>3, OneRun DEF Rules!Complete, Rules!End
    <3> QED
      BY <3>1 DEF Rules!Next
  <2>4. CASE at \in Phases /\ at' = "over" /\ outcome' = "failed"
    <3>1. Rules!Fail(Run)
      BY <2>4, OneRun DEF Rules!Fail, Rules!End, Phases
    <3> QED
      BY <3>1 DEF Rules!Next
  <2>5. CASE at \in {"generate", "kb"} /\ at' = "over" /\ outcome' = "cancelled"
    <3>1. Rules!Cancel(Run)
      BY <2>5, OneRun DEF Rules!Cancel, Rules!End, Rules!Interruptible
    <3> QED
      BY <3>1 DEF Rules!Next
  <2> QED
    BY <2>1, <2>2, <2>3, <2>4, <2>5, RuleSteps
<1>3. TypeOK /\ [Next]_vars => TypeOK'
  BY TypeStep
<1> QED
  BY <1>1, <1>2, <1>3, InitType, PTL
  DEF Spec, PhaseSpec, Rules!Spec, Rules!rulevars
=============================================================================
