------------------------- MODULE RunLifecycleProofs -------------------------
(***************************************************************************)
(* Theorems about RunLifecycle for any set of runs and any number of       *)
(* crashes and shutdowns.                                                  *)
(***************************************************************************)
EXTENDS RunLifecycle, TLAPS

Working == {"scheduled"} \cup Awaiting \cup {"validate", "archive"}

Asked(r) == accepted[r] # "no" \/ r \in interrupted

(* The inductive invariant, one run at a time.                              *)

\* A run nobody has created has left no trace.
Fresh(r) ==
  status[r] = "none" =>
    /\ row[r] = "absent" /\ pc[r] = "none" /\ journal[r] = <<>>
    /\ canceller[r] = "idle" /\ accepted[r] # "early"

\* What the service has stopped being cannot be executing.
Alive(r) ==
  /\ server = "down" => pc[r] = "none"
  /\ server = "stopping" /\ pc[r] # "none" => r \in interrupted

\* The row changes at creation and at the end only.
RowLags(r) ==
  /\ row[r] \in {"absent", "queued"} \cup Terminal
  /\ pc[r] # "none" => row[r] \in {"absent", "queued"}

\* The flag is registered exactly while the task is there to read it.
FlagHeld(r) ==
  /\ pc[r] \in Working \cup {"unwind", "classify", "done", "clear"} => flag[r] # "absent"
  /\ server # "stopping" /\ pc[r] \in {"none", "persisted", "save"} => flag[r] = "absent"
  /\ flag[r] = "set" => Asked(r)

\* How far the coroutine has come fixes what status can be.
StatusFollows(r) ==
  /\ pc[r] \in Working \cup {"persisted", "unwind"} => status[r] \notin Terminal
  /\ pc[r] \in {"done", "clear", "save"} => status[r] \in Terminal
  /\ pc[r] = "unwind" => exc[r] # "none"
  /\ pc[r] = "classify" /\ exc[r] = "none" => status[r] = "completed"
  /\ exc[r] = "cancelled" => Asked(r)
  /\ status[r] = "cancelled" /\ pc[r] \notin {"classify", "none"} => Asked(r)

\* An early cancellation is seen by the analysis agent's stream.
EarlySeen(r) ==
  accepted[r] = "early" =>
    /\ status[r] # "completed"
    /\ pc[r] \notin {"persisted", "parse", "generate", "validate", "archive", "kb"}
    /\ pc[r] \in Early => flag[r] = "set"
    /\ pc[r] = "classify" => exc[r] # "none"

\* A final event in the journal is the last word of the coroutine.
DoneIsLast(r) ==
  \A i \in DOMAIN journal[r] : journal[r][i] \in Terminal =>
    /\ journal[r][i] = status[r]
    /\ pc[r] \in {"none", "clear", "save"}
    /\ pc[r] = "none" =>
         \/ row[r] \in {status[r], "absent"}
         \/ crashes > 0 /\ row[r] \in {"queued", "failed"}

DoneOnce(r) ==
  \A i, j \in DOMAIN journal[r] :
    journal[r][i] \in Terminal /\ journal[r][j] \in Terminal => i = j

\* Wherever a cancelled run shows, somebody asked for it.
ShownCancelled(r) ==
  /\ row[r] = "cancelled" => Asked(r)
  /\ \A i \in DOMAIN journal[r] : journal[r][i] = "cancelled" => Asked(r)

Control(r) ==
  /\ Fresh(r) /\ Alive(r) /\ RowLags(r) /\ FlagHeld(r) /\ StatusFollows(r) /\ EarlySeen(r)

Published(r) == DoneIsLast(r) /\ DoneOnce(r) /\ ShownCancelled(r)

RunInv(r) == Control(r) /\ Published(r)

-----------------------------------------------------------------------------
(* Types.                                                                   *)

Exceptions == {"none", "cancelled", "timeout", "error"}

\* An update with a value of the codomain stays in the function set.
LEMMA Updated ==
  ASSUME NEW S, NEW T, NEW f \in [S -> T], NEW x, NEW v \in T
  PROVE  [f EXCEPT ![x] = v] \in [S -> T]
OBVIOUS

\* A sequence with one more element is a sequence: the old ones, then the new.
LEMMA Appended ==
  ASSUME NEW S, NEW s \in Seq(S), NEW e \in S
  PROVE  /\ Append(s, e) \in Seq(S)
         /\ \A i \in DOMAIN Append(s, e) :
              \/ i \in DOMAIN s /\ Append(s, e)[i] = s[i]
              \/ i = Len(s) + 1 /\ Append(s, e)[i] = e
OBVIOUS

\* The coroutine moving on changes its own position, status and exception only.
LEMMA TaskType ==
  ASSUME TypeOK, NEW r \in Runs, NEW at \in Positions, Goto(r, at),
         status' \in [Runs -> RunStatus \cup {"none"}],
         exc' \in [Runs -> Exceptions],
         UNCHANGED <<service, history, row, flag, journal, canceller, purging>>
  PROVE  TypeOK'
<1>1. pc' \in [Runs -> Positions]
  BY Updated DEF TypeOK, Goto
<1> QED
  BY <1>1 DEF TypeOK, Exceptions, service, history

\* A status set by the coroutine.
LEMMA StatusType ==
  ASSUME TypeOK, NEW r, NEW s \in RunStatus \cup {"none"}, SetStatus(r, s)
  PROVE  status' \in [Runs -> RunStatus \cup {"none"}]
BY Updated DEF TypeOK, SetStatus

\* The types of a task's status and exception, by name.
LEMMA ExcType ==
  ASSUME TypeOK
  PROVE  exc \in [Runs -> Exceptions] /\ status \in [Runs -> RunStatus \cup {"none"}]
BY DEF TypeOK, Exceptions

\* What a phase, a cancellation or a timeout does to a run keeps the types.
LEMMA PhaseType ==
  ASSUME TypeOK, NEW r \in Runs, Phase(r) \/ TimeOut(r) \/ TaskCancelled(r)
  PROVE  TypeOK'
<1>1. /\ {"fetch", "analyze", "parse", "generate", "kb", "validate", "archive", "unwind",
          "classify"} \subseteq Positions
      /\ {"fetching", "analyzing", "generating", "validating", "archiving", "indexing_kb",
          "completed"} \subseteq RunStatus
  BY DEF Positions, Awaiting, Holding, Ending, RunStatus, Terminal
<1>2. ASSUME NEW from, NEW to \in Positions, NEW s \in RunStatus \cup {"none"},
             Enter(r, from, to, s)
      PROVE  TypeOK'
  BY <1>2, TaskType, StatusType, ExcType DEF Enter
<1>3. ASSUME NEW e \in Exceptions, Throw(r, e), UNCHANGED history
      PROVE  TypeOK'
  <2>1. exc' \in [Runs -> Exceptions]
    BY <1>3, Updated, ExcType DEF Throw
  <2> QED
    BY <2>1, <1>1, <1>3, TaskType, ExcType DEF Throw
<1>4. CASE BeginFetch(r) \/ BeginAnalyze(r) \/ BeginGenerate(r) \/ BeginValidate(r) \/ Complete(r)
  BY <1>4, <1>1, <1>2 DEF BeginFetch, BeginAnalyze, BeginGenerate, BeginValidate, Complete
<1>5. CASE StreamOver(r)
  BY <1>5, <1>1, <1>2, ExcType DEF StreamOver
<1>6. CASE BeginArchive(r) \/ BeginIndex(r)
  BY <1>6, <1>1, TaskType, StatusType, ExcType DEF BeginArchive, BeginIndex
<1>7. CASE PhaseFails(r) \/ CancelSeen(r) \/ TimeOut(r) \/ TaskCancelled(r)
  BY <1>7, <1>3 DEF PhaseFails, CancelSeen, TimeOut, TaskCancelled, Exceptions
<1> QED
  BY <1>4, <1>5, <1>6, <1>7 DEF Phase

\* What ends a run keeps the types: by then its status is a terminal one.
LEMMA FinaliseType ==
  ASSUME TypeOK, NEW r \in Runs, Finalise(r), StatusFollows(r)
  PROVE  TypeOK'
<1>1. {"none", "classify", "done", "clear", "save"} \subseteq Positions
      /\ Terminal \subseteq RunStatus
  BY DEF Positions, Awaiting, Holding, Ending, RunStatus
<1>2. CASE Unwind(r)
  BY <1>2, <1>1, TaskType, StatusType, ExcType DEF Unwind, Terminal
<1>3. CASE Classify(r)
  <2>1. exc[r] \in Exceptions /\ status[r] \in RunStatus \cup {"none"}
    BY ExcType
  <2> DEFINE s == CASE exc[r] \in {"timeout", "error"} -> "failed"
                    [] exc[r] = "cancelled" -> "cancelled"
                    [] exc[r] = "none" -> status[r]
  <2>2. s \in RunStatus \cup {"none"}
    BY <1>1, <2>1 DEF Exceptions, Terminal
  <2> QED
    BY <2>2, <1>1, <1>3, TaskType, StatusType, ExcType DEF Classify
<1>4. CASE EmitDone(r)
  <2>1. status[r] \in JournalEvents /\ journal \in [Runs -> Seq(JournalEvents)]
    BY <1>4 DEF EmitDone, Resumed, JournalEvents, StatusFollows, TypeOK
  <2>2. journal' \in [Runs -> Seq(JournalEvents)]
    <3>1. Append(journal[r], status[r]) \in Seq(JournalEvents)
      BY <2>1
    <3> QED
      BY <2>1, <3>1, <1>4, Updated DEF EmitDone
  <2>3. pc' \in [Runs -> Positions]
    BY <1>1, <1>4, Updated DEF TypeOK, EmitDone, Goto
  <2> QED
    BY <2>2, <2>3, <1>4 DEF TypeOK, EmitDone, service, history
<1>5. CASE ClearFlag(r)
  <2>1. pc' \in [Runs -> Positions] /\ flag' \in [Runs -> {"absent", "clear", "set"}]
    BY <1>1, <1>5, Updated DEF TypeOK, ClearFlag, Goto
  <2> QED
    BY <2>1, <1>5 DEF TypeOK, ClearFlag, service, history
<1>6. CASE Save(r)
  <2>1. status[r] \in RunStatus \cup {"absent"} /\ "none" \in Exceptions
    BY <1>6, <1>1 DEF StatusFollows, Save, Resumed, Exceptions
  <2>2. /\ pc' \in [Runs -> Positions]
        /\ row' \in [Runs -> RunStatus \cup {"absent"}]
        /\ exc' \in [Runs -> Exceptions]
    BY <1>1, <1>6, <2>1, Updated, ExcType DEF TypeOK, Save, Goto
  <2> QED
    BY <2>2, <1>6 DEF TypeOK, Save, Exceptions, service, history
<1> QED
  BY <1>2, <1>3, <1>4, <1>5, <1>6 DEF Finalise

\* Creation and the requests of pool threads keep the types.
LEMMA RequestType ==
  ASSUME TypeOK, NEW r \in Runs, Create(r) \/ Start(r) \/ Request(r)
  PROVE  TypeOK'
<1>1. {"persisted", "scheduled"} \subseteq Positions /\ "queued" \in RunStatus
  BY DEF Positions, Awaiting, Holding, Ending, RunStatus
<1>2. CASE Create(r)
  <2>1. /\ row' \in [Runs -> RunStatus \cup {"absent"}]
        /\ status' \in [Runs -> RunStatus \cup {"none"}]
        /\ pc' \in [Runs -> Positions]
    BY <1>1, <1>2, Updated DEF TypeOK, Create, Goto, SetStatus
  <2> QED
    BY <2>1, <1>2 DEF TypeOK, Create, service, history
<1>3. CASE Start(r)
  <2>1. flag' \in [Runs -> {"absent", "clear", "set"}] /\ pc' \in [Runs -> Positions]
    BY <1>1, <1>3, Updated DEF TypeOK, Start, Goto
  <2> QED
    BY <2>1, <1>3 DEF TypeOK, Start, service, history
<1>4. CASE CancelLookup(r)
  <2>1. canceller' \in [Runs -> {"idle", "found", "log", "served"}]
    BY <1>4, Updated DEF TypeOK, CancelLookup
  <2> QED
    BY <2>1, <1>4 DEF TypeOK, CancelLookup, service, task, history
<1>5. CASE CancelSet(r)
  <2>1. canceller' \in [Runs -> {"idle", "found", "log", "served"}]
    BY <1>5, Updated DEF TypeOK, CancelSet
  <2>2. flag' \in [Runs -> {"absent", "clear", "set"}]
    BY <1>5 DEF TypeOK, CancelSet
  <2>3. accepted' \in [Runs -> {"no", "early", "late"}]
    <3>1. (IF pc[r] \in Early THEN "early" ELSE "late") \in {"no", "early", "late"}
      OBVIOUS
    <3> QED
      BY <1>5, <3>1, Updated DEF TypeOK, CancelSet
  <2>4. UNCHANGED <<server, crashes, stops, status, pc, exc, interrupted, row, journal, purging>>
    BY <1>5 DEF CancelSet, service, task
  <2> QED
    BY <2>1, <2>2, <2>3, <2>4 DEF TypeOK
<1>6. CASE CancelLog(r)
  <2>1. journal \in [Runs -> Seq(JournalEvents)] /\ "cancel requested" \in JournalEvents
    BY DEF TypeOK, JournalEvents
  <2>2. Append(journal[r], "cancel requested") \in Seq(JournalEvents)
    BY <2>1, Appended
  <2>3. journal' \in [Runs -> Seq(JournalEvents)]
    BY <1>6, <2>1, <2>2, Updated DEF CancelLog
  <2>4. canceller' \in [Runs -> {"idle", "found", "log", "served"}]
    BY <1>6, Updated DEF TypeOK, CancelLog
  <2> QED
    BY <2>3, <2>4, <1>6 DEF TypeOK, CancelLog, service, task, history
<1>7. CASE Delete(r)
  <2>1. row' \in [Runs -> RunStatus \cup {"absent"}] /\ purging' \in SUBSET Runs
    BY <1>7, Updated DEF TypeOK, Delete
  <2> QED
    BY <2>1, <1>7 DEF TypeOK, Delete, service, task, history
<1>8. CASE Purge(r)
  <2>1. <<>> \in Seq(JournalEvents)
    OBVIOUS
  <2>2. journal' \in [Runs -> Seq(JournalEvents)] /\ purging' \in SUBSET Runs
    BY <1>8, <2>1, Updated DEF TypeOK, Purge
  <2> QED
    BY <2>2, <1>8 DEF TypeOK, Purge, service, task, history
<1> QED
  BY <1>2, <1>3, <1>4, <1>5, <1>6, <1>7, <1>8 DEF Request

\* Starting, stopping and crashing keep the types.
LEMMA ServiceType ==
  ASSUME TypeOK, Shutdown \/ Stop \/ Crash \/ Restart
  PROVE  TypeOK'
<1>1. {"none", "scheduled"} \subseteq Positions /\ "failed" \in RunStatus
  BY DEF Positions, RunStatus, Terminal
<1>2. CASE Shutdown
  <2>1. pc' \in [Runs -> Positions] /\ flag' \in [Runs -> {"absent", "clear", "set"}]
    BY <1>1, <1>2 DEF TypeOK, Shutdown
  <2>2. interrupted' \in SUBSET Runs /\ stops' \in Nat /\ server' \in {"up", "stopping", "down"}
    BY <1>2 DEF TypeOK, Shutdown
  <2> QED
    BY <2>1, <2>2, <1>2 DEF TypeOK, Shutdown
<1>3. CASE Stop \/ Crash
  <2>1. Die
    BY <1>3 DEF Stop, Crash
  <2>2. pc' \in [Runs -> Positions]
    BY <1>1, <2>1 DEF Die
  <2>3. /\ exc' \in [Runs -> {"none", "cancelled", "timeout", "error"}]
        /\ flag' \in [Runs -> {"absent", "clear", "set"}]
        /\ canceller' \in [Runs -> {"idle", "found", "log", "served"}]
    BY <2>1 DEF Die
  <2>4. crashes' \in Nat /\ stops' \in Nat
    BY <1>3 DEF TypeOK, Stop, Crash
  <2> QED
    BY <2>1, <2>2, <2>3, <2>4 DEF TypeOK, Die, history
<1>4. CASE Restart
  <2>1. row' \in [Runs -> RunStatus \cup {"absent"}]
    BY <1>1, <1>4 DEF TypeOK, Restart
  <2> QED
    BY <2>1, <1>4 DEF TypeOK, Restart, service, task, history
<1> QED
  BY <1>2, <1>3, <1>4

-----------------------------------------------------------------------------
(* The invariant.                                                           *)

IndInv == TypeOK /\ \A r \in Runs : RunInv(r)

\* The invariant of a run speaks of that run and of the service only.
LEMMA Frame ==
  ASSUME NEW r \in Runs, RunInv(r),
         UNCHANGED <<server, crashes, interrupted>>,
         UNCHANGED <<row[r], status[r], pc[r], exc[r], flag[r], journal[r], canceller[r],
                     accepted[r]>>
  PROVE  RunInv(r)'
<1> USE DEF RunInv
<1>1. Control(r)'
  BY DEF Control, Fresh, Alive, RowLags, FlagHeld, StatusFollows, EarlySeen, Asked
<1>2. Published(r)'
  BY DEF Published, DoneIsLast, DoneOnce, ShownCancelled, Asked
<1> QED
  BY <1>1, <1>2

\* A run whose journal and row are left alone has published nothing new.
LEMMA QuietPublished ==
  ASSUME NEW r \in Runs, Published(r),
         UNCHANGED <<crashes, interrupted, row[r], journal[r], accepted[r]>>,
         \/ pc[r] \notin {"none", "clear", "save"}
         \/ UNCHANGED status[r] /\ pc[r] = "clear" /\ pc'[r] = "save"
  PROVE  Published(r)'
BY DEF Published, DoneIsLast, DoneOnce, ShownCancelled, Asked

\* A phase that goes on, fails, is cancelled or times out keeps its run's invariant.
LEMMA PhaseInv ==
  ASSUME TypeOK, NEW r \in Runs, RunInv(r), Phase(r) \/ TimeOut(r) \/ TaskCancelled(r)
  PROVE  RunInv(r)'
<1> USE DEF RunInv, Terminal, Early
<1>1. /\ pc[r] \in Working /\ pc'[r] \notin {"none", "persisted", "done", "clear", "save"}
      /\ UNCHANGED <<server, crashes, interrupted, canceller, row, flag, journal, accepted>>
  <2>1. CASE Phase(r)
    BY <2>1 DEF Phase, BeginFetch, BeginAnalyze, StreamOver, BeginGenerate, BeginValidate,
                BeginArchive, BeginIndex, Complete, Enter, PhaseFails, CancelSeen, Throw, Goto,
                Resumed, TypeOK, Working, Awaiting, service, history
  <2>2. CASE TimeOut(r) \/ TaskCancelled(r)
    BY <2>2 DEF TimeOut, TaskCancelled, Throw, Goto, Resumed, TypeOK, Working, Awaiting, service,
                history
  <2> QED
    BY <2>1, <2>2
<1>2. Published(r)'
  BY <1>1, QuietPublished DEF Working, Awaiting
<1>3. CASE BeginFetch(r) \/ BeginAnalyze(r) \/ BeginGenerate(r) \/ BeginValidate(r)
           \/ BeginArchive(r) \/ BeginIndex(r)
  <2>1. /\ status'[r] \in {"fetching", "analyzing", "generating", "validating", "archiving",
                           "indexing_kb"}
        /\ \/ pc[r] = "scheduled" /\ pc'[r] = "fetch"
           \/ pc[r] = "fetch" /\ pc'[r] = "analyze"
           \/ pc[r] = "parse" /\ pc'[r] = "generate"
           \/ pc[r] = "generate" /\ pc'[r] = "validate"
           \/ pc[r] = "validate" /\ pc'[r] = "archive"
           \/ pc[r] = "archive" /\ pc'[r] = "kb"
        /\ UNCHANGED exc
    BY <1>3 DEF BeginFetch, BeginAnalyze, BeginGenerate, BeginValidate, BeginArchive, BeginIndex,
                Enter, Goto, SetStatus, Resumed, TypeOK
  <2>2. Fresh(r)' /\ Alive(r)' /\ RowLags(r)'
    BY <1>1, <2>1 DEF Control, Fresh, Alive, RowLags
  <2>3. FlagHeld(r)' /\ StatusFollows(r)'
    BY <1>1, <2>1 DEF Control, FlagHeld, StatusFollows, Asked, Working, Awaiting
  <2>4. EarlySeen(r)'
    BY <1>1, <2>1 DEF Control, EarlySeen
  <2> QED
    BY <1>2, <2>2, <2>3, <2>4 DEF Control
<1>4. CASE StreamOver(r)
  <2>1. /\ UNCHANGED <<status[r], exc>>
        /\ pc[r] = "analyze" /\ pc'[r] = "parse"
        /\ flag[r] # "set"
    BY <1>4 DEF StreamOver, Enter, Goto, SetStatus, Resumed, TypeOK
  <2>2. Fresh(r)' /\ Alive(r)' /\ RowLags(r)'
    BY <1>1, <2>1 DEF Control, Fresh, Alive, RowLags
  <2>3. FlagHeld(r)' /\ StatusFollows(r)'
    BY <1>1, <2>1 DEF Control, FlagHeld, StatusFollows, Asked, Working, Awaiting
  <2>4. EarlySeen(r)'
    BY <1>1, <2>1 DEF Control, EarlySeen
  <2> QED
    BY <1>2, <2>2, <2>3, <2>4 DEF Control
<1>5. CASE Complete(r)
  <2>1. /\ UNCHANGED exc
        /\ status'[r] = "completed"
        /\ pc[r] = "kb" /\ pc'[r] = "classify"
    BY <1>5 DEF Complete, Enter, Goto, SetStatus, Resumed, TypeOK
  <2>2. Fresh(r)' /\ Alive(r)' /\ RowLags(r)'
    BY <1>1, <2>1 DEF Control, Fresh, Alive, RowLags
  <2>3. FlagHeld(r)' /\ StatusFollows(r)'
    BY <1>1, <2>1 DEF Control, FlagHeld, StatusFollows, Asked, Working, Awaiting
  <2>4. EarlySeen(r)'
    BY <1>1, <2>1 DEF Control, EarlySeen
  <2> QED
    BY <1>2, <2>2, <2>3, <2>4 DEF Control
<1>6. CASE PhaseFails(r) \/ CancelSeen(r) \/ TimeOut(r) \/ TaskCancelled(r)
  <2>1. /\ UNCHANGED status
        /\ pc'[r] = "unwind"
        /\ exc'[r] \in {"error", "timeout", "cancelled"}
        /\ exc'[r] = "cancelled" => flag[r] = "set" \/ server = "stopping"
    BY <1>6 DEF PhaseFails, CancelSeen, TimeOut, TaskCancelled, Throw, Goto, TypeOK
  <2>2. Fresh(r)' /\ Alive(r)' /\ RowLags(r)'
    BY <1>1, <2>1 DEF Control, Fresh, Alive, RowLags, Working, Awaiting
  <2>3. exc'[r] = "cancelled" => Asked(r)
    BY <1>1, <2>1 DEF Control, FlagHeld, Alive, Asked, Working, Awaiting
  <2>4. FlagHeld(r)' /\ StatusFollows(r)'
    BY <1>1, <2>1, <2>3 DEF Control, FlagHeld, StatusFollows, Asked, Working, Awaiting
  <2>5. EarlySeen(r)'
    BY <1>1, <2>1 DEF Control, EarlySeen
  <2> QED
    BY <1>2, <2>2, <2>4, <2>5 DEF Control
<1> QED
  BY <1>3, <1>4, <1>5, <1>6 DEF Phase

\* Creating and starting a run establishes its invariant.
LEMMA CreationInv ==
  ASSUME TypeOK, NEW r \in Runs, RunInv(r), Create(r) \/ Start(r)
  PROVE  RunInv(r)'
<1> USE DEF RunInv, Terminal, Early
<1>1. CASE Create(r)
  <2>1. /\ server = "up" /\ status[r] = "none"
        /\ row'[r] = "queued" /\ status'[r] = "queued" /\ pc'[r] = "persisted"
        /\ UNCHANGED <<server, crashes, interrupted, canceller, exc, flag, journal, accepted>>
    BY <1>1 DEF Create, Goto, SetStatus, TypeOK, service, history
  <2>2. pc[r] = "none" /\ row[r] = "absent" /\ journal[r] = <<>> /\ accepted[r] # "early"
    BY <2>1 DEF Control, Fresh
  <2>3. Fresh(r)' /\ Alive(r)' /\ RowLags(r)' /\ EarlySeen(r)'
    BY <2>1, <2>2 DEF Fresh, Alive, RowLags, EarlySeen
  <2>4. FlagHeld(r)' /\ StatusFollows(r)'
    BY <2>1, <2>2 DEF Control, FlagHeld, StatusFollows, Asked, Working, Awaiting
  <2>5. Published(r)'
    BY <2>1, <2>2 DEF Published, DoneIsLast, DoneOnce, ShownCancelled, Asked
  <2> QED
    BY <2>3, <2>4, <2>5 DEF Control
<1>2. CASE Start(r)
  <2>1. /\ pc[r] = "persisted" /\ pc'[r] = "scheduled" /\ flag'[r] = "clear"
        /\ UNCHANGED <<server, crashes, interrupted, canceller, exc, row, status, journal, accepted>>
    BY <1>2 DEF Start, Resumed, Goto, TypeOK, service, history
  <2>2. Fresh(r)' /\ Alive(r)' /\ RowLags(r)' /\ EarlySeen(r)'
    BY <2>1 DEF Control, Fresh, Alive, RowLags, EarlySeen
  <2>3. FlagHeld(r)' /\ StatusFollows(r)'
    BY <2>1 DEF Control, FlagHeld, StatusFollows, Asked, Working, Awaiting
  <2>4. Published(r)'
    BY <2>1, QuietPublished
  <2> QED
    BY <2>2, <2>3, <2>4 DEF Control
<1> QED
  BY <1>1, <1>2

\* The except clauses and the finally block keep the invariant of their run.
LEMMA FinaliseInv ==
  ASSUME TypeOK, NEW r \in Runs, RunInv(r), Finalise(r)
  PROVE  RunInv(r)'
<1> USE DEF RunInv, Terminal, Early
<1>1. CASE Unwind(r)
  <2>1. /\ pc[r] = "unwind" /\ pc'[r] = "classify"
        /\ status'[r] = IF exc[r] = "error" THEN "failed" ELSE "cancelled"
        /\ UNCHANGED <<server, crashes, interrupted, canceller, exc, row, flag, journal, accepted>>
    BY <1>1 DEF Unwind, Resumed, Goto, SetStatus, TypeOK, service, history
  <2>2. Fresh(r)' /\ Alive(r)' /\ RowLags(r)' /\ EarlySeen(r)'
    BY <2>1 DEF Control, Fresh, Alive, RowLags, EarlySeen, StatusFollows
  <2>3. FlagHeld(r)' /\ StatusFollows(r)'
    BY <2>1 DEF Control, FlagHeld, StatusFollows, Asked, Working, Awaiting
  <2>4. Published(r)'
    BY <2>1, QuietPublished
  <2> QED
    BY <2>2, <2>3, <2>4 DEF Control
<1>2. CASE Classify(r)
  <2>1. /\ pc[r] = "classify" /\ pc'[r] = "done"
        /\ exc[r] \in {"timeout", "error"} => status'[r] = "failed"
        /\ exc[r] = "cancelled" => status'[r] = "cancelled"
        /\ exc[r] = "none" => status'[r] = status[r]
        /\ exc[r] \in {"none", "cancelled", "timeout", "error"}
        /\ UNCHANGED <<server, crashes, interrupted, canceller, exc, row, flag, journal, accepted>>
    BY <1>2 DEF Classify, Resumed, Goto, SetStatus, TypeOK, service, history
  <2>2. /\ status'[r] \in Terminal
        /\ status'[r] = "cancelled" => Asked(r)
        /\ accepted[r] = "early" => status'[r] # "completed"
    BY <2>1 DEF Control, StatusFollows, EarlySeen
  <2>3. Fresh(r)' /\ Alive(r)' /\ RowLags(r)' /\ EarlySeen(r)'
    BY <2>1, <2>2 DEF Control, Fresh, Alive, RowLags, EarlySeen
  <2>4. FlagHeld(r)' /\ StatusFollows(r)'
    BY <2>1, <2>2 DEF Control, FlagHeld, StatusFollows, Asked, Working, Awaiting
  <2>5. Published(r)'
    BY <2>1, QuietPublished
  <2> QED
    BY <2>3, <2>4, <2>5 DEF Control
<1>3. CASE EmitDone(r)
  <2>1. /\ pc[r] = "done" /\ pc'[r] = "clear"
        /\ journal'[r] = Append(journal[r], status[r])
        /\ journal[r] \in Seq(JournalEvents)
        /\ UNCHANGED <<server, crashes, interrupted, canceller, exc, row, flag, status, accepted>>
    BY <1>3 DEF EmitDone, Resumed, Goto, TypeOK, service, history
  <2>2. Fresh(r)' /\ Alive(r)' /\ RowLags(r)' /\ EarlySeen(r)'
    BY <2>1 DEF Control, Fresh, Alive, RowLags, EarlySeen, StatusFollows
  <2>3. FlagHeld(r)' /\ StatusFollows(r)'
    BY <2>1 DEF Control, FlagHeld, StatusFollows, Asked, Working, Awaiting
  <2>4. \A i \in DOMAIN journal'[r] :
          \/ i \in DOMAIN journal[r] /\ journal'[r][i] = journal[r][i]
          \/ i = Len(journal[r]) + 1 /\ journal'[r][i] = status[r]
    BY <2>1
  <2>5. \A i \in DOMAIN journal[r] : journal[r][i] \notin Terminal
    BY <2>1 DEF Published, DoneIsLast
  <2>6. DoneIsLast(r)' /\ DoneOnce(r)'
    BY <2>1, <2>4, <2>5 DEF DoneIsLast, DoneOnce
  <2>7. status[r] = "cancelled" => Asked(r)
    BY <2>1 DEF Control, StatusFollows
  <2>8. ShownCancelled(r)'
    BY <2>1, <2>4, <2>7 DEF Published, ShownCancelled, Asked
  <2> QED
    BY <2>2, <2>3, <2>6, <2>8 DEF Control, Published
<1>4. CASE ClearFlag(r)
  <2>1. /\ pc[r] = "clear" /\ pc'[r] = "save" /\ flag'[r] = "absent"
        /\ UNCHANGED <<server, crashes, interrupted, canceller, exc, row, journal, status, accepted>>
    BY <1>4 DEF ClearFlag, Resumed, Goto, TypeOK, service, history
  <2>2. Fresh(r)' /\ Alive(r)' /\ RowLags(r)' /\ EarlySeen(r)'
    BY <2>1 DEF Control, Fresh, Alive, RowLags, EarlySeen
  <2>3. FlagHeld(r)' /\ StatusFollows(r)'
    BY <2>1 DEF Control, FlagHeld, StatusFollows, Asked, Working, Awaiting
  <2>4. Published(r)'
    BY <2>1, QuietPublished
  <2> QED
    BY <2>2, <2>3, <2>4 DEF Control
<1>5. CASE Save(r)
  <2>1. /\ pc[r] = "save" /\ pc'[r] = "none" /\ row'[r] = status[r] /\ exc'[r] = "none"
        /\ UNCHANGED <<server, crashes, interrupted, canceller, flag, journal, status, accepted>>
    BY <1>5 DEF Save, Resumed, Goto, TypeOK, service, history
  <2>2. status[r] \in Terminal /\ (status[r] = "cancelled" => Asked(r))
    BY <2>1 DEF Control, StatusFollows
  <2>3. Fresh(r)' /\ Alive(r)' /\ RowLags(r)' /\ EarlySeen(r)'
    BY <2>1, <2>2 DEF Control, Fresh, Alive, RowLags, EarlySeen
  <2>4. FlagHeld(r)' /\ StatusFollows(r)'
    BY <2>1, <2>2 DEF Control, FlagHeld, StatusFollows, Asked, Working, Awaiting
  <2>5. Published(r)'
    BY <2>1, <2>2 DEF Published, DoneIsLast, DoneOnce, ShownCancelled, Asked
  <2> QED
    BY <2>3, <2>4, <2>5 DEF Control
<1> QED
  BY <1>1, <1>2, <1>3, <1>4, <1>5 DEF Finalise

\* A cancellation, a deletion or a purge can fall anywhere in the life of a run.
LEMMA RequestInv ==
  ASSUME TypeOK, NEW r \in Runs, RunInv(r), Request(r)
  PROVE  RunInv(r)'
<1> USE DEF RunInv, Terminal, Early
<1>1. CASE CancelLookup(r)
  <2>1. /\ row[r] # "absent"
        /\ UNCHANGED <<server, crashes, interrupted, row, status, pc, exc, flag, journal, accepted>>
    BY <1>1 DEF CancelLookup, service, task, history
  <2>2. Control(r)'
    BY <2>1 DEF Control, Fresh, Alive, RowLags, FlagHeld, StatusFollows, EarlySeen, Asked
  <2>3. Published(r)'
    BY <2>1 DEF Published, DoneIsLast, DoneOnce, ShownCancelled, Asked
  <2> QED
    BY <2>2, <2>3
<1>2. CASE CancelSet(r)
  <2>1. /\ flag'[r] = IF flag[r] = "absent" THEN "absent" ELSE "set"
        /\ accepted'[r] = IF pc[r] \in Early THEN "early" ELSE "late"
        /\ canceller[r] = "found"
        /\ UNCHANGED <<server, crashes, interrupted, row, status, pc, exc, journal>>
    BY <1>2 DEF CancelSet, TypeOK, service, task
  <2>2. Fresh(r)' /\ Alive(r)' /\ RowLags(r)'
    BY <2>1 DEF Control, Fresh, Alive, RowLags
  <2>3. FlagHeld(r)' /\ StatusFollows(r)'
    BY <2>1 DEF Control, FlagHeld, StatusFollows, Asked
  <2>4. EarlySeen(r)'
    BY <2>1 DEF Control, EarlySeen, FlagHeld, StatusFollows, Working, Awaiting
  <2>5. Published(r)'
    BY <2>1 DEF Published, DoneIsLast, DoneOnce, ShownCancelled, Asked
  <2> QED
    BY <2>2, <2>3, <2>4, <2>5 DEF Control
<1>3. CASE CancelLog(r)
  <2>1. /\ journal'[r] = Append(journal[r], "cancel requested")
        /\ journal[r] \in Seq(JournalEvents)
        /\ UNCHANGED <<server, crashes, interrupted, row, status, pc, exc, flag, accepted>>
    BY <1>3 DEF CancelLog, TypeOK, service, task, history
  <2>2. Fresh(r)'
    BY <1>3, <2>1 DEF CancelLog, Control, Fresh
  <2>3. Alive(r)' /\ RowLags(r)' /\ FlagHeld(r)' /\ StatusFollows(r)' /\ EarlySeen(r)'
    BY <2>1 DEF Control, Alive, RowLags, FlagHeld, StatusFollows, EarlySeen, Asked
  <2>4. \A i \in DOMAIN journal'[r] :
          \/ i \in DOMAIN journal[r] /\ journal'[r][i] = journal[r][i]
          \/ journal'[r][i] = "cancel requested"
    <3> DEFINE e == "cancel requested"
    <3>1. e \in JournalEvents /\ journal'[r] = Append(journal[r], e)
      BY <2>1 DEF JournalEvents
    <3> HIDE DEF e
    <3>2. \A i \in DOMAIN journal'[r] :
            \/ i \in DOMAIN journal[r] /\ journal'[r][i] = journal[r][i]
            \/ journal'[r][i] = e
      <4>1. \A i \in DOMAIN Append(journal[r], e) :
              \/ i \in DOMAIN journal[r] /\ Append(journal[r], e)[i] = journal[r][i]
              \/ Append(journal[r], e)[i] = e
        BY <2>1, <3>1, Appended
      <4> QED
        BY <3>1, <4>1
    <3> QED
      BY <3>2 DEF e
  <2>5. Published(r)'
    BY <2>1, <2>4 DEF Published, DoneIsLast, DoneOnce, ShownCancelled, Asked
  <2> QED
    BY <2>2, <2>3, <2>5 DEF Control
<1>4. CASE Delete(r)
  <2>1. /\ row'[r] = "absent"
        /\ UNCHANGED <<server, crashes, interrupted, canceller, status, pc, exc, flag, journal, accepted>>
    BY <1>4 DEF Delete, TypeOK, service, task, history
  <2>2. Control(r)'
    BY <2>1 DEF Control, Fresh, Alive, RowLags, FlagHeld, StatusFollows, EarlySeen, Asked
  <2>3. Published(r)'
    BY <2>1 DEF Published, DoneIsLast, DoneOnce, ShownCancelled, Asked
  <2> QED
    BY <2>2, <2>3
<1>5. CASE Purge(r)
  <2>1. /\ journal'[r] = <<>>
        /\ UNCHANGED <<server, crashes, interrupted, canceller, status, pc, exc, flag, row, accepted>>
    BY <1>5 DEF Purge, TypeOK, service, task, history
  <2>2. Control(r)'
    BY <2>1 DEF Control, Fresh, Alive, RowLags, FlagHeld, StatusFollows, EarlySeen, Asked
  <2>3. Published(r)'
    BY <2>1 DEF Published, DoneIsLast, DoneOnce, ShownCancelled, Asked
  <2> QED
    BY <2>2, <2>3
<1> QED
  BY <1>1, <1>2, <1>3, <1>4, <1>5 DEF Request

\* Stopping and starting the service keep the invariant of every run.
LEMMA ServiceInv ==
  ASSUME TypeOK, NEW r \in Runs, RunInv(r), Shutdown \/ Stop \/ Crash \/ Restart
  PROVE  RunInv(r)'
<1> USE DEF RunInv, Terminal, Early
<1>1. CASE Shutdown
  <2>1. /\ server = "up" /\ server' = "stopping"
        /\ pc[r] # "none" => r \in interrupted'
        /\ interrupted \subseteq interrupted'
        /\ flag'[r] = IF pc[r] # "none" /\ flag[r] # "absent" THEN "set" ELSE flag[r]
        /\ pc'[r] = IF pc[r] = "scheduled" THEN "none" ELSE pc[r]
        /\ UNCHANGED <<crashes, row, status, exc, journal, canceller, accepted>>
    BY <1>1 DEF Shutdown, TypeOK
  <2>2. Fresh(r)' /\ Alive(r)' /\ RowLags(r)'
    BY <2>1 DEF Control, Fresh, Alive, RowLags
  <2>3. FlagHeld(r)'
    BY <2>1 DEF Control, FlagHeld, Asked, Working, Awaiting
  <2>4. StatusFollows(r)'
    BY <2>1 DEF Control, StatusFollows, Asked, Working, Awaiting
  <2>5. EarlySeen(r)'
    BY <2>1 DEF Control, EarlySeen
  <2>6. Published(r)'
    BY <2>1 DEF Published, DoneIsLast, DoneOnce, ShownCancelled, Asked
  <2> QED
    BY <2>2, <2>3, <2>4, <2>5, <2>6 DEF Control
<1>2. CASE Stop \/ Crash
  <2>1. /\ server # "down" /\ server' = "down"
        /\ pc'[r] = "none" /\ exc'[r] = "none" /\ flag'[r] = "absent"
        /\ canceller'[r] = IF canceller[r] = "idle" THEN "idle" ELSE "served"
        /\ UNCHANGED <<row, status, journal, accepted, interrupted>>
    BY <1>2 DEF Stop, Crash, Die, history
  <2>2. crashes' > 0 \/ (pc[r] = "none" /\ crashes' = crashes)
    <3>1. CASE Stop
      BY <3>1 DEF Stop
    <3>2. CASE Crash
      <4>1. crashes \in Nat /\ crashes' = crashes + 1
        BY <3>2 DEF Crash, TypeOK
      <4> QED
        BY <4>1
    <3> QED
      BY <1>2, <3>1, <3>2
  <2>3. crashes > 0 => crashes' > 0
    BY <1>2 DEF Stop, Crash, TypeOK
  <2>4. Fresh(r)' /\ Alive(r)' /\ RowLags(r)' /\ EarlySeen(r)'
    BY <2>1 DEF Control, Fresh, Alive, RowLags, EarlySeen
  <2>5. FlagHeld(r)' /\ StatusFollows(r)'
    BY <2>1 DEF Control, FlagHeld, StatusFollows, Asked, Working, Awaiting
  <2>6. \A i \in DOMAIN journal[r] : journal[r][i] \in Terminal =>
          \/ row[r] \in {status[r], "absent"}
          \/ crashes' > 0 /\ row[r] \in {"queued", "failed"}
    BY <2>2, <2>3 DEF Published, DoneIsLast, Control, RowLags
  <2>7. Published(r)'
    BY <2>1, <2>6 DEF Published, DoneIsLast, DoneOnce, ShownCancelled, Asked
  <2> QED
    BY <2>4, <2>5, <2>7 DEF Control
<1>3. CASE Restart
  <2>1. /\ server = "down" /\ server' = "up"
        /\ row'[r] = IF row[r] \in {"absent"} \cup Terminal THEN row[r] ELSE "failed"
        /\ UNCHANGED <<crashes, status, pc, exc, flag, journal, canceller, accepted, interrupted>>
    BY <1>3 DEF Restart, task, history
  <2>2. pc[r] = "none" /\ flag[r] = "absent"
    BY <2>1 DEF Control, Alive, FlagHeld
  <2>3. Fresh(r)' /\ Alive(r)' /\ RowLags(r)' /\ EarlySeen(r)'
    BY <2>1, <2>2 DEF Control, Fresh, Alive, RowLags, EarlySeen
  <2>4. FlagHeld(r)' /\ StatusFollows(r)'
    BY <2>1, <2>2 DEF Control, FlagHeld, StatusFollows, Asked, Working, Awaiting
  <2>5. Published(r)'
    BY <2>1, <2>2 DEF Published, DoneIsLast, DoneOnce, ShownCancelled, Asked, Control, RowLags
  <2> QED
    BY <2>3, <2>4, <2>5 DEF Control
<1> QED
  BY <1>1, <1>2, <1>3

\* What one run does leaves every other run alone.
LEMMA OthersUntouched ==
  ASSUME TypeOK, NEW q \in Runs, NEW r \in Runs, q # r,
         \/ Create(q) \/ Start(q) \/ Phase(q) \/ TimeOut(q) \/ TaskCancelled(q)
         \/ Finalise(q) \/ Request(q)
  PROVE  /\ UNCHANGED <<server, crashes, interrupted>>
         /\ UNCHANGED <<row[r], status[r], pc[r], exc[r], flag[r], journal[r], canceller[r],
                        accepted[r]>>
<1> USE DEF TypeOK, Goto, SetStatus, service, task, history
<1>1. CASE Create(q) \/ Start(q)
  BY <1>1 DEF Create, Start
<1>2. CASE Phase(q)
  BY <1>2 DEF Phase, BeginFetch, BeginAnalyze, StreamOver, BeginGenerate, BeginValidate,
              BeginArchive, BeginIndex, Complete, Enter, PhaseFails, CancelSeen, Throw
<1>3. CASE TimeOut(q) \/ TaskCancelled(q)
  BY <1>3 DEF TimeOut, TaskCancelled, Throw
<1>4. CASE Finalise(q)
  BY <1>4 DEF Finalise, Unwind, Classify, EmitDone, ClearFlag, Save
<1>5. CASE Request(q)
  <2>1. CASE CancelLookup(q)
    BY <2>1 DEF CancelLookup
  <2>2. CASE CancelSet(q)
    BY <2>2 DEF CancelSet
  <2>3. CASE CancelLog(q)
    BY <2>3 DEF CancelLog
  <2>4. CASE Delete(q) \/ Purge(q)
    BY <2>4 DEF Delete, Purge
  <2> QED
    BY <1>5, <2>1, <2>2, <2>3, <2>4 DEF Request
<1> QED
  BY <1>1, <1>2, <1>3, <1>4, <1>5

\* Every step preserves the types and the invariant of every run.
LEMMA NextInv == IndInv /\ [Next]_vars => IndInv'
<1> SUFFICES ASSUME TypeOK, \A r \in Runs : RunInv(r), [Next]_vars
             PROVE  TypeOK' /\ \A r \in Runs : RunInv(r)'
  BY DEF IndInv
<1>1. CASE UNCHANGED vars
  <2>1. TypeOK'
    BY <1>1 DEF TypeOK, vars, service, task, history
  <2> QED
    BY <2>1, <1>1, Frame DEF vars, service, task, history
<1>2. ASSUME NEW q \in Runs,
             \/ Create(q) \/ Start(q) \/ Phase(q) \/ TimeOut(q) \/ TaskCancelled(q)
             \/ Finalise(q) \/ Request(q)
      PROVE  TypeOK' /\ \A r \in Runs : RunInv(r)'
  <2>1. TypeOK'
    BY <1>2, PhaseType, FinaliseType, RequestType DEF RunInv, Control
  <2>2. RunInv(q)'
    BY <1>2, CreationInv, PhaseInv, FinaliseInv, RequestInv
  <2>3. ASSUME NEW r \in Runs, q # r PROVE RunInv(r)'
    BY <1>2, <2>3, OthersUntouched, Frame
  <2> QED
    BY <2>1, <2>2, <2>3
<1>3. CASE Shutdown \/ Stop \/ Crash \/ Restart
  BY <1>3, ServiceType, ServiceInv
<1> QED
  BY <1>1, <1>2, <1>3 DEF Next

\* The invariant holds initially.
LEMMA InitInv == Init => IndInv
<1> SUFFICES ASSUME Init PROVE IndInv
  OBVIOUS
<1>1. TypeOK
  BY LifecycleAssumption DEF Init, TypeOK, Positions, RunStatus
<1>2. ASSUME NEW r \in Runs PROVE RunInv(r)
  BY DEF Init, RunInv, Control, Published, Fresh, Alive, RowLags, FlagHeld, StatusFollows, EarlySeen,
         DoneIsLast, DoneOnce, ShownCancelled, Working, Awaiting
<1> QED
  BY <1>1, <1>2 DEF IndInv

\* The invariant always holds.
LEMMA Invariance == Spec => []IndInv
BY InitInv, NextInv, PTL DEF Spec

-----------------------------------------------------------------------------
(* Theorems.                                                                *)

\* Every variable keeps its type, for any runs, crashes and shutdowns.
THEOREM TypeCorrect == Spec => []TypeOK
BY Invariance, PTL DEF IndInv

\* No run ever publishes two final events.
THEOREM OneFinalEvent == Spec => []AtMostOneDone
<1>1. IndInv => AtMostOneDone
  BY DEF IndInv, RunInv, Published, DoneOnce, AtMostOneDone
<1> QED
  BY <1>1, Invariance, PTL

\* The final event and the row agree once the run is over, save for a crash.
THEOREM FinalEventAgreesWithRow == Spec => []DoneAgreesWithRow
<1>1. IndInv => DoneAgreesWithRow
  BY DEF IndInv, RunInv, Published, DoneIsLast, DoneAgreesWithRow
<1> QED
  BY <1>1, Invariance, PTL

\* Only a run somebody cancelled is shown as cancelled.
THEOREM CancelledIsCaused == Spec => []CancelledOnlyWhenAsked
<1>1. IndInv => CancelledOnlyWhenAsked
  BY DEF IndInv, RunInv, Published, ShownCancelled, Asked, CancelledOnlyWhenAsked
<1> QED
  BY <1>1, Invariance, PTL

\* A cancellation accepted before the analysis is over is honoured.
THEOREM EarlyCancelWins == Spec => []EarlyCancelHonoured
<1>1. IndInv => EarlyCancelHonoured
  BY DEF IndInv, RunInv, Control, EarlySeen, EarlyCancelHonoured
<1> QED
  BY <1>1, Invariance, PTL

\* A running service holds no cancel flag of a run that is over.
THEOREM NoFlagLeaks == Spec => []FlagsReleased
<1>1. IndInv => FlagsReleased
  BY DEF IndInv, RunInv, Control, FlagHeld, FlagsReleased
<1> QED
  BY <1>1, Invariance, PTL

\* No step replaces an outcome the database holds by another one.
THEOREM OutcomesAreFinal == Spec => OutcomeIsFinal
<1>1. IndInv /\ [Next]_vars =>
        [\A r \in Runs : row[r] \in Terminal => row'[r] \in {row[r], "absent"}]_vars
  <2> SUFFICES ASSUME TypeOK, \A r \in Runs : RunInv(r), Next, NEW r \in Runs, row[r] \in Terminal
               PROVE  row'[r] \in {row[r], "absent"}
    BY DEF IndInv
  <2>1. pc[r] = "none"
    BY DEF RunInv, Control, RowLags, Terminal
  <2>2. status[r] # "none"
    BY DEF RunInv, Control, Fresh, Terminal
  <2>3. ASSUME NEW q \in Runs,
               \/ Create(q) \/ Start(q) \/ Phase(q) \/ TimeOut(q) \/ TaskCancelled(q)
               \/ Finalise(q) \/ Request(q)
        PROVE  row'[r] \in {row[r], "absent"}
    <3>1. CASE q # r
      BY <2>3, <3>1, OthersUntouched
    <3>2. CASE q = r /\ (Create(r) \/ Start(r) \/ Finalise(r))
      BY <2>1, <2>2, <3>2 DEF Create, Start, Finalise, Unwind, Classify, EmitDone, ClearFlag, Save,
                              Resumed
    <3>3. CASE q = r /\ (Phase(r) \/ TimeOut(r) \/ TaskCancelled(r))
      BY <3>3 DEF Phase, BeginFetch, BeginAnalyze, StreamOver, BeginGenerate, BeginValidate,
                  BeginArchive, BeginIndex, Complete, Enter, PhaseFails, CancelSeen, Throw,
                  TimeOut, TaskCancelled
    <3>4. CASE q = r /\ Request(r)
      BY <3>4 DEF Request, CancelLookup, CancelSet, CancelLog, Delete, Purge, TypeOK
    <3> QED
      BY <2>3, <3>1, <3>2, <3>3, <3>4
  <2>4. CASE Shutdown \/ Stop \/ Crash \/ Restart
    BY <2>4 DEF Shutdown, Stop, Crash, Die, Restart
  <2> QED
    BY <2>3, <2>4 DEF Next
<1> QED
  BY <1>1, Invariance, PTL DEF Spec, OutcomeIsFinal

-----------------------------------------------------------------------------
(* The runs keep the promise of RunRecord: step by step.                    *)

RunStep(q) ==
  \/ Create(q) \/ Start(q) \/ Phase(q) \/ TimeOut(q) \/ TaskCancelled(q)
  \/ Finalise(q) \/ Request(q)

\* Two functions that agree but at one point.
LEMMA OnePoint ==
  ASSUME NEW S, NEW f, NEW g, f = [x \in S |-> f[x]], g = [x \in S |-> g[x]],
         NEW q \in S, \A x \in S : x # q => g[x] = f[x]
  PROVE  /\ g = [f EXCEPT ![q] = g[q]]
         /\ g[q] = f[q] => g = f
<1>1. g[q] = f[q] => \A x \in S : g[x] = f[x]
  OBVIOUS
<1>2. g[q] = f[q] => [x \in S |-> g[x]] = [x \in S |-> f[x]]
  BY <1>1
<1>3. [f EXCEPT ![q] = g[q]] = [x \in S |-> IF x = q THEN g[q] ELSE f[x]]
  OBVIOUS
<1>4. [x \in S |-> IF x = q THEN g[q] ELSE f[x]] = [x \in S |-> g[x]]
  OBVIOUS
<1> QED
  BY <1>2, <1>3, <1>4

\* What a sequence holds is still there after something is appended.
LEMMA StillThere ==
  ASSUME NEW S, NEW s \in Seq(S), NEW e \in S
  PROVE  /\ Append(s, e) \in Seq(S)
         /\ \A i \in DOMAIN s : i \in DOMAIN Append(s, e) /\ Append(s, e)[i] = s[i]
OBVIOUS

\* A request that is noted in the journal is not an outcome.
LEMMA NotAnOutcome ==
  ASSUME NEW s \in Seq(JournalEvents)
  PROVE  LET t == Append(s, "cancel requested")
         IN  {t[i] : i \in DOMAIN t} \cap Terminal = {s[i] : i \in DOMAIN s} \cap Terminal
<1> DEFINE t == Append(s, "cancel requested")
<1>1. "cancel requested" \in JournalEvents /\ "cancel requested" \notin Terminal
  BY DEF JournalEvents, Terminal
<1>2. \A i \in DOMAIN t :
        \/ i \in DOMAIN s /\ t[i] = s[i]
        \/ i = Len(s) + 1 /\ t[i] = "cancel requested"
  BY <1>1, Appended
<1>3. \A i \in DOMAIN s : i \in DOMAIN t /\ t[i] = s[i]
  <2>1. \A e \in JournalEvents : \A i \in DOMAIN s : i \in DOMAIN Append(s, e) /\ Append(s, e)[i] = s[i]
    BY StillThere
  <2> QED
    BY <1>1, <2>1
<1> HIDE DEF t
<1>4. \A e \in Terminal : (\E i \in DOMAIN t : t[i] = e) <=> \E i \in DOMAIN s : s[i] = e
  BY <1>1, <1>2, <1>3
<1>5. {t[i] : i \in DOMAIN t} \cap Terminal = {s[i] : i \in DOMAIN s} \cap Terminal
  BY <1>4
<1> QED
  BY <1>5 DEF t

\* The record has an entry for each run.
LEMMA Entries ==
  /\ RecordStage = [r \in Runs |-> RecordStage[r]] /\ RecordStage' = [r \in Runs |-> RecordStage'[r]]
  /\ RecordVerdict = [r \in Runs |-> RecordVerdict[r]]
  /\ RecordVerdict' = [r \in Runs |-> RecordVerdict'[r]]
  /\ RecordTold = [r \in Runs |-> RecordTold[r]] /\ RecordTold' = [r \in Runs |-> RecordTold'[r]]
BY DEF RecordStage, RecordVerdict, RecordTold

\* What one run does shows in the record of that run only.
LEMMA OneRecord ==
  ASSUME TypeOK, NEW q \in Runs, RunInv(q), RunStep(q)
  PROVE  /\ RecordStage' = [RecordStage EXCEPT ![q] = RecordStage'[q]]
         /\ RecordVerdict' = [RecordVerdict EXCEPT ![q] = RecordVerdict'[q]]
         /\ RecordTold' = [RecordTold EXCEPT ![q] = RecordTold'[q]]
         /\ row' = [row EXCEPT ![q] = row'[q]]
         /\ RecordStage'[q] = RecordStage[q] => RecordStage' = RecordStage
         /\ RecordVerdict'[q] = RecordVerdict[q] => RecordVerdict' = RecordVerdict
         /\ RecordTold'[q] = RecordTold[q] => RecordTold' = RecordTold
         /\ RecordAsked' = IF accepted'[q] # "no" \/ q \in interrupted
                             THEN RecordAsked \cup {q} ELSE RecordAsked \ {q}
<1>1. interrupted' = interrupted
  BY DEF RunStep, Create, Start, Phase, BeginFetch, BeginAnalyze, StreamOver, BeginGenerate,
         BeginValidate, BeginArchive, BeginIndex, Complete, Enter, PhaseFails, CancelSeen, TimeOut,
         TaskCancelled, Finalise, Unwind, Classify, EmitDone, ClearFlag, Save, Request, CancelLookup,
         CancelSet, CancelLog, Delete, Purge, history
<1>2. ASSUME NEW r \in Runs, r # q
      PROVE  UNCHANGED <<row[r], status[r], pc[r], journal[r], accepted[r]>>
  BY <1>2, OthersUntouched DEF RunStep
<1>3. row \in [Runs -> RunStatus \cup {"absent"}] /\ row' \in [Runs -> RunStatus \cup {"absent"}]
  <2>1. TypeOK'
    BY PhaseType, FinaliseType, RequestType DEF RunStep, RunInv, Control
  <2> QED
    BY <2>1 DEF TypeOK
<1>4. ASSUME NEW r \in Runs, r # q
      PROVE  /\ RecordStage'[r] = RecordStage[r] /\ RecordVerdict'[r] = RecordVerdict[r]
             /\ RecordTold'[r] = RecordTold[r]
  BY <1>2, <1>4 DEF RecordStage, RecordVerdict, RecordTold
<1>5. /\ RecordStage' = [RecordStage EXCEPT ![q] = RecordStage'[q]]
      /\ RecordStage'[q] = RecordStage[q] => RecordStage' = RecordStage
  BY <1>4, Entries, OnePoint
<1>6. /\ RecordVerdict' = [RecordVerdict EXCEPT ![q] = RecordVerdict'[q]]
      /\ RecordVerdict'[q] = RecordVerdict[q] => RecordVerdict' = RecordVerdict
  BY <1>4, Entries, OnePoint
<1>7. /\ RecordTold' = [RecordTold EXCEPT ![q] = RecordTold'[q]]
      /\ RecordTold'[q] = RecordTold[q] => RecordTold' = RecordTold
  BY <1>4, Entries, OnePoint
<1>8. row' = [row EXCEPT ![q] = row'[q]]
  BY <1>2, <1>3
<1>9. RecordAsked' = IF accepted'[q] # "no" \/ q \in interrupted
                      THEN RecordAsked \cup {q} ELSE RecordAsked \ {q}
  BY <1>1, <1>2 DEF RecordAsked
<1> QED
  BY <1>5, <1>6, <1>7, <1>8, <1>9

\* A run whose own record stays the same leaves the whole record the same.
LEMMA QuietRun ==
  ASSUME TypeOK, NEW q \in Runs, RunInv(q), RunStep(q),
         RecordStage'[q] = RecordStage[q], RecordVerdict'[q] = RecordVerdict[q],
         RecordTold'[q] = RecordTold[q], row'[q] = row[q], accepted'[q] = accepted[q]
  PROVE  UNCHANGED Record!recordvars
<1>1. row \in [Runs -> RunStatus \cup {"absent"}]
  BY DEF TypeOK
<1>2. RecordStage' = RecordStage
  BY OneRecord
<1>3. RecordVerdict' = RecordVerdict
  BY OneRecord
<1>4. RecordTold' = RecordTold
  BY OneRecord
<1>5. row' = row
  BY <1>1, OneRecord
<1>6. RecordAsked' = RecordAsked
  <2>1. RecordAsked' = IF accepted[q] # "no" \/ q \in interrupted
                        THEN RecordAsked \cup {q} ELSE RecordAsked \ {q}
    BY OneRecord
  <2> QED
    BY <2>1 DEF RecordAsked
<1> QED
  BY <1>2, <1>3, <1>4, <1>5, <1>6 DEF Record!recordvars

\* A run is open from its creation until its final event.
LEMMA OpenRun ==
  ASSUME TypeOK, NEW q \in Runs, RunInv(q), RunStep(q),
         pc[q] \notin {"none", "clear", "save"}, pc'[q] \notin {"none", "clear", "save"},
         UNCHANGED <<row, journal, accepted>>
  PROVE  UNCHANGED Record!recordvars
BY QuietRun DEF RecordStage, RecordVerdict, RecordTold

\* Phases, failures, timeouts and cancellations of a task are not in the record.
LEMMA PhaseRecord ==
  ASSUME TypeOK, NEW q \in Runs, RunInv(q), Start(q) \/ Phase(q) \/ TimeOut(q) \/ TaskCancelled(q)
  PROVE  UNCHANGED Record!recordvars
<1> USE DEF Goto
<1>1. pc \in [Runs -> Positions] /\ RunStep(q)
  BY DEF TypeOK, RunStep
<1>2. UNCHANGED <<row, journal, accepted>>
  BY DEF Start, Phase, BeginFetch, BeginAnalyze, StreamOver, BeginGenerate, BeginValidate, BeginArchive,
         BeginIndex, Complete, Enter, PhaseFails, CancelSeen, TimeOut, TaskCancelled, Throw, history
<1>3. pc[q] \notin {"none", "clear", "save"} /\ pc'[q] \notin {"none", "clear", "save"}
  <2>1. CASE Start(q) \/ TimeOut(q) \/ TaskCancelled(q)
    BY <2>1, <1>1 DEF Start, TimeOut, TaskCancelled, Throw, Resumed, Awaiting
  <2>2. CASE Phase(q)
    BY <2>2, <1>1 DEF Phase, BeginFetch, BeginAnalyze, StreamOver, BeginGenerate, BeginValidate,
       BeginArchive, BeginIndex, Complete, Enter, PhaseFails, CancelSeen, Throw, Resumed, Awaiting
  <2> QED
    BY <2>1, <2>2
<1> QED
  BY <1>1, <1>2, <1>3, OpenRun

\* The end of a run: the outcome is told once, then recorded.
LEMMA FinaliseRecord ==
  ASSUME TypeOK, NEW q \in Runs, RunInv(q), Finalise(q)
  PROVE  [Record!Next]_(Record!recordvars)
<1> USE DEF Goto, SetStatus
<1>1. pc \in [Runs -> Positions] /\ journal \in [Runs -> Seq(JournalEvents)] /\ RunStep(q)
  BY DEF TypeOK, RunStep
<1>2. CASE Unwind(q) \/ Classify(q)
  <2>1. pc[q] \in {"unwind", "classify"} /\ pc'[q] \in {"classify", "done"}
    BY <1>1, <1>2 DEF Unwind, Classify, Resumed
  <2>2. UNCHANGED <<row, journal, accepted>>
    BY <1>2 DEF Unwind, Classify, history
  <2> QED
    BY <1>1, <2>1, <2>2, OpenRun
<1>3. CASE ClearFlag(q)
  <2>1. pc[q] = "clear" /\ pc'[q] = "save"
    BY <1>1, <1>3 DEF ClearFlag, Resumed
  <2>2. UNCHANGED <<row, journal, accepted, status>>
    BY <1>3 DEF ClearFlag, history
  <2> QED
    BY <1>1, <2>1, <2>2, QuietRun DEF RecordStage, RecordVerdict, RecordTold
<1>4. CASE EmitDone(q)
  <2>1. /\ pc[q] = "done" /\ pc'[q] = "clear"
        /\ journal'[q] = Append(journal[q], status[q])
        /\ UNCHANGED <<row, status, accepted, interrupted>>
    BY <1>1, <1>4 DEF EmitDone, Resumed, history
  <2>2. status[q] \in Terminal /\ (status[q] = "cancelled" => Asked(q))
    BY <2>1 DEF RunInv, Control, StatusFollows
  <2>3. \A i \in DOMAIN journal[q] : journal[q][i] \notin Terminal
    BY <2>1 DEF RunInv, Published, DoneIsLast
  <2>4. RecordTold'[q] = {status[q]}
    <3>1. journal[q] \in Seq(JournalEvents) /\ status[q] \in JournalEvents
      BY <1>1, <2>2 DEF JournalEvents
    <3>2. /\ \A i \in DOMAIN journal'[q] :
                \/ i \in DOMAIN journal[q] /\ journal'[q][i] = journal[q][i]
                \/ i = Len(journal[q]) + 1 /\ journal'[q][i] = status[q]
          /\ \E i \in DOMAIN journal'[q] : journal'[q][i] = status[q]
      <4>1. Len(journal[q]) + 1 \in DOMAIN Append(journal[q], status[q])
        BY <3>1
      <4>2. Append(journal[q], status[q])[Len(journal[q]) + 1] = status[q]
        BY <3>1
      <4> QED
        BY <2>1, <3>1, <4>1, <4>2, Appended
    <3> QED
      BY <3>2, <2>2, <2>3 DEF RecordTold
  <2>5. /\ RecordStage[q] = "open" /\ RecordStage'[q] = "decided" /\ RecordVerdict'[q] = status[q]
    BY <2>1 DEF RecordStage, RecordVerdict
  <2>6. /\ RecordStage' = [RecordStage EXCEPT ![q] = "decided"]
        /\ RecordVerdict' = [RecordVerdict EXCEPT ![q] = status[q]]
        /\ RecordTold' = [RecordTold EXCEPT ![q] = {status[q]}]
    BY <1>1, <2>4, <2>5, OneRecord
  <2>7. RecordAsked' = RecordAsked /\ (status[q] = "cancelled" => q \in RecordAsked)
    BY <2>1, <2>2 DEF RecordAsked, Asked
  <2>8. Record!Tell(q)
    BY <2>1, <2>2, <2>5, <2>6, <2>7 DEF Record!Tell, Record!Outcomes, Terminal
  <2> QED
    BY <2>8 DEF Record!Next
<1>5. CASE Save(q)
  <2>1. /\ pc[q] = "save" /\ pc'[q] = "none" /\ row' = [row EXCEPT ![q] = status[q]]
        /\ UNCHANGED <<journal, status, accepted, interrupted>>
    BY <1>1, <1>5 DEF Save, Resumed, history
  <2>2. status[q] # "none"
    BY <2>1 DEF RunInv, Control, StatusFollows, Terminal
  <2>3. /\ RecordStage[q] = "decided" /\ RecordVerdict[q] = status[q]
        /\ RecordStage'[q] = "closed" /\ RecordVerdict'[q] = "none"
    BY <2>1, <2>2 DEF RecordStage, RecordVerdict
  <2>4. /\ RecordStage' = [RecordStage EXCEPT ![q] = "closed"]
        /\ RecordVerdict' = [RecordVerdict EXCEPT ![q] = "none"]
    BY <1>1, <2>3, OneRecord
  <2>5. RecordTold' = RecordTold /\ RecordAsked' = RecordAsked
    BY <2>1 DEF RecordTold, RecordAsked
  <2>6. Record!Settle(q)
    BY <2>1, <2>3, <2>4, <2>5 DEF Record!Settle
  <2> QED
    BY <2>6 DEF Record!Next
<1> QED
  BY <1>2, <1>3, <1>4, <1>5 DEF Finalise

\* Requests ask, delete the row and delete the journal; a request that is only
\* noted in the journal tells no outcome.
LEMMA RequestRecord ==
  ASSUME TypeOK, NEW q \in Runs, RunInv(q), Request(q)
  PROVE  [Record!Next]_(Record!recordvars)
<1>1. /\ journal \in [Runs -> Seq(JournalEvents)] /\ accepted \in [Runs -> {"no", "early", "late"}]
      /\ RunStep(q)
  BY DEF TypeOK, RunStep
<1>2. UNCHANGED <<status, pc, interrupted>>
  BY DEF Request, CancelLookup, CancelSet, CancelLog, Delete, Purge, task, history
<1>3. RecordStage' = RecordStage /\ RecordVerdict' = RecordVerdict
  BY <1>2 DEF RecordStage, RecordVerdict
<1>4. CASE CancelLookup(q)
  BY <1>1, <1>3, <1>4, QuietRun DEF CancelLookup, history, RecordTold
<1>5. CASE CancelSet(q)
  <2>1. UNCHANGED <<row, journal>> /\ canceller[q] = "found"
    BY <1>5 DEF CancelSet
  <2>2. status[q] # "none"
    BY <2>1 DEF RunInv, Control, Fresh
  <2>3. RecordStage[q] # "new"
    BY <2>2 DEF RecordStage
  <2>4. accepted'[q] # "no"
    BY <1>1, <1>5 DEF CancelSet
  <2>5. RecordAsked' = RecordAsked \cup {q}
    BY <1>1, <2>4, OneRecord
  <2>6. RecordTold' = RecordTold
    BY <2>1 DEF RecordTold
  <2>7. Record!Ask(q)
    BY <1>3, <2>1, <2>3, <2>5, <2>6 DEF Record!Ask
  <2> QED
    BY <2>7 DEF Record!Next
<1>6. CASE CancelLog(q)
  <2>1. journal'[q] = Append(journal[q], "cancel requested") /\ UNCHANGED <<row, accepted>>
    BY <1>1, <1>6 DEF CancelLog, history
  <2>2. journal[q] \in Seq(JournalEvents) /\ "cancel requested" \in JournalEvents
    BY <1>1 DEF JournalEvents
  <2>4. RecordTold'[q] = RecordTold[q]
    BY <2>1, <2>2, NotAnOutcome DEF RecordTold
  <2> QED
    BY <1>1, <1>3, <2>1, <2>4, QuietRun
<1>7. CASE Delete(q)
  <2>1. RecordTold' = RecordTold /\ RecordAsked' = RecordAsked
    BY <1>7 DEF Delete, history, RecordTold, RecordAsked
  <2>2. Record!DeleteRow(q)
    BY <1>3, <1>7, <2>1 DEF Delete, Record!DeleteRow
  <2> QED
    BY <2>2 DEF Record!Next
<1>8. CASE Purge(q)
  <2>1. journal'[q] = <<>> /\ UNCHANGED <<row, accepted>>
    BY <1>1, <1>8 DEF Purge, history
  <2>2. RecordTold'[q] = {}
    BY <2>1 DEF RecordTold
  <2>3. RecordTold' = [RecordTold EXCEPT ![q] = {}]
    BY <1>1, <2>2, OneRecord
  <2>4. RecordAsked' = RecordAsked
    BY <1>2, <2>1 DEF RecordAsked
  <2>5. Record!DeleteJournal(q)
    BY <1>3, <2>1, <2>3, <2>4 DEF Record!DeleteJournal
  <2> QED
    BY <2>5 DEF Record!Next
<1> QED
  BY <1>4, <1>5, <1>6, <1>7, <1>8 DEF Request

\* A new run has a row before it has a task.
LEMMA CreateRecord ==
  ASSUME TypeOK, NEW q \in Runs, RunInv(q), Create(q)
  PROVE  Record!Accept(q)
<1>1. pc \in [Runs -> Positions] /\ RunStep(q)
  BY DEF TypeOK, RunStep
<1>2. /\ status[q] = "none" /\ pc'[q] = "persisted" /\ row' = [row EXCEPT ![q] = "queued"]
      /\ UNCHANGED <<journal, accepted, interrupted>>
  BY <1>1 DEF Create, Goto, history
<1>3. pc[q] = "none"
  BY <1>2 DEF RunInv, Control, Fresh
<1>4. /\ RecordStage[q] = "new" /\ RecordStage'[q] = "open"
      /\ RecordVerdict[q] = "none" /\ RecordVerdict'[q] = "none"
  BY <1>2, <1>3 DEF RecordStage, RecordVerdict
<1>5. RecordStage' = [RecordStage EXCEPT ![q] = "open"]
  BY <1>1, <1>4, OneRecord
<1>6. RecordVerdict' = RecordVerdict
  BY <1>1, <1>4, OneRecord
<1>7. RecordTold' = RecordTold /\ RecordAsked' = RecordAsked
  BY <1>2 DEF RecordTold, RecordAsked
<1> QED
  BY <1>2, <1>4, <1>5, <1>6, <1>7 DEF Record!Accept

\* A shutdown, the end of the process and its next start.
LEMMA ServiceRecord ==
  ASSUME TypeOK, \A r \in Runs : RunInv(r), Shutdown \/ Stop \/ Crash \/ Restart
  PROVE  Record!Next
<1>1. \A r \in Runs : status[r] = "none" => pc[r] = "none"
  BY DEF RunInv, Control, Fresh
<1>2. Record!InFlight = {r \in Runs : pc[r] # "none"}
  BY DEF Record!InFlight, RecordStage
<1>3. CASE Shutdown
  <2>1. \A r \in Runs : pc[r] \notin {"clear", "save"}
    BY <1>3 DEF Shutdown, LoopHeld, Holding, Ending
  <2>2. /\ pc' = [r \in Runs |-> IF pc[r] = "scheduled" THEN "none" ELSE pc[r]]
        /\ interrupted' = interrupted \cup {r \in Runs : pc[r] # "none"}
        /\ UNCHANGED <<status, row, journal, accepted>>
    BY <1>3 DEF Shutdown
  <2> DEFINE S == {r \in Runs : pc[r] = "scheduled"}
  <2>3. RecordStage' = [r \in Runs |-> IF r \in S THEN "closed" ELSE RecordStage[r]]
    BY <1>1, <2>1, <2>2 DEF RecordStage
  <2>4. S \in SUBSET {r \in Runs : RecordStage[r] = "open"}
    BY DEF RecordStage
  <2>5. RecordVerdict' = RecordVerdict /\ RecordTold' = RecordTold
    BY <2>1, <2>2 DEF RecordVerdict, RecordTold
  <2>6. RecordAsked' = RecordAsked \cup Record!InFlight
    BY <1>2, <2>2 DEF RecordAsked
  <2>7. Record!Interrupt
    <3> HIDE DEF S
    <3> QED
      BY <2>2, <2>3, <2>4, <2>5, <2>6 DEF Record!Interrupt
  <2> QED
    BY <2>7 DEF Record!Next
<1>4. CASE Stop \/ Crash
  <2>1. pc' = [r \in Runs |-> "none"] /\ UNCHANGED <<status, row, journal, accepted, interrupted>>
    BY <1>4 DEF Stop, Crash, Die, history
  <2>2. RecordStage' = [r \in Runs |-> IF r \in Record!InFlight THEN "closed" ELSE RecordStage[r]]
    BY <1>1, <1>2, <2>1 DEF RecordStage
  <2>3. RecordVerdict' = [r \in Runs |-> "none"]
    BY <2>1 DEF RecordVerdict
  <2>4. RecordTold' = RecordTold /\ RecordAsked' = RecordAsked
    BY <2>1 DEF RecordTold, RecordAsked
  <2>5. Record!Abandon
    BY <2>1, <2>2, <2>3, <2>4 DEF Record!Abandon
  <2> QED
    BY <2>5 DEF Record!Next
<1>5. CASE Restart
  <2>1. \A r \in Runs : pc[r] = "none"
    BY <1>5 DEF Restart, RunInv, Control, Alive
  <2>2. Record!InFlight = {}
    BY <1>2, <2>1
  <2>3. \A r \in Runs : row[r] \in {"absent", "queued"} \cup Terminal
    BY DEF RunInv, Control, RowLags
  <2>4. row' = [r \in Runs |-> IF row[r] = "queued" THEN "failed" ELSE row[r]]
    BY <1>5, <2>3 DEF Restart, Terminal
  <2>5. RecordStage' = RecordStage /\ RecordVerdict' = RecordVerdict
    BY <1>5 DEF Restart, task, RecordStage, RecordVerdict
  <2>6. RecordTold' = RecordTold /\ RecordAsked' = RecordAsked
    BY <1>5 DEF Restart, history, RecordTold, RecordAsked
  <2>7. Record!Recover
    BY <2>2, <2>4, <2>5, <2>6 DEF Record!Recover
  <2> QED
    BY <2>7 DEF Record!Next
<1> QED
  BY <1>3, <1>4, <1>5

\* RunService and the pipeline keep the promise of RunRecord: a run is decided once,
\* the journal tells the outcome before the row records it and the row gets the one
\* that was told, only a run somebody asked to stop is cancelled, and what a crash
\* cut short is recorded as failed.
THEOREM RunsKeepTheRecord == Spec => RecordSpec
<1>1. Init => Record!Init
  <2> SUFFICES ASSUME Init PROVE Record!Init
    OBVIOUS
  <2>1. RecordTold = [r \in Runs |-> {}]
    BY DEF Init, RecordTold
  <2> QED
    BY <2>1 DEF Init, Record!Init, RecordStage, RecordVerdict, RecordAsked
<1>2. IndInv /\ [Next]_vars => [Record!Next]_(Record!recordvars)
  <2> SUFFICES ASSUME TypeOK, \A r \in Runs : RunInv(r), [Next]_vars
               PROVE  [Record!Next]_(Record!recordvars)
    BY DEF IndInv
  <2>1. CASE UNCHANGED vars
    BY <2>1 DEF vars, task, history, Record!recordvars, RecordStage, RecordVerdict, RecordTold, RecordAsked
  <2>2. ASSUME NEW q \in Runs, RunStep(q)
        PROVE  [Record!Next]_(Record!recordvars)
    <3>1. RunInv(q)
      OBVIOUS
    <3>2. CASE Create(q)
      <4>1. Record!Accept(q)
        BY <3>1, <3>2, CreateRecord
      <4> QED
        BY <4>1 DEF Record!Next
    <3>3. CASE Start(q) \/ Phase(q) \/ TimeOut(q) \/ TaskCancelled(q)
      <4>1. UNCHANGED Record!recordvars
        BY <3>3, PhaseRecord
      <4> QED
        BY <4>1
    <3>4. CASE Finalise(q)
      BY <3>1, <3>4, FinaliseRecord
    <3>5. CASE Request(q)
      BY <3>1, <3>5, RequestRecord
    <3> QED
      BY <2>2, <3>2, <3>3, <3>4, <3>5 DEF RunStep
  <2>3. CASE Shutdown \/ Stop \/ Crash \/ Restart
    BY <2>3, ServiceRecord
  <2> QED
    BY <2>1, <2>2, <2>3 DEF Next, RunStep
<1> QED
  BY <1>1, <1>2, Invariance, PTL DEF Spec, RecordSpec, Record!Spec, Record!recordvars

-----------------------------------------------------------------------------
(* The runs keep the rules of PhaseRules: step by step.                     *)

\* Nothing has been raised while the phases go on.
NothingRaised(r) == pc[r] \notin Ending => exc[r] = "none"

\* No step leaves something raised behind.
LEMMA RaisedStep ==
  TypeOK /\ (\A r \in Runs : NothingRaised(r)) /\ [Next]_vars => \A r \in Runs : NothingRaised(r)'
<1> SUFFICES ASSUME TypeOK, \A r \in Runs : NothingRaised(r), [Next]_vars, NEW r \in Runs
             PROVE  NothingRaised(r)'
  OBVIOUS
<1> USE DEF NothingRaised, TypeOK, Goto, Ending
<1>1. CASE UNCHANGED vars
  BY <1>1 DEF vars, task
<1>2. ASSUME NEW q \in Runs, RunStep(q), q # r
      PROVE  NothingRaised(r)'
  BY <1>2, OthersUntouched DEF RunStep
<1>3. CASE Create(r) \/ Start(r) \/ Request(r)
  BY <1>3 DEF Create, LoopHeld, Holding, Start, Resumed, Request, CancelLookup, CancelSet, CancelLog,
              Delete, Purge, task
<1>4. CASE Phase(r) \/ TimeOut(r) \/ TaskCancelled(r)
  BY <1>4 DEF Phase, BeginFetch, BeginAnalyze, StreamOver, BeginGenerate, BeginValidate, BeginArchive,
       BeginIndex, Complete, Enter, PhaseFails, CancelSeen, TimeOut, TaskCancelled, Throw, Resumed
<1>5. CASE Finalise(r)
  BY <1>5 DEF Finalise, Unwind, Classify, EmitDone, ClearFlag, Save
<1>6. CASE Shutdown \/ Stop \/ Crash \/ Restart
  BY <1>6 DEF Shutdown, Stop, Crash, Die, Restart, task
<1> QED
  BY <1>1, <1>2, <1>3, <1>4, <1>5, <1>6 DEF Next, RunStep

\* The rules have an entry for each run.
LEMMA RulesEntries ==
  /\ RulesAt = [r \in Runs |-> RulesAt[r]] /\ RulesAt' = [r \in Runs |-> RulesAt'[r]]
  /\ RulesVerdict = [r \in Runs |-> RulesVerdict[r]]
  /\ RulesVerdict' = [r \in Runs |-> RulesVerdict'[r]]
BY DEF RulesAt, RulesVerdict

\* What one run does moves that run only.
LEMMA OneRun ==
  ASSUME TypeOK, NEW q \in Runs, RunStep(q)
  PROVE  /\ RulesAt' = [RulesAt EXCEPT ![q] = RulesAt'[q]]
         /\ RulesVerdict' = [RulesVerdict EXCEPT ![q] = RulesVerdict'[q]]
         /\ RulesAt'[q] = RulesAt[q] => RulesAt' = RulesAt
         /\ RulesVerdict'[q] = RulesVerdict[q] => RulesVerdict' = RulesVerdict
<1>1. ASSUME NEW r \in Runs, r # q
      PROVE  UNCHANGED <<status[r], pc[r], exc[r]>>
  BY <1>1, OthersUntouched DEF RunStep
<1>2. \A r \in Runs : r # q => RulesAt'[r] = RulesAt[r] /\ RulesVerdict'[r] = RulesVerdict[r]
  BY <1>1 DEF RulesAt, RulesVerdict
<1>3. /\ RulesAt' = [RulesAt EXCEPT ![q] = RulesAt'[q]]
      /\ RulesAt'[q] = RulesAt[q] => RulesAt' = RulesAt
  BY <1>2, RulesEntries, OnePoint
<1>4. /\ RulesVerdict' = [RulesVerdict EXCEPT ![q] = RulesVerdict'[q]]
      /\ RulesVerdict'[q] = RulesVerdict[q] => RulesVerdict' = RulesVerdict
  BY <1>2, RulesEntries, OnePoint
<1> QED
  BY <1>3, <1>4

\* A step that leaves the place and the verdict of its run leaves the rules alone.
LEMMA Quiet ==
  ASSUME TypeOK, NEW q \in Runs, RunStep(q),
         RulesAt'[q] = RulesAt[q], RulesVerdict'[q] = RulesVerdict[q]
  PROVE  UNCHANGED Rules!rulevars
BY OneRun DEF Rules!rulevars

\* A run goes from one phase to the next.
LEMMA Forward ==
  ASSUME TypeOK, NEW q \in Runs, RunStep(q),
         RulesAt[q] \in DOMAIN Rules!Following, RulesAt'[q] \in Rules!Following[RulesAt[q]],
         RulesVerdict'[q] = RulesVerdict[q]
  PROVE  Rules!Next
<1>1. Rules!Proceed(q)
  BY OneRun DEF Rules!Proceed
<1> QED
  BY <1>1 DEF Rules!Next

\* execute() is over.
LEMMA Over ==
  ASSUME TypeOK, NEW q \in Runs, RunStep(q), RulesAt'[q] = "ended",
         \/ RulesAt[q] = "kb" /\ RulesVerdict'[q] = "completed"
         \/ RulesAt[q] \notin {"ended", "closed"} /\ RulesVerdict'[q] = "failed"
         \/ RulesAt[q] \in Rules!Interruptible /\ RulesVerdict'[q] = "cancelled"
  PROVE  Rules!Next
<1>1. /\ RulesAt' = [RulesAt EXCEPT ![q] = "ended"]
      /\ RulesVerdict' = [RulesVerdict EXCEPT ![q] = RulesVerdict'[q]]
  BY OneRun
<1>2. Rules!Complete(q) \/ Rules!Fail(q) \/ Rules!Cancel(q)
  BY <1>1 DEF Rules!Complete, Rules!Fail, Rules!Cancel, Rules!End
<1> QED
  BY <1>2 DEF Rules!Next

\* What a task does in its phases, and the limits that end it.
LEMMA PhaseRule ==
  ASSUME TypeOK, NEW q \in Runs, RunInv(q), NothingRaised(q),
         Phase(q) \/ TimeOut(q) \/ TaskCancelled(q)
  PROVE  [Rules!Next]_(Rules!rulevars)
<1> USE DEF Goto, SetStatus
<1>1. /\ pc \in [Runs -> Positions] /\ exc \in [Runs -> Exceptions]
      /\ status \in [Runs -> RunStatus \cup {"none"}] /\ RunStep(q)
  BY DEF TypeOK, Exceptions, RunStep
<1>2. ASSUME NEW e \in {"error", "timeout", "cancelled"}, Throw(q, e)
      PROVE  RulesAt'[q] = "ended" /\ RulesVerdict'[q] = Raised[e]
  BY <1>1, <1>2 DEF Throw, RulesAt, RulesVerdict, Ending
<1>3. CASE BeginFetch(q) \/ BeginAnalyze(q) \/ StreamOver(q)
  <2>1. pc[q] \in {"scheduled", "fetch", "analyze"} /\ pc'[q] \in {"fetch", "analyze", "parse"}
    BY <1>1, <1>3 DEF BeginFetch, BeginAnalyze, StreamOver, Enter, Resumed
  <2>2. RulesAt'[q] = RulesAt[q] /\ RulesVerdict'[q] = RulesVerdict[q]
    BY <2>1 DEF RulesAt, RulesVerdict, Ending
  <2> QED
    BY <1>1, <2>2, Quiet
<1>4. CASE BeginGenerate(q) \/ BeginValidate(q) \/ BeginArchive(q) \/ BeginIndex(q)
  <2>1. \/ pc[q] = "parse" /\ pc'[q] = "generate"
        \/ pc[q] = "generate" /\ pc'[q] = "validate"
        \/ pc[q] = "validate" /\ pc'[q] = "archive"
        \/ pc[q] = "archive" /\ pc'[q] = "kb"
    BY <1>1, <1>4 DEF BeginGenerate, BeginValidate, BeginArchive, BeginIndex, Enter, Resumed
  <2>2. RulesVerdict'[q] = RulesVerdict[q]
    BY <2>1 DEF RulesVerdict, Ending
  <2>3. /\ RulesAt[q] \in DOMAIN Rules!Following
        /\ RulesAt'[q] \in Rules!Following[RulesAt[q]]
    BY <2>1 DEF RulesAt, Ending, Rules!Following
  <2> QED
    BY <1>1, <2>2, <2>3, Forward
<1>5. CASE Complete(q)
  <2>1. pc[q] = "kb" /\ pc'[q] = "classify" /\ exc'[q] = "none"
    BY <1>1, <1>5 DEF Complete, Enter, Resumed, NothingRaised, Ending
  <2>2. RulesAt[q] = "kb" /\ RulesAt'[q] = "ended" /\ RulesVerdict'[q] = "completed"
    BY <2>1 DEF RulesAt, RulesVerdict, Ending, Raised
  <2> QED
    BY <1>1, <2>2, Over
<1>6. CASE PhaseFails(q) \/ TimeOut(q)
  <2>1. \E e \in {"error", "timeout"} : Throw(q, e)
    BY <1>6 DEF PhaseFails, TimeOut
  <2>2. RulesAt'[q] = "ended" /\ RulesVerdict'[q] = "failed"
    BY <2>1, <1>2 DEF Raised
  <2>3. pc[q] \in Awaiting \cup {"validate", "archive"}
    BY <1>6 DEF PhaseFails, TimeOut, Resumed
  <2>4. RulesAt[q] \notin {"ended", "closed"}
    BY <2>3 DEF RulesAt, Awaiting, Ending
  <2> QED
    BY <1>1, <2>2, <2>4, Over
<1>7. CASE CancelSeen(q) \/ TaskCancelled(q)
  <2>1. Throw(q, "cancelled")
    BY <1>7 DEF CancelSeen, TaskCancelled
  <2>2. RulesAt'[q] = "ended" /\ RulesVerdict'[q] = "cancelled"
    BY <2>1, <1>2 DEF Raised
  <2>3. pc[q] \in Awaiting
    BY <1>7 DEF CancelSeen, TaskCancelled, Resumed, Awaiting
  <2>4. RulesAt[q] \in Rules!Interruptible
    BY <2>3 DEF RulesAt, Awaiting, Ending, Rules!Interruptible
  <2> QED
    BY <1>1, <2>2, <2>4, Over
<1> QED
  BY <1>3, <1>4, <1>5, <1>6, <1>7 DEF Phase

\* The except clauses turn what was raised into the status, and nothing changes it
\* until the row has it.
LEMMA FinaliseRule ==
  ASSUME TypeOK, NEW q \in Runs, RunInv(q), Finalise(q)
  PROVE  [Rules!Next]_(Rules!rulevars)
<1> USE DEF Goto, SetStatus
<1>1. /\ pc \in [Runs -> Positions] /\ exc \in [Runs -> Exceptions]
      /\ status \in [Runs -> RunStatus \cup {"none"}] /\ RunStep(q)
  BY DEF TypeOK, Exceptions, RunStep
<1>2. CASE Unwind(q)
  <2>1. pc[q] = "unwind" /\ pc'[q] = "classify" /\ exc' = exc
    BY <1>1, <1>2 DEF Unwind, Resumed
  <2>2. RulesAt'[q] = RulesAt[q] /\ RulesVerdict'[q] = RulesVerdict[q]
    BY <2>1 DEF RulesAt, RulesVerdict, Ending
  <2> QED
    BY <1>1, <2>2, Quiet
<1>3. CASE Classify(q)
  <2>1. pc[q] = "classify" /\ pc'[q] = "done"
    BY <1>1, <1>3 DEF Classify, Resumed
  <2>2. exc[q] = "none" => status[q] = "completed"
    BY <2>1 DEF RunInv, Control, StatusFollows
  <2>3. status'[q] = Raised[exc[q]]
    <3>1. /\ exc[q] \in {"timeout", "error"} => status'[q] = "failed"
          /\ exc[q] = "cancelled" => status'[q] = "cancelled"
          /\ exc[q] = "none" => status'[q] = status[q]
          /\ exc[q] \in {"none", "cancelled", "timeout", "error"}
      BY <1>1, <1>3 DEF Classify, Exceptions
    <3> QED
      BY <3>1, <2>2 DEF Raised
  <2>4. RulesAt'[q] = RulesAt[q] /\ RulesVerdict'[q] = RulesVerdict[q]
    BY <2>1, <2>3 DEF RulesAt, RulesVerdict, Ending
  <2> QED
    BY <1>1, <2>4, Quiet
<1>4. CASE EmitDone(q) \/ ClearFlag(q)
  <2>1. pc[q] \in {"done", "clear"} /\ pc'[q] \in {"clear", "save"} /\ status' = status
    BY <1>1, <1>4 DEF EmitDone, ClearFlag, Resumed
  <2>2. RulesAt'[q] = RulesAt[q] /\ RulesVerdict'[q] = RulesVerdict[q]
    BY <2>1 DEF RulesAt, RulesVerdict, Ending
  <2> QED
    BY <1>1, <2>2, Quiet
<1>5. CASE Save(q)
  <2>1. pc[q] = "save" /\ pc'[q] = "none" /\ status' = status
    BY <1>1, <1>5 DEF Save, Resumed
  <2>2. status[q] # "none"
    BY <2>1 DEF RunInv, Control, StatusFollows, Terminal
  <2>3. RulesAt[q] = "ended" /\ RulesAt'[q] = "closed" /\ RulesVerdict'[q] = "none"
    BY <2>1, <2>2 DEF RulesAt, RulesVerdict, Ending
  <2>4. Rules!Record(q)
    BY <1>1, <2>3, OneRun DEF Rules!Record
  <2> QED
    BY <2>4 DEF Rules!Next
<1> QED
  BY <1>2, <1>3, <1>4, <1>5 DEF Finalise

\* Creating and starting a run is before its first phase; no request moves it.
LEMMA OutsideRule ==
  ASSUME TypeOK, NEW q \in Runs, RunInv(q), Create(q) \/ Start(q) \/ Request(q)
  PROVE  UNCHANGED Rules!rulevars
<1>1. pc \in [Runs -> Positions] /\ status \in [Runs -> RunStatus \cup {"none"}] /\ RunStep(q)
  BY DEF TypeOK, RunStep
<1>2. CASE Create(q)
  <2>1. /\ status[q] = "none" /\ status'[q] = "queued"
        /\ pc[q] = "none" /\ pc'[q] = "persisted"
    BY <1>1, <1>2 DEF Create, Goto, SetStatus, RunInv, Control, Fresh
  <2>2. RulesAt'[q] = RulesAt[q] /\ RulesVerdict'[q] = RulesVerdict[q]
    BY <2>1 DEF RulesAt, RulesVerdict, Ending
  <2> QED
    BY <1>1, <2>2, Quiet
<1>3. CASE Start(q)
  <2>1. pc[q] = "persisted" /\ pc'[q] = "scheduled"
    BY <1>1, <1>3 DEF Start, Resumed, Goto
  <2>2. RulesAt'[q] = RulesAt[q] /\ RulesVerdict'[q] = RulesVerdict[q]
    BY <2>1 DEF RulesAt, RulesVerdict, Ending
  <2> QED
    BY <1>1, <2>2, Quiet
<1>4. CASE Request(q)
  <2>1. UNCHANGED <<server, status, pc, exc>>
    BY <1>4 DEF Request, CancelLookup, CancelSet, CancelLog, Delete, Purge, service, task
  <2> QED
    BY <2>1 DEF Rules!rulevars, RulesAt, RulesVerdict
<1> QED
  BY <1>2, <1>3, <1>4

\* A shutdown, the end of the process and its next start.
LEMMA ServiceRule ==
  ASSUME TypeOK, \A r \in Runs : RunInv(r), Shutdown \/ Stop \/ Crash \/ Restart
  PROVE  [Rules!Next]_(Rules!rulevars)
<1>1. \A r \in Runs : status[r] = "none" => pc[r] = "none"
  BY DEF RunInv, Control, Fresh
<1>2. CASE Shutdown
  <2>1. /\ pc' = [r \in Runs |-> IF pc[r] = "scheduled" THEN "none" ELSE pc[r]]
        /\ UNCHANGED <<status, exc>>
    BY <1>2 DEF Shutdown
  <2> DEFINE S == {r \in Runs : pc[r] = "scheduled"}
  <2>2. S \in SUBSET {r \in Runs : RulesAt[r] = "early"}
    BY DEF RulesAt, Ending
  <2>3. RulesAt' = [r \in Runs |-> IF r \in S THEN "closed" ELSE RulesAt[r]]
    BY <1>1, <2>1 DEF RulesAt, Ending
  <2>4. RulesVerdict' = RulesVerdict
    BY <2>1 DEF RulesVerdict, Ending
  <2>5. Rules!Stop
    <3> HIDE DEF S
    <3> QED
      BY <2>1, <2>2, <2>3, <2>4 DEF Rules!Stop
  <2> QED
    BY <2>5 DEF Rules!Next
<1>3. CASE Stop \/ Crash
  <2>1. pc' = [r \in Runs |-> "none"] /\ UNCHANGED status
    BY <1>3 DEF Stop, Crash, Die
  <2> DEFINE S == {r \in Runs : status[r] = "none"}
  <2>2. S \in SUBSET {r \in Runs : RulesAt[r] = "early"}
    BY <1>1 DEF RulesAt, Ending
  <2>3. RulesAt' = [r \in Runs |-> IF r \in S THEN "early" ELSE "closed"]
    BY <2>1 DEF RulesAt, Ending
  <2>4. RulesVerdict' = [r \in Runs |-> "none"]
    BY <2>1 DEF RulesVerdict, Ending
  <2>5. Rules!Gone
    <3> HIDE DEF S
    <3> QED
      BY <2>2, <2>3, <2>4 DEF Rules!Gone
  <2> QED
    BY <2>5 DEF Rules!Next
<1>4. CASE Restart
  <2>1. UNCHANGED <<status, pc, exc>>
    BY <1>4 DEF Restart, task
  <2> QED
    BY <2>1 DEF Rules!rulevars, RulesAt, RulesVerdict
<1> QED
  BY <1>2, <1>3, <1>4

\* RunService and the order of the phases in execute() keep the rules that the phases
\* themselves have to keep too (DeliverablesProofs): a run completes after its last
\* phase only, is cancelled only where it awaits, and what is published is how it
\* ended, a timeout as a failure.
THEOREM LifecycleKeepsTheRules == Spec => PhaseSpec
<1> DEFINE Clean == \A r \in Runs : NothingRaised(r)
<1>1. Init => Rules!Init
  BY DEF Init, Rules!Init, RulesAt, RulesVerdict, Ending
<1>2. Init => Clean
  BY DEF Init, NothingRaised
<1>3. IndInv /\ Clean /\ [Next]_vars => [Rules!Next]_(Rules!rulevars)
  <2> SUFFICES ASSUME TypeOK, \A r \in Runs : RunInv(r), Clean, [Next]_vars
               PROVE  [Rules!Next]_(Rules!rulevars)
    BY DEF IndInv
  <2>1. CASE UNCHANGED vars
    BY <2>1 DEF vars, service, task, Rules!rulevars, RulesAt, RulesVerdict
  <2>2. ASSUME NEW q \in Runs, RunStep(q)
        PROVE  [Rules!Next]_(Rules!rulevars)
    <3>1. RunInv(q) /\ NothingRaised(q)
      OBVIOUS
    <3>2. CASE Create(q) \/ Start(q) \/ Request(q)
      <4>1. UNCHANGED Rules!rulevars
        BY <3>1, <3>2, OutsideRule
      <4> QED
        BY <4>1
    <3>3. CASE Phase(q) \/ TimeOut(q) \/ TaskCancelled(q)
      BY <3>1, <3>3, PhaseRule
    <3>4. CASE Finalise(q)
      BY <3>1, <3>4, FinaliseRule
    <3> QED
      BY <2>2, <3>2, <3>3, <3>4 DEF RunStep
  <2>3. CASE Shutdown \/ Stop \/ Crash \/ Restart
    BY <2>3, ServiceRule
  <2> QED
    BY <2>1, <2>2, <2>3 DEF Next, RunStep
<1>4. IndInv /\ Clean /\ [Next]_vars => Clean'
  BY RaisedStep DEF IndInv
<1> QED
  BY <1>1, <1>2, <1>3, <1>4, Invariance, PTL DEF Spec, PhaseSpec, Rules!Spec, Rules!rulevars
=============================================================================
