-------------------------- MODULE AgentCallsProofs --------------------------
(***************************************************************************)
(* Theorems about AgentCalls for any invocations, budget and size of the   *)
(* batches.                                                                *)
(***************************************************************************)
EXTENDS AgentCalls, FiniteSetTheorems, TLAPS

ThreadStates == {"idle"} \cup Running \cup Ended
BranchStates == {"none", "waiting", "killed"} \cup Settled
Areas == {"repo", "work", "artifacts", "skills"}

(* The inductive invariant, in parts.                                       *)

\* An invocation that has not begun has no thread and has counted nothing.
Fresh ==
  \A c \in Calls : branch[c] = "none" =>
    thread[c] = "idle" /\ used[c] = 0 /\ ran[c] = 0 /\ due[c] = 0

\* A call that was asked for has run or is still due, unless the stream is broken off;
\* nothing is due once a thread has ended.
Booked ==
  \A c \in Calls :
    /\ thread[c] = "tools" => due[c] > 0 /\ asked[c] = ran[c] + due[c]
    /\ thread[c] \in {"idle", "model", "answered"} => due[c] = 0 /\ asked[c] = ran[c]
    /\ thread[c] \in Ended => due[c] = 0

\* What ran is what was counted, up to the budget.
Counted == \A c \in Calls : ran[c] = IF used[c] <= Budget THEN used[c] ELSE Budget

\* A branch that is settled has waited for its thread.
Waited == \A c \in Calls : branch[c] \in {"none"} \cup Settled => thread[c] \notin Running

\* A run that was not killed is over when nothing of it is waiting.
OverSettled == over /\ ~killed => \A c \in Calls : branch[c] \in {"none"} \cup Settled

\* Deliverables follow an analysis that left its hand-off.
AnalysisFirst ==
  /\ \A c \in Calls \ {Analysis} : branch[c] # "none" => branch[Analysis] = "done"
  /\ branch[Analysis] = "done" => HandOff

\* Nothing is written but what the rules allow, where the routes take it.
Confined == changed \subseteq {"work", "artifacts"}

-----------------------------------------------------------------------------
(* Types.                                                                   *)

LEMMA ConstantTypes == Budget \in Nat /\ Batch \in Nat /\ Analysis \in Calls
BY AgentCallsAssumption

\* The steps by what they touch: a thread's move, a branch's move, the run's end.
LEMMA ThreadSteps ==
  ASSUME [Next]_vars
  PROVE  \/ UNCHANGED agent
         \/ \E c \in Calls : Start(c)
         \/ \E c \in Calls : Thread(c)
BY DEF Next, Loop, Finish, StartFails, Settle, Cancel, Kill, vars

LEMMA BranchSteps ==
  ASSUME [Next]_vars
  PROVE  \/ UNCHANGED branch
         \/ \E c \in Calls : Start(c) \/ StartFails(c) \/ Settle(c)
         \/ \E why \in {"timeout", "shutdown"} : Kill(why)
BY DEF Next, Loop, Finish, Cancel, Thread, Answer, Ask, UseTool, RefuseTool, Close, vars

\* A path the rules let through is in an area the agents own.
LEMMA AreaOfPath ==
  ASSUME NEW p \in Paths, MayWrite(p)
  PROVE  Area(p) \in {"work", "artifacts"}
BY DEF Paths, MayWrite, Area, Routes

\* Where a thread goes after a tool call.
LEMMA AfterCallType ==
  ASSUME NEW c, NEW fails \in BOOLEAN, thread[c] \in ThreadStates
  PROVE  /\ AfterCall(c, fails) \in ThreadStates
         /\ thread[c] \notin Running => AfterCall(c, fails) = thread[c]
BY DEF AfterCall, ThreadStates, Running, Ended

\* A thread's move: the variables it leaves alone, and those of the other threads.
LEMMA ThreadType ==
  ASSUME TypeOK, NEW c \in Calls, Thread(c)
  PROVE  /\ thread' \in [Calls -> ThreadStates]
         /\ thread[c] \notin Running => thread' = thread
         /\ \A d \in Calls : d # c => thread'[d] = thread[d]
<1>1. thread \in [Calls -> ThreadStates]
  BY DEF TypeOK, ThreadStates
<1>2. CASE Answer(c) \/ Ask(c) \/ Close(c)
  BY <1>1, <1>2 DEF Answer, Ask, Close, ThreadStates, Running, Ended
<1>3. CASE UseTool(c) \/ RefuseTool(c)
  <2>1. PICK fails \in BOOLEAN : thread' = [thread EXCEPT ![c] = AfterCall(c, fails)]
    BY <1>3 DEF UseTool, RefuseTool
  <2>2. /\ AfterCall(c, fails) \in ThreadStates
        /\ thread[c] \notin Running => AfterCall(c, fails) = thread[c]
    BY <1>1, AfterCallType
  <2> QED
    BY <2>1, <2>2, <1>1
<1> QED
  BY <1>2, <1>3 DEF Thread

\* The counters of a thread.
LEMMA CounterType ==
  ASSUME TypeOK, [Next]_vars
  PROVE  /\ used' \in [Calls -> Nat] /\ asked' \in [Calls -> Nat]
         /\ ran' \in [Calls -> Nat] /\ due' \in [Calls -> 0 .. Batch]
<1>1. /\ used \in [Calls -> Nat] /\ asked \in [Calls -> Nat]
      /\ ran \in [Calls -> Nat] /\ due \in [Calls -> 0 .. Batch] /\ Batch \in Nat
  BY ConstantTypes DEF TypeOK
<1>2. ASSUME NEW c \in Calls, Start(c)
      PROVE  /\ used' \in [Calls -> Nat] /\ asked' \in [Calls -> Nat]
             /\ ran' \in [Calls -> Nat] /\ due' \in [Calls -> 0 .. Batch]
  BY <1>1, <1>2 DEF Start
<1>3. ASSUME NEW c \in Calls, Thread(c)
      PROVE  /\ used' \in [Calls -> Nat] /\ asked' \in [Calls -> Nat]
             /\ ran' \in [Calls -> Nat] /\ due' \in [Calls -> 0 .. Batch]
  <2>1. used[c] + 1 \in Nat /\ ran[c] + 1 \in Nat
    BY <1>1
  <2>2. CASE Ask(c)
    <3>1. PICK n \in 1 .. Batch : due' = [due EXCEPT ![c] = n] /\ asked' = [asked EXCEPT ![c] = @ + n]
      BY <2>2 DEF Ask
    <3>2. n \in 0 .. Batch /\ asked[c] + n \in Nat
      BY <1>1
    <3> QED
      BY <3>1, <3>2, <1>1, <2>2 DEF Ask
  <2>3. CASE UseTool(c) \/ RefuseTool(c)
    <3>1. due[c] - 1 \in 0 .. Batch
      <4>1. due[c] > 0
        BY <2>3 DEF UseTool, RefuseTool
      <4>2. due[c] \in 0 .. Batch
        BY <1>1
      <4> QED
        BY <4>1, <4>2, <1>1
    <3> QED
      BY <3>1, <2>1, <2>3, <1>1 DEF UseTool, RefuseTool
  <2>4. CASE Answer(c) \/ Close(c)
    BY <2>4, <1>1 DEF Answer, Close
  <2> QED
    BY <1>3, <2>2, <2>3, <2>4 DEF Thread
<1> QED
  BY <1>1, <1>2, <1>3, ThreadSteps DEF agent

\* The areas written in.
LEMMA ConfinedStep == Confined /\ [Next]_vars => Confined'
<1> SUFFICES ASSUME Confined, [Next]_vars PROVE Confined'
  OBVIOUS
<1>1. ASSUME NEW c \in Calls, UseTool(c)
      PROVE  Confined'
  <2>1. PICK p \in {"none"} \cup {q \in Paths : MayWrite(q)} :
          changed' = changed \cup (IF p = "none" THEN {} ELSE {Area(p)})
    BY <1>1 DEF UseTool
  <2>2. p # "none" => Area(p) \in {"work", "artifacts"}
    BY AreaOfPath
  <2> QED
    BY <2>1, <2>2 DEF Confined
<1>2. UNCHANGED changed \/ \E c \in Calls : UseTool(c)
  BY ThreadSteps DEF agent, Start, Thread, Answer, Ask, RefuseTool, Close
<1> QED
  BY <1>1, <1>2 DEF Confined

\* Branches.
LEMMA BranchType ==
  ASSUME TypeOK, [Next]_vars
  PROVE  branch' \in [Calls -> BranchStates]
<1>1. branch \in [Calls -> BranchStates]
  BY DEF TypeOK, BranchStates
<1>2. ASSUME NEW c \in Calls, Start(c) \/ StartFails(c) \/ Settle(c)
      PROVE  branch' \in [Calls -> BranchStates]
  BY <1>1, <1>2 DEF Start, StartFails, Settle, BranchStates, Settled
<1>3. ASSUME NEW why \in {"timeout", "shutdown"}, Kill(why)
      PROVE  branch' \in [Calls -> BranchStates]
  BY <1>1, <1>3 DEF Kill, BranchStates
<1> QED
  BY <1>1, <1>2, <1>3, BranchSteps

\* The run's own variables.
LEMMA RunType ==
  ASSUME TypeOK, [Next]_vars
  PROVE  /\ flag' \in BOOLEAN /\ over' \in BOOLEAN /\ killed' \in BOOLEAN
         /\ usage' \in [tool_calls : Nat, llm_calls : Nat]
<1>1. /\ flag \in BOOLEAN /\ over \in BOOLEAN /\ killed \in BOOLEAN
      /\ usage \in [tool_calls : Nat, llm_calls : Nat] /\ asked \in [Calls -> Nat]
  BY DEF TypeOK
<1>2. ASSUME NEW c \in Calls, Settle(c)
      PROVE  usage' \in [tool_calls : Nat, llm_calls : Nat]
  <2>1. asked[c] \in Nat /\ usage.tool_calls \in Nat /\ usage.llm_calls \in Nat
    BY <1>1
  <2>2. usage.tool_calls + asked[c] \in Nat /\ usage.llm_calls + 1 \in Nat
    BY <2>1
  <2> QED
    BY <1>1, <1>2, <2>2 DEF Settle
<1>3. UNCHANGED usage \/ \E c \in Calls : Settle(c)
  BY DEF Next, Loop, Finish, Start, StartFails, Cancel, Kill, Thread, Answer, Ask, UseTool, RefuseTool,
     Close, vars
<1>4. flag' \in BOOLEAN /\ over' \in BOOLEAN /\ killed' \in BOOLEAN
  BY <1>1 DEF Next, Loop, Finish, Start, StartFails, Settle, Cancel, Kill, Thread, Answer, Ask, UseTool,
     RefuseTool, Close, vars, run
<1> QED
  BY <1>1, <1>2, <1>3, <1>4

LEMMA TypeStep == TypeOK /\ Confined /\ [Next]_vars => TypeOK'
<1> SUFFICES ASSUME TypeOK, Confined, [Next]_vars PROVE TypeOK'
  OBVIOUS
<1>1. thread \in [Calls -> ThreadStates]
  BY DEF TypeOK, ThreadStates
<1>2. ASSUME NEW c \in Calls, Start(c)
      PROVE  thread' \in [Calls -> ThreadStates]
  BY <1>1, <1>2 DEF Start, ThreadStates, Running
<1>3. thread' \in [Calls -> ThreadStates]
  BY <1>1, <1>2, ThreadSteps, ThreadType DEF agent
<1>4. changed' \in SUBSET Areas
  BY ConfinedStep DEF Confined, Areas
<1> QED
  BY <1>3, <1>4, CounterType, BranchType, RunType DEF TypeOK, ThreadStates, BranchStates, Areas

-----------------------------------------------------------------------------
(* The parts of the invariant, one at a time.                               *)

\* An invocation that has not begun is not touched by any thread.
LEMMA FreshStep == TypeOK /\ Fresh /\ [Next]_vars => Fresh'
<1> SUFFICES ASSUME TypeOK, Fresh, [Next]_vars, NEW c \in Calls, branch'[c] = "none"
             PROVE  thread'[c] = "idle" /\ used'[c] = 0 /\ ran'[c] = 0 /\ due'[c] = 0
  BY DEF Fresh
<1>1. branch \in [Calls -> BranchStates]
  BY DEF TypeOK, BranchStates
<1>2. /\ thread \in [Calls -> ThreadStates] /\ used \in [Calls -> Nat]
      /\ ran \in [Calls -> Nat] /\ due \in [Calls -> 0 .. Batch]
  BY DEF TypeOK, ThreadStates
<1>3. branch[c] = "none"
  BY <1>1, BranchSteps DEF Start, StartFails, Settle, Settled, Kill
<1>4. thread[c] = "idle" /\ used[c] = 0 /\ ran[c] = 0 /\ due[c] = 0
  BY <1>3 DEF Fresh
<1>5. ASSUME NEW d \in Calls, Start(d)
      PROVE  thread'[c] = "idle" /\ used'[c] = 0 /\ ran'[c] = 0 /\ due'[c] = 0
  <2>1. d # c
    BY <1>1, <1>5 DEF Start
  <2> QED
    BY <2>1, <1>2, <1>4, <1>5 DEF Start
<1>6. ASSUME NEW d \in Calls, Thread(d)
      PROVE  thread'[c] = "idle" /\ used'[c] = 0 /\ ran'[c] = 0 /\ due'[c] = 0
  <2>1. d # c
    <3>1. thread[d] \in {"model", "failing", "stopping"} \/ due[d] > 0
      BY <1>6 DEF Thread, Answer, Ask, UseTool, RefuseTool, Close
    <3>2. ~(0 > 0)
      OBVIOUS
    <3> QED
      BY <3>1, <3>2, <1>4
  <2>2. used'[c] = used[c] /\ ran'[c] = ran[c] /\ due'[c] = due[c]
    BY <2>1, <1>2, <1>6 DEF Thread, Answer, Ask, UseTool, RefuseTool, Close
  <2> QED
    BY <2>1, <2>2, <1>4, <1>6, ThreadType
<1> QED
  BY <1>4, <1>5, <1>6, ThreadSteps DEF agent

LEMMA CountedStep == TypeOK /\ Fresh /\ Counted /\ [Next]_vars => Counted'
<1> SUFFICES ASSUME TypeOK, Fresh, Counted, [Next]_vars, NEW c \in Calls
             PROVE  ran'[c] = IF used'[c] <= Budget THEN used'[c] ELSE Budget
  BY DEF Counted
<1>1. /\ used \in [Calls -> Nat] /\ ran \in [Calls -> Nat] /\ Budget \in Nat
      /\ ran[c] = IF used[c] <= Budget THEN used[c] ELSE Budget
  BY ConstantTypes DEF TypeOK, Counted
<1>2. CASE UNCHANGED <<used, ran>>
  BY <1>1, <1>2
<1>3. ASSUME NEW d \in Calls, Start(d)
      PROVE  used' = used /\ ran' = ran
  <2>1. used[d] = 0
    BY <1>3 DEF Start, MayStart, Fresh
  <2> QED
    BY <2>1, <1>1, <1>3 DEF Start
<1>4. ASSUME NEW d \in Calls, UseTool(d)
      PROVE  ran'[c] = IF used'[c] <= Budget THEN used'[c] ELSE Budget
  <2>1. used[d] < Budget /\ used' = [used EXCEPT ![d] = @ + 1] /\ ran' = [ran EXCEPT ![d] = @ + 1]
    BY <1>4 DEF UseTool
  <2>2. CASE d # c
    BY <2>1, <2>2, <1>1
  <2>3. CASE d = c
    <3>1. used'[c] = used[c] + 1 /\ ran'[c] = ran[c] + 1 /\ used[c] \in Nat /\ ran[c] \in Nat
      BY <2>1, <2>3, <1>1
    <3> QED
      BY <3>1, <2>1, <2>3, <1>1
  <2> QED
    BY <2>2, <2>3
<1>5. ASSUME NEW d \in Calls, RefuseTool(d)
      PROVE  ran'[c] = IF used'[c] <= Budget THEN used'[c] ELSE Budget
  <2>1. used[d] >= Budget /\ used' = [used EXCEPT ![d] = @ + 1] /\ ran' = ran
    BY <1>5 DEF RefuseTool
  <2>2. CASE d # c
    BY <2>1, <2>2, <1>1
  <2>3. CASE d = c
    <3>1. used'[c] = used[c] + 1 /\ ran'[c] = ran[c] /\ used[c] \in Nat
      BY <2>1, <2>3, <1>1
    <3> QED
      BY <3>1, <2>1, <2>3, <1>1
  <2> QED
    BY <2>2, <2>3
<1>6. \/ UNCHANGED <<used, ran>>
      \/ \E d \in Calls : Start(d) \/ UseTool(d) \/ RefuseTool(d)
  BY ThreadSteps DEF agent, Thread, Answer, Ask, Close
<1> QED
  BY <1>2, <1>3, <1>4, <1>5, <1>6

LEMMA WaitedStep == TypeOK /\ Fresh /\ Waited /\ [Next]_vars => Waited'
<1> SUFFICES ASSUME TypeOK, Fresh, Waited, [Next]_vars, NEW c \in Calls,
                    branch'[c] \in {"none"} \cup Settled
             PROVE  thread'[c] \notin Running
  BY DEF Waited
<1>1. branch \in [Calls -> BranchStates] /\ thread \in [Calls -> ThreadStates]
  BY DEF TypeOK, BranchStates, ThreadStates
<1>2. CASE thread[c] \notin Running
  <2>1. ASSUME NEW d \in Calls, Start(d) PROVE thread'[c] = thread[c]
    BY <2>1, <1>1 DEF Start, Settled
  <2>2. ASSUME NEW d \in Calls, Thread(d) PROVE thread'[c] = thread[c]
    BY <2>2, <1>2, ThreadType
  <2> QED
    BY <1>2, <2>1, <2>2, ThreadSteps DEF agent
<1>3. CASE thread[c] \in Running
  <2>1. branch[c] \notin {"none"} \cup Settled
    BY <1>3 DEF Waited
  <2>2. PICK d \in Calls : Start(d) \/ StartFails(d) \/ Settle(d)
    BY <2>1, <1>1, BranchSteps DEF Kill, Settled
  <2>3. d = c
    BY <2>1, <2>2, <1>1 DEF Start, StartFails, Settle
  <2>4. Settle(c)
    BY <2>1, <2>2, <2>3 DEF Start, StartFails, MayStart
  <2> QED
    BY <2>4, <1>3 DEF Settle, Ended, Running
<1> QED
  BY <1>2, <1>3

LEMMA OverSettledStep == TypeOK /\ AnalysisFirst /\ OverSettled /\ [Next]_vars => OverSettled'
<1> SUFFICES ASSUME TypeOK, AnalysisFirst, OverSettled, [Next]_vars, over', ~killed', NEW c \in Calls
             PROVE  branch'[c] \in {"none"} \cup Settled
  BY DEF OverSettled
<1>1. CASE over /\ ~killed
  <2>1. branch[c] \in {"none"} \cup Settled
    BY <1>1 DEF OverSettled
  <2>2. UNCHANGED branch
    BY <1>1, BranchSteps DEF Start, StartFails, Settle, MayStart, Kill
  <2> QED
    BY <2>1, <2>2
<1>2. CASE Finish
  <2>1. UNCHANGED branch
    BY <1>2 DEF Finish
  <2>2. CASE branch[Analysis] \in {"failed", "cancelled"}
    BY <2>1, <2>2 DEF AnalysisFirst, Settled
  <2> QED
    BY <2>1, <2>2, <1>2 DEF Finish
<1>3. (over /\ ~killed) \/ Finish
  BY DEF Next, Loop, Start, StartFails, Settle, MayStart, Cancel, Kill, Thread, Answer, Ask, UseTool,
     RefuseTool, Close, vars, run
<1> QED
  BY <1>1, <1>2, <1>3

LEMMA AnalysisFirstStep == TypeOK /\ AnalysisFirst /\ [Next]_vars => AnalysisFirst'
<1> SUFFICES ASSUME TypeOK, AnalysisFirst, [Next]_vars PROVE AnalysisFirst'
  OBVIOUS
<1>1. branch \in [Calls -> BranchStates] /\ Analysis \in Calls
  BY ConstantTypes DEF TypeOK, BranchStates
<1>2. changed \subseteq changed'
  BY ThreadSteps DEF agent, Start, Thread, Answer, Ask, UseTool, RefuseTool, Close
<1>3. CASE UNCHANGED branch
  BY <1>2, <1>3 DEF AnalysisFirst, HandOff
<1>4. ASSUME NEW d \in Calls, Start(d) \/ StartFails(d) \/ Settle(d)
      PROVE  AnalysisFirst'
  <2>1. d # Analysis => branch[Analysis] = "done"
    BY <1>4 DEF Start, StartFails, Settle, MayStart, AnalysisFirst
  <2>2. \A e \in Calls : e # d => branch'[e] = branch[e]
    BY <1>1, <1>4 DEF Start, StartFails, Settle
  <2>3. branch[d] # "done"
    BY <1>4 DEF Start, StartFails, Settle, MayStart
  <2>4. CASE d # Analysis
    BY <2>1, <2>2, <2>4, <1>1, <1>2 DEF AnalysisFirst, HandOff
  <2>5. CASE d = Analysis
    <3>1. \A e \in Calls \ {Analysis} : branch[e] = "none"
      BY <2>3, <2>5 DEF AnalysisFirst
    <3>2. branch'[Analysis] = "done" => HandOff
      BY <2>5, <1>1, <1>4 DEF Start, StartFails, Settle
    <3> QED
      BY <3>1, <3>2, <2>2, <2>5, <1>2 DEF AnalysisFirst, HandOff
  <2> QED
    BY <2>4, <2>5
<1>5. ASSUME NEW why \in {"timeout", "shutdown"}, Kill(why)
      PROVE  AnalysisFirst'
  <2>1. branch' = [c \in Calls |-> IF branch[c] = "waiting" THEN "killed" ELSE branch[c]]
    BY <1>5 DEF Kill
  <2>2. ASSUME NEW e \in Calls
        PROVE  branch'[e] = branch[e] \/ (branch[e] = "waiting" /\ branch'[e] = "killed")
    BY <2>1
  <2>3. branch'[Analysis] = "done" <=> branch[Analysis] = "done"
    BY <2>2, <1>1
  <2>4. \A e \in Calls : branch'[e] # "none" => branch[e] # "none"
    BY <2>2
  <2> QED
    BY <2>3, <2>4, <1>2 DEF AnalysisFirst, HandOff
<1> QED
  BY <1>3, <1>4, <1>5, BranchSteps

\* What is due is what was asked for and has not run, until the stream breaks off.
LEMMA BookedStep == TypeOK /\ Fresh /\ Booked /\ [Next]_vars => Booked'
<1> SUFFICES ASSUME TypeOK, Fresh, Booked, [Next]_vars, NEW c \in Calls
             PROVE  /\ thread'[c] = "tools" => due'[c] > 0 /\ asked'[c] = ran'[c] + due'[c]
                    /\ thread'[c] \in {"idle", "model", "answered"} => due'[c] = 0 /\ asked'[c] = ran'[c]
                    /\ thread'[c] \in Ended => due'[c] = 0
  BY DEF Booked
<1> DEFINE Moves == /\ thread'[c] = "tools" => due'[c] > 0 /\ asked'[c] = ran'[c] + due'[c]
                    /\ thread'[c] \in {"idle", "model", "answered"} => due'[c] = 0 /\ asked'[c] = ran'[c]
                    /\ thread'[c] \in Ended => due'[c] = 0
<1>1. /\ thread \in [Calls -> ThreadStates] /\ due \in [Calls -> 0 .. Batch] /\ Batch \in Nat
      /\ asked \in [Calls -> Nat] /\ ran \in [Calls -> Nat]
  BY ConstantTypes DEF TypeOK, ThreadStates
<1>2. /\ thread[c] = "tools" => due[c] > 0 /\ asked[c] = ran[c] + due[c]
      /\ thread[c] \in {"idle", "model", "answered"} => due[c] = 0 /\ asked[c] = ran[c]
      /\ thread[c] \in Ended => due[c] = 0
      /\ thread[c] \in ThreadStates /\ due[c] \in 0 .. Batch /\ asked[c] \in Nat /\ ran[c] \in Nat
  BY <1>1 DEF Booked
<1>3. CASE UNCHANGED agent
  BY <1>2, <1>3 DEF agent
<1>4. ASSUME NEW d \in Calls, d # c, Start(d) \/ Thread(d) PROVE Moves
  <2>1. thread'[c] = thread[c] /\ due'[c] = due[c] /\ asked'[c] = asked[c] /\ ran'[c] = ran[c]
    BY <1>1, <1>4 DEF Start, Thread, Answer, Ask, UseTool, RefuseTool, Close
  <2> QED
    BY <2>1, <1>2
<1>5. CASE Start(c)
  <2>1. thread[c] = "idle" /\ thread'[c] = "model"
    BY <1>1, <1>5 DEF Start, MayStart, Fresh
  <2> QED
    BY <2>1, <1>2, <1>5 DEF Start, Ended
<1>6. CASE Answer(c)
  <2>1. thread[c] = "model" /\ thread'[c] \in Ended
    BY <1>1, <1>6 DEF Answer, Ended
  <2> QED
    BY <2>1, <1>2, <1>6 DEF Answer, Ended
<1>7. CASE Ask(c)
  <2>1. PICK n \in 1 .. Batch : due' = [due EXCEPT ![c] = n] /\ asked' = [asked EXCEPT ![c] = @ + n]
    BY <1>7 DEF Ask
  <2>2. thread[c] = "model" /\ thread'[c] = "tools" /\ due'[c] = n /\ asked'[c] = asked[c] + n /\ ran' = ran
    BY <2>1, <1>1, <1>7 DEF Ask
  <2>3. asked[c] = ran[c] /\ n > 0
    BY <2>2, <1>1, <1>2
  <2> QED
    BY <2>2, <2>3 DEF Ended
<1>8. CASE UseTool(c)
  <2>1. PICK fails \in BOOLEAN : thread' = [thread EXCEPT ![c] = AfterCall(c, fails)]
    BY <1>8 DEF UseTool
  <2>2. /\ thread'[c] = AfterCall(c, fails) /\ due[c] > 0 /\ due'[c] = due[c] - 1
        /\ asked'[c] = asked[c] /\ ran'[c] = ran[c] + 1
    BY <2>1, <1>1, <1>8 DEF UseTool
  <2>3. thread[c] \in {"tools", "failing", "stopping"}
    BY <2>2, <1>2 DEF ThreadStates, Running, Ended
  <2>4. CASE thread[c] # "tools"
    BY <2>2, <2>3, <2>4 DEF AfterCall, Ended
  <2>5. CASE thread[c] = "tools"
    <3>1. asked[c] = ran[c] + due[c]
      BY <2>5, <1>2
    <3>2. thread'[c] \in {"failing", "stopping"} \/ thread'[c] = IF due[c] = 1 THEN "model" ELSE "tools"
      BY <2>2, <2>5 DEF AfterCall
    <3> QED
      BY <3>1, <3>2, <2>2, <1>2 DEF Ended
  <2> QED
    BY <2>4, <2>5
<1>9. CASE RefuseTool(c)
  <2>1. /\ thread'[c] = AfterCall(c, TRUE) /\ due[c] > 0
    BY <1>1, <1>9 DEF RefuseTool
  <2>2. thread[c] \in {"tools", "failing", "stopping"}
    BY <2>1, <1>2 DEF ThreadStates, Running, Ended
  <2>3. thread'[c] \in {"failing", "stopping"}
    BY <2>1, <2>2 DEF AfterCall
  <2> QED
    BY <2>3 DEF Ended
<1>10. CASE Close(c)
  BY <1>1, <1>10 DEF Close, Ended
<1> QED
  BY <1>3, <1>4, <1>5, <1>6, <1>7, <1>8, <1>9, <1>10, ThreadSteps DEF Thread

-----------------------------------------------------------------------------
(* The usage, a total over the invocations whose answer was taken.          *)

\* How many numbers there are from 1 on.
LEMMA FirstNumbers ==
  ASSUME NEW n \in Nat
  PROVE  IsFiniteSet(1 .. n) /\ Cardinality(1 .. n) = n
<1>1. IsFiniteSet(1 .. n) /\ Cardinality(1 .. n) = IF 1 > n THEN 0 ELSE n - 1 + 1
  BY FS_Interval
<1> QED
  BY <1>1

\* The invocations' calls are finitely many, and one more invocation adds its own.
LEMMA OneMoreInvocation ==
  ASSUME TypeOK, NEW C \in SUBSET Calls, NEW c \in Calls, c \notin C, IsFiniteSet(CallsRun(C))
  PROVE  /\ IsFiniteSet(CallsRun(C \cup {c}))
         /\ Cardinality(CallsRun(C \cup {c})) = Cardinality(CallsRun(C)) + ran[c]
<1> DEFINE own == {c} \X (1 .. ran[c])
<1>1. ran[c] \in Nat
  BY DEF TypeOK
<1>2. IsFiniteSet(1 .. ran[c]) /\ Cardinality(1 .. ran[c]) = ran[c]
  BY <1>1, FirstNumbers
<1>3. IsFiniteSet({c}) /\ Cardinality({c}) = 1
  BY FS_Singleton
<1>4. IsFiniteSet(own) /\ Cardinality(own) = Cardinality({c}) * Cardinality(1 .. ran[c])
  BY <1>2, <1>3, FS_Product
<1>5. Cardinality(own) = ran[c]
  BY <1>1, <1>2, <1>3, <1>4
<1>6. CallsRun(C \cup {c}) = CallsRun(C) \cup own
  BY DEF CallsRun
<1>7. CallsRun(C) \cap own = {}
  BY DEF CallsRun
<1>8. /\ IsFiniteSet(CallsRun(C) \cup own)
      /\ Cardinality(CallsRun(C) \cup own) =
           Cardinality(CallsRun(C)) + Cardinality(own) - Cardinality(CallsRun(C) \cap own)
  BY <1>4, FS_Union
<1>9. Cardinality(CallsRun(C) \cap own) = 0
  BY <1>7, FS_EmptySet
<1>10. Cardinality(CallsRun(C)) \in Nat
  BY FS_CardinalityType
<1>11. Cardinality(CallsRun(C) \cup own) = Cardinality(CallsRun(C)) + ran[c]
  <2> HIDE DEF own
  <2> QED
    BY <1>1, <1>5, <1>8, <1>9, <1>10
<1> QED
  BY <1>6, <1>8, <1>11, Zenon

\* The calls of finitely many invocations are among Budget calls for each.
LEMMA CallsRunBound ==
  ASSUME TypeOK, Counted, NEW C \in SUBSET Calls
  PROVE  /\ IsFiniteSet(CallsRun(C))
         /\ Cardinality(CallsRun(C)) <= Cardinality(Calls) * Budget
<1>1. IsFiniteSet(Calls) /\ Budget \in Nat
  BY AgentCallsAssumption
<1>2. IsFiniteSet(1 .. Budget) /\ Cardinality(1 .. Budget) = Budget
  BY <1>1, FirstNumbers
<1>3. /\ IsFiniteSet(Calls \X (1 .. Budget))
      /\ Cardinality(Calls \X (1 .. Budget)) = Cardinality(Calls) * Cardinality(1 .. Budget)
  BY <1>1, <1>2, FS_Product
<1>4. \A c \in Calls : ran[c] \in Nat /\ ran[c] <= Budget
  BY <1>1 DEF TypeOK, Counted
<1>5. \A c \in Calls : 1 .. ran[c] \subseteq 1 .. Budget
  BY <1>1, <1>4
<1>6. CallsRun(C) \subseteq Calls \X (1 .. Budget)
  BY <1>5 DEF CallsRun
<1>7. /\ IsFiniteSet(CallsRun(C))
      /\ Cardinality(CallsRun(C)) <= Cardinality(Calls \X (1 .. Budget))
  BY <1>3, <1>6, FS_Subset
<1> QED
  BY <1>2, <1>3, <1>7

\* Only an answer that is taken adds to the invocations counted, and it is a new one;
\* the calls of those that are counted already are all made.
LEMMA TakenStep ==
  ASSUME TypeOK, Fresh, Booked, Waited, [Next]_vars
  PROVE  /\ \A c \in Taken : ran'[c] = ran[c]
         /\ \/ Taken' = Taken /\ usage' = usage
            \/ \E c \in Calls \ Taken :
                 /\ Taken' = Taken \cup {c}
                 /\ ran' = ran /\ asked[c] = ran[c]
                 /\ usage' = [tool_calls |-> usage.tool_calls + asked[c],
                              llm_calls |-> usage.llm_calls + 1]
<1>1. /\ thread \in [Calls -> ThreadStates] /\ branch \in [Calls -> BranchStates]
      /\ ran \in [Calls -> Nat] /\ asked \in [Calls -> Nat] /\ due \in [Calls -> 0 .. Batch]
  BY DEF TypeOK, ThreadStates, BranchStates
<1> DEFINE Same == (\A c \in Taken : ran'[c] = ran[c]) /\ Taken' = Taken /\ usage' = usage
<1>2. ASSUME NEW c \in Calls, Start(c) \/ StartFails(c) PROVE Same
  <2>1. branch[c] = "none" /\ thread[c] = "idle"
    BY <1>2 DEF Start, StartFails, MayStart, Fresh
  <2>2. thread'[c] \in {"idle", "model"}
    BY <2>1, <1>1, <1>2 DEF Start, StartFails, agent
  <2>3. \A d \in Calls : d # c => thread'[d] = thread[d] /\ branch'[d] = branch[d]
    BY <1>1, <1>2 DEF Start, StartFails, agent
  <2>4. Taken' = Taken
    BY <2>1, <2>2, <2>3 DEF Taken
  <2> QED
    BY <2>4, <1>2 DEF Start, StartFails, agent
<1>3. ASSUME NEW c \in Calls, Thread(c) PROVE Same
  <2>1. UNCHANGED branch /\ usage' = usage
    BY <1>3 DEF Thread, Answer, Ask, UseTool, RefuseTool, Close
  <2>2. \A d \in Calls : d # c => thread'[d] = thread[d] /\ ran'[d] = ran[d]
    BY <1>1, <1>3 DEF Thread, Answer, Ask, UseTool, RefuseTool, Close
  <2>3. thread[c] \in Running
    <3>1. ~(0 > 0)
      OBVIOUS
    <3>2. thread[c] \in {"idle"} \cup Ended => due[c] = 0
      BY DEF Booked, Ended
    <3> QED
      BY <3>1, <3>2, <1>1, <1>3
      DEF Thread, Answer, Ask, UseTool, RefuseTool, Close, Running, ThreadStates
  <2>4. branch[c] \notin Settled
    BY <2>3 DEF Waited
  <2>5. Taken' = Taken /\ c \notin Taken
    BY <2>1, <2>2, <2>4 DEF Taken
  <2> QED
    BY <2>1, <2>2, <2>5 DEF Taken
<1>4. ASSUME NEW why \in {"timeout", "shutdown"}, Kill(why) PROVE Same
  <2>1. \A c \in Calls : branch'[c] \in Settled <=> branch[c] \in Settled
    BY <1>4 DEF Kill, Settled
  <2>2. Taken' = Taken
    BY <2>1, <1>4 DEF Taken, Kill, agent
  <2> QED
    BY <2>2, <1>4 DEF Kill, agent
<1>5. ASSUME NEW c \in Calls, Settle(c)
      PROVE  \/ Same
             \/ /\ c \notin Taken /\ Taken' = Taken \cup {c}
                /\ ran' = ran /\ asked[c] = ran[c]
                /\ usage' = [tool_calls |-> usage.tool_calls + asked[c],
                             llm_calls |-> usage.llm_calls + 1]
  <2>1. /\ branch[c] = "waiting" /\ branch'[c] \in Settled
        /\ \A d \in Calls : d # c => branch'[d] = branch[d]
        /\ thread' = thread /\ ran' = ran
    BY <1>1, <1>5 DEF Settle, Settled, agent
  <2>2. c \notin Taken
    BY <2>1 DEF Taken, Settled
  <2>3. CASE thread[c] = "answered"
    <3>1. Taken' = Taken \cup {c}
      BY <2>1, <2>3 DEF Taken
    <3>2. asked[c] = ran[c]
      BY <2>3 DEF Booked
    <3> QED
      BY <3>1, <3>2, <2>1, <2>2, <2>3, <1>5 DEF Settle
  <2>4. CASE thread[c] # "answered"
    <3>1. Taken' = Taken
      BY <2>1, <2>4 DEF Taken
    <3> QED
      BY <3>1, <2>1, <2>4, <1>5 DEF Settle
  <2> QED
    BY <2>3, <2>4
<1>6. CASE UNCHANGED vars \/ Cancel \/ Finish
  BY <1>6 DEF vars, agent, run, Cancel, Finish, Taken
<1> QED
  BY <1>2, <1>3, <1>4, <1>5, <1>6 DEF Next, Loop

\* What is counted is what ran.
LEMMA UsageStep ==
  TypeOK /\ Fresh /\ Counted /\ Booked /\ Waited /\ UsageExact /\ [Next]_vars => UsageExact'
<1> SUFFICES ASSUME TypeOK, Fresh, Counted, Booked, Waited, UsageExact, [Next]_vars
             PROVE  /\ usage'.tool_calls = Cardinality(UNION {{c} \X (1 .. ran'[c]) : c \in Taken'})
                    /\ usage'.llm_calls = Cardinality(Taken')
  BY DEF UsageExact, CallsRun
<1>1. Taken \in SUBSET Calls /\ IsFiniteSet(Taken)
  BY AgentCallsAssumption, FS_Subset DEF Taken
<1>2. IsFiniteSet(CallsRun(Taken))
  BY <1>1, CallsRunBound
<1>3. /\ usage.tool_calls = Cardinality(CallsRun(Taken)) /\ usage.llm_calls = Cardinality(Taken)
      /\ \A c \in Taken : ran'[c] = ran[c]
  BY TakenStep DEF UsageExact
<1>4. CASE Taken' = Taken /\ usage' = usage
  <2>1. UNION {{c} \X (1 .. ran'[c]) : c \in Taken} = CallsRun(Taken)
    BY <1>3 DEF CallsRun
  <2> QED
    BY <2>1, <1>3, <1>4
<1>5. ASSUME NEW c \in Calls \ Taken, Taken' = Taken \cup {c}, ran' = ran, asked[c] = ran[c],
             usage' = [tool_calls |-> usage.tool_calls + asked[c], llm_calls |-> usage.llm_calls + 1]
      PROVE  /\ usage'.tool_calls = Cardinality(UNION {{d} \X (1 .. ran'[d]) : d \in Taken'})
             /\ usage'.llm_calls = Cardinality(Taken')
  <2>1. Cardinality(CallsRun(Taken \cup {c})) = Cardinality(CallsRun(Taken)) + ran[c]
    BY <1>1, <1>2, OneMoreInvocation
  <2>2. Cardinality(Taken \cup {c}) = Cardinality(Taken) + 1
    BY <1>1, FS_AddElement
  <2>3. UNION {{d} \X (1 .. ran'[d]) : d \in Taken'} = CallsRun(Taken \cup {c})
    BY <1>5 DEF CallsRun
  <2>4. usage'.tool_calls = usage.tool_calls + ran[c] /\ usage'.llm_calls = usage.llm_calls + 1
    BY <1>5
  <2> QED
    BY <2>1, <2>2, <2>3, <2>4, <1>3, <1>5
<1> QED
  BY <1>4, <1>5, TakenStep

-----------------------------------------------------------------------------
(* The theorems.                                                            *)

Inv ==
  /\ TypeOK /\ Fresh /\ Counted /\ Waited /\ OverSettled /\ AnalysisFirst /\ Confined
  /\ Booked /\ UsageExact

LEMMA InductiveInvariant == Spec => []Inv
<1>1. Init => Inv
  <2> SUFFICES ASSUME Init PROVE Inv
    OBVIOUS
  <2>1. TypeOK
    <3>1. /\ thread \in [Calls -> {"idle"} \cup Running \cup Ended]
          /\ branch \in [Calls -> {"none", "waiting", "killed"} \cup Settled]
      BY DEF Init
    <3>2. /\ used \in [Calls -> Nat] /\ asked \in [Calls -> Nat] /\ ran \in [Calls -> Nat]
          /\ due \in [Calls -> 0 .. Batch]
      BY ConstantTypes DEF Init
    <3>3. /\ changed \in SUBSET {"repo", "work", "artifacts", "skills"}
          /\ flag \in BOOLEAN /\ over \in BOOLEAN /\ killed \in BOOLEAN
          /\ usage \in [tool_calls : Nat, llm_calls : Nat]
      BY DEF Init
    <3> QED
      BY <3>1, <3>2, <3>3 DEF TypeOK
  <2>2. Fresh /\ Counted /\ Waited
    BY ConstantTypes DEF Init, Fresh, Counted, Waited, Running
  <2>3. OverSettled /\ AnalysisFirst /\ Confined
    BY ConstantTypes DEF Init, OverSettled, AnalysisFirst, Confined
  <2>4. Booked
    BY DEF Init, Booked, Ended
  <2>5. UsageExact
    <3>1. Taken = {}
      BY DEF Init, Taken
    <3>2. CallsRun({}) = {}
      BY DEF CallsRun
    <3> QED
      BY <3>1, <3>2, FS_EmptySet DEF Init, UsageExact
  <2> QED
    BY <2>1, <2>2, <2>3, <2>4, <2>5 DEF Inv
<1>2. Inv /\ [Next]_vars => Inv'
  BY TypeStep, FreshStep, CountedStep, WaitedStep, OverSettledStep, AnalysisFirstStep, ConfinedStep,
     BookedStep, UsageStep
  DEF Inv
<1> QED
  BY <1>1, <1>2, PTL DEF Spec

\* The state of the invocations keeps its types, for any budget and batches.
THEOREM TypeCorrect == Spec => []TypeOK
<1>1. Inv => TypeOK
  BY DEF Inv
<1> QED
  BY <1>1, InductiveInvariant, PTL

\* ToolBudgetMiddleware lets max_tool_calls run per invocation, never more, and
\* refuses one only after them, for any budget and any parallel batches.
THEOREM BudgetHolds == Spec => []BudgetExact
<1>1. Inv => BudgetExact
  BY ConstantTypes DEF Inv, Counted, BudgetExact, TypeOK
<1> QED
  BY <1>1, InductiveInvariant, PTL

\* The usage a run reports is the tool calls that ran in the invocations it counts:
\* the stream shows each call once, and none is lost when others are refused or fail.
THEOREM UsageIsExact == Spec => []UsageExact
<1>1. Inv => UsageExact
  BY DEF Inv
<1> QED
  BY <1>1, InductiveInvariant, PTL

\* What a run can be charged for is bounded: one model session per invocation, and for
\* each at most MAX_TOOL_CALLS tool calls.
THEOREM UsageBounded ==
  Spec => [](/\ usage.tool_calls <= Cardinality(Calls) * Budget
             /\ usage.llm_calls <= Cardinality(Calls))
<1>1. Inv => usage.tool_calls <= Cardinality(Calls) * Budget /\ usage.llm_calls <= Cardinality(Calls)
  <2> SUFFICES ASSUME Inv
               PROVE  usage.tool_calls <= Cardinality(Calls) * Budget /\ usage.llm_calls <= Cardinality(Calls)
    OBVIOUS
  <2>1. Taken \in SUBSET Calls
    BY DEF Taken
  <2>2. Cardinality(CallsRun(Taken)) <= Cardinality(Calls) * Budget
    BY <2>1, CallsRunBound DEF Inv
  <2>3. Cardinality(Taken) <= Cardinality(Calls)
    BY <2>1, AgentCallsAssumption, FS_Subset
  <2> QED
    BY <2>2, <2>3 DEF Inv, UsageExact
<1> QED
  BY <1>1, InductiveInvariant, PTL

\* default_permissions and the routes of build_backend_with_skills together keep the
\* checkout and the skills as they are; _analyze asks for its hand-off first.
THEOREM InputsStay == Spec => []InputsKept
<1>1. Inv => InputsKept
  BY DEF Inv, Fresh, AnalysisFirst, Confined, InputsKept, HandOff, TypeOK
<1> QED
  BY <1>1, InductiveInvariant, PTL

\* Only the wall clock limit and a shutdown leave threads of a run behind: gather()
\* waits for the others, the cancelled ones too.
THEOREM ThreadsAreAwaited == Spec => []NothingLeftRunning
<1>1. Inv => NothingLeftRunning
  BY DEF Inv, Waited, OverSettled, NothingLeftRunning
<1> QED
  BY <1>1, InductiveInvariant, PTL
=============================================================================
