------------------------------ MODULE AgentCalls ------------------------------
(***************************************************************************)
(* The agent invocations of one run: Pipeline._run_agent, the agent that   *)
(* build_agent wires up and its tool budget (agent/pipeline.py,            *)
(* agent/graph.py).                                                        *)
(*                                                                         *)
(* An invocation is a coroutine of the event loop that waits for a worker  *)
(* thread.  The thread consumes the agent's stream: the model answers, or  *)
(* asks for a batch of tool calls, which the library runs in parallel; at  *)
(* every event of the stream the thread looks at the cancel flag.  The     *)
(* analysis comes first, then the deliverables, all at the same time (that *)
(* a semaphore lets in max_parallel_artifacts of them is in Deliverables). *)
(*                                                                         *)
(* The wall clock limit and a shutdown cancel the coroutine, and nothing   *)
(* cancels a thread: it goes on until its stream ends or it sees the flag. *)
(***************************************************************************)
EXTENDS Naturals, FiniteSets

CONSTANTS
  Calls,     \* the invocations of the run
  Analysis,  \* the first of them
  Budget,    \* MAX_TOOL_CALLS
  Batch,     \* bound: tool calls the model asks for at a time
  Skills     \* is there a skill library to mount

ASSUME AgentCallsAssumption ==
  /\ IsFiniteSet(Calls)
  /\ Analysis \in Calls
  /\ Budget \in Nat
  /\ Batch \in Nat
  /\ Skills \in BOOLEAN

VARIABLES
  thread,   \* thread[c]: where the worker thread of invocation c is
  used,     \* used[c]: the middleware's count
  due,      \* due[c]: tool calls asked for that have not begun
  asked,    \* asked[c]: tool calls asked for, which the stream has shown
  ran,      \* ran[c]: tool calls that ran
  branch,   \* branch[c]: what the coroutine knows
  changed,  \* areas of the run directory the agents wrote in
  flag,     \* the cancel flag
  over,     \* the run has its outcome
  killed,   \* it ended by the wall clock limit or a shutdown
  usage     \* the tool calls and invocations counted for the run

agent == <<thread, used, due, asked, ran, changed>>
run == <<flag, over, killed>>
vars == <<agent, branch, run, usage>>

Running == {"model", "tools", "failing", "stopping"}
Ended == {"answered", "raised", "stopped"}
Settled == {"done", "failed", "cancelled"}

\* Virtual paths the tools may name; "other" is any path without a route.
Paths == {"repo", "work", "artifacts", "skills", "other"}

\* build_backend_with_skills: the prefixes that have a route; the others are
\* looked up in the default backend, which is the work area.
Routes == {"repo", "work", "artifacts"} \cup (IF Skills THEN {"skills"} ELSE {})
Area(p) == IF p \in Routes THEN p ELSE "work"

\* Mutant: the rule names a path that no virtual path begins with.
MayWriteMutant(p) == p # "skills"

\* default_permissions, which look at the virtual path.
MayWrite(p) == p \notin {"repo", "skills"}

Init ==
  /\ thread = [c \in Calls |-> "idle"]
  /\ used = [c \in Calls |-> 0]
  /\ due = [c \in Calls |-> 0]
  /\ asked = [c \in Calls |-> 0]
  /\ ran = [c \in Calls |-> 0]
  /\ branch = [c \in Calls |-> "none"]
  /\ changed = {}
  /\ flag = FALSE
  /\ over = FALSE
  /\ killed = FALSE
  /\ usage = [tool_calls |-> 0, llm_calls |-> 0]

-----------------------------------------------------------------------------
(* The event loop.                                                          *)

MayStart(c) ==
  /\ ~over
  /\ branch[c] = "none"
  /\ c # Analysis => branch[Analysis] = "done"

\* A deliverable looks at the flag first, the analysis does not.
Stops(c) == flag /\ c # Analysis

\* build_agent and the hand-over to a thread.
Start(c) ==
  /\ MayStart(c)
  /\ ~Stops(c)
  /\ branch' = [branch EXCEPT ![c] = "waiting"]
  /\ thread' = [thread EXCEPT ![c] = "model"]
  /\ used' = [used EXCEPT ![c] = 0]
  /\ UNCHANGED <<due, asked, ran, changed, run, usage>>

\* _check_cancel raises, or the agent cannot be built.
StartFails(c) ==
  /\ MayStart(c)
  /\ branch' = [branch EXCEPT ![c] = IF Stops(c) THEN "cancelled" ELSE "failed"]
  /\ UNCHANGED <<agent, run, usage>>

\* The analysis has to have left its hand-off in the work area.
HandOff == "work" \in changed

\* The coroutine gets the thread's result.  What an answer is good for is known
\* only then.
Settle(c) ==
  /\ ~over
  /\ branch[c] = "waiting"
  /\ thread[c] \in Ended
  /\ \E b \in (CASE thread[c] = "stopped" -> {"cancelled"}
                 [] thread[c] = "raised" -> {"failed"}
                 [] OTHER -> {"done", "failed"}) :
       /\ b = "done" /\ c = Analysis => HandOff
       /\ branch' = [branch EXCEPT ![c] = b]
  /\ usage' = IF thread[c] = "answered"
                THEN [tool_calls |-> usage.tool_calls + asked[c], llm_calls |-> usage.llm_calls + 1]
                ELSE usage
  /\ UNCHANGED <<agent, run>>

\* Mutant: gather() gives up at the first branch that is cancelled.
FinishMutant ==
  /\ ~over
  /\ \/ \E c \in Calls : branch[c] = "cancelled"
     \/ branch[Analysis] = "failed"
     \/ \A c \in Calls : branch[c] \in Settled
  /\ over' = TRUE
  /\ UNCHANGED <<agent, branch, flag, killed, usage>>

\* The analysis raised, or gather() is complete.
Finish ==
  /\ ~over
  /\ \/ branch[Analysis] \in {"failed", "cancelled"}
     \/ \A c \in Calls : branch[c] \in Settled
  /\ over' = TRUE
  /\ UNCHANGED <<agent, branch, flag, killed, usage>>

\* Mutant: what is interrupted gets a status of its own, which nothing else knows.
KillMutant(why) ==
  /\ ~over
  /\ \E c \in Calls : branch[c] = "waiting"
  /\ over' = TRUE
  /\ killed' = TRUE
  /\ flag' = (flag \/ why = "shutdown")
  /\ branch' = [c \in Calls |-> IF branch[c] = "waiting" THEN "interrupted" ELSE branch[c]]
  /\ UNCHANGED <<agent, usage>>

\* The wall clock limit, or a shutdown, which sets the flag too, while the run
\* waits for its threads.
Kill(why) ==
  /\ ~over
  /\ \E c \in Calls : branch[c] = "waiting"
  /\ over' = TRUE
  /\ killed' = TRUE
  /\ flag' = (flag \/ why = "shutdown")
  /\ branch' = [c \in Calls |-> IF branch[c] = "waiting" THEN "killed" ELSE branch[c]]
  /\ UNCHANGED <<agent, usage>>

\* Accepted while the run is not over: then its flag is out of the registry.
Cancel ==
  /\ ~over
  /\ ~flag
  /\ flag' = TRUE
  /\ UNCHANGED <<agent, branch, over, killed, usage>>

-----------------------------------------------------------------------------
(* The worker thread and the threads of the tools it runs.                  *)

\* The model ends its turn with a text, or the client gives up (timeout, retries).
\* The flag is looked at before the event is used.
Answer(c) ==
  /\ thread[c] = "model"
  /\ \E t \in {"raised", IF flag THEN "stopped" ELSE "answered"} :
       thread' = [thread EXCEPT ![c] = t]
  /\ UNCHANGED <<used, due, asked, ran, changed, branch, run, usage>>

\* The model asks for a batch of tool calls.
Ask(c) ==
  /\ thread[c] = "model"
  /\ ~flag
  /\ \E n \in 1 .. Batch :
       /\ due' = [due EXCEPT ![c] = n]
       /\ asked' = [asked EXCEPT ![c] = @ + n]
  /\ thread' = [thread EXCEPT ![c] = "tools"]
  /\ UNCHANGED <<used, ran, changed, branch, run, usage>>

\* Where the thread is after one more call of its batch.
AfterCall(c, fails) ==
  CASE thread[c] # "tools" -> thread[c]
    [] thread[c] = "tools" /\ fails -> "failing"
    [] thread[c] = "tools" /\ ~fails /\ flag -> "stopping"
    [] OTHER -> IF due[c] = 1 THEN "model" ELSE "tools"

\* Mutant: the count is compared before it is incremented.
UseToolMutant(c) ==
  /\ due[c] > 0
  /\ used[c] <= Budget
  /\ due' = [due EXCEPT ![c] = @ - 1]
  /\ used' = [used EXCEPT ![c] = @ + 1]
  /\ ran' = [ran EXCEPT ![c] = @ + 1]
  /\ \E fails \in BOOLEAN : thread' = [thread EXCEPT ![c] = AfterCall(c, fails)]
  /\ \E p \in {"none"} \cup {q \in Paths : MayWrite(q)} :
       changed' = changed \cup (IF p = "none" THEN {} ELSE {Area(p)})
  /\ UNCHANGED <<asked, branch, run, usage>>

\* Mutant: a batch with one call left counts as complete.
UseToolEarlyMutant(c) ==
  /\ due[c] > 0
  /\ used[c] < Budget
  /\ due' = [due EXCEPT ![c] = 0]
  /\ used' = [used EXCEPT ![c] = @ + 1]
  /\ ran' = [ran EXCEPT ![c] = @ + 1]
  /\ \E fails \in BOOLEAN : thread' = [thread EXCEPT ![c] =
       IF fails \/ flag \/ thread[c] # "tools" THEN AfterCall(c, fails) ELSE "model"]
  /\ \E p \in {"none"} \cup {q \in Paths : MayWrite(q)} :
       changed' = changed \cup (IF p = "none" THEN {} ELSE {Area(p)})
  /\ UNCHANGED <<asked, branch, run, usage>>

\* A tool call within the budget: it reads, is refused a path, or writes.
\* The threads of a batch share the middleware's count without a lock.  Counting and
\* comparing are one step all the same: CPython (3.11 and later) lets another thread
\* go on at calls and backward jumps only, and _spend has none before it raises.
UseTool(c) ==
  /\ due[c] > 0
  /\ used[c] < Budget
  /\ due' = [due EXCEPT ![c] = @ - 1]
  /\ used' = [used EXCEPT ![c] = @ + 1]
  /\ ran' = [ran EXCEPT ![c] = @ + 1]
  /\ \E fails \in BOOLEAN : thread' = [thread EXCEPT ![c] = AfterCall(c, fails)]
  /\ \E p \in {"none"} \cup {q \in Paths : MayWrite(q)} :
       changed' = changed \cup (IF p = "none" THEN {} ELSE {Area(p)})
  /\ UNCHANGED <<asked, branch, run, usage>>

\* Mutant: the library turns the exception into an answer for the model.
RefuseToolMutant(c) ==
  /\ due[c] > 0
  /\ used[c] >= Budget
  /\ due' = [due EXCEPT ![c] = @ - 1]
  /\ thread' = [thread EXCEPT ![c] = AfterCall(c, FALSE)]
  /\ asked' = [asked EXCEPT ![c] = @ - 1]
  /\ UNCHANGED <<used, ran, changed, branch, run, usage>>

\* _spend raises, and the exception ends the stream.
RefuseTool(c) ==
  /\ due[c] > 0
  /\ used[c] >= Budget
  /\ due' = [due EXCEPT ![c] = @ - 1]
  /\ used' = [used EXCEPT ![c] = @ + 1]
  /\ thread' = [thread EXCEPT ![c] = AfterCall(c, TRUE)]
  /\ UNCHANGED <<asked, ran, changed, branch, run, usage>>

\* The stream is closed: calls that have not begun are dropped, the others awaited.
Close(c) ==
  /\ thread[c] \in {"failing", "stopping"}
  /\ due' = [due EXCEPT ![c] = 0]
  /\ thread' = [thread EXCEPT ![c] = IF @ = "failing" THEN "raised" ELSE "stopped"]
  /\ UNCHANGED <<used, asked, ran, changed, branch, run, usage>>

-----------------------------------------------------------------------------
Thread(c) == Answer(c) \/ Ask(c) \/ UseTool(c) \/ RefuseTool(c) \/ Close(c)
Loop == Finish \/ \E c \in Calls : Start(c) \/ StartFails(c) \/ Settle(c)

Next ==
  \/ Loop
  \/ \E c \in Calls : Thread(c)
  \/ Cancel
  \/ \E why \in {"timeout", "shutdown"} : Kill(why)

Spec == Init /\ [][Next]_vars

(* The loop is never stuck.  The model client has a request timeout and a   *)
(* number of retries, so the model's turn ends; how, is not assumed: it may *)
(* ask for tools for ever.  Tools work on local files.  Nothing is assumed  *)
(* of users, of the wall clock limit and of shutdowns.                      *)
FairSpec == Spec /\ WF_vars(Loop) /\ \A c \in Calls : WF_vars(Thread(c))

-----------------------------------------------------------------------------
(* Properties.                                                              *)

TypeOK ==
  /\ thread \in [Calls -> {"idle"} \cup Running \cup Ended]
  /\ used \in [Calls -> Nat]
  /\ due \in [Calls -> 0 .. Batch]
  /\ asked \in [Calls -> Nat]
  /\ ran \in [Calls -> Nat]
  /\ branch \in [Calls -> {"none", "waiting", "killed"} \cup Settled]
  /\ changed \in SUBSET {"repo", "work", "artifacts", "skills"}
  /\ flag \in BOOLEAN
  /\ over \in BOOLEAN
  /\ killed \in BOOLEAN
  /\ usage \in [tool_calls : Nat, llm_calls : Nat]

\* "Hard cap on tool calls", per invocation, however many calls of a batch run at
\* the same time; and a call is refused only after that many have run.
BudgetExact ==
  \A c \in Calls : ran[c] <= Budget /\ (used[c] > Budget => ran[c] = Budget)

\* The agents write neither in the checkout nor in the skill library, and no
\* deliverable is begun before the analysis left something to work from.
InputsKept ==
  /\ changed \subseteq {"work", "artifacts"}
  /\ \A c \in Calls \ {Analysis} : thread[c] # "idle" => "work" \in changed

\* The tool calls that ran in the invocations C, one by one.
CallsRun(C) == UNION {{c} \X (1 .. ran[c]) : c \in C}

\* The invocations that answered and whose answer was taken.
Taken == {c \in Calls : thread[c] = "answered" /\ branch[c] \in Settled}

\* The usage reported for a run is what ran in the invocations that answered:
\* every tool call the model was shown to ask for, and nothing twice.
UsageExact ==
  /\ usage.tool_calls = Cardinality(CallsRun(Taken))
  /\ usage.llm_calls = Cardinality(Taken)

\* A run that ends by itself or by the user's cancellation leaves no thread behind:
\* it waits for all of them, the cancelled ones too.
NothingLeftRunning ==
  over /\ ~killed => \A c \in Calls : thread[c] \notin Running

\* Every invocation ends, though nothing keeps the model from asking for one tool
\* after the other: "the run was stopped to prevent runaway cost".
ThreadsEnd == \A c \in Calls : thread[c] = "model" ~> thread[c] \in Ended

\* "MAX_WALL_SECONDS: wall-clock cap per run", without which a model "would keep
\* spending": when a run is over, no tool call of it runs any more.
SpendingEnds == [][over => ran' = ran]_vars
=============================================================================
