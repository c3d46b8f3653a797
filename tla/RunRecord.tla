----------------------------- MODULE RunRecord ------------------------------
(***************************************************************************)
(* What the service promises about the outcome of a run, whatever happens  *)
(* while it executes.                                                      *)
(*                                                                         *)
(* A run that is accepted gets a row and is open.  It is decided once: the *)
(* outcome is told to whoever reads the journal, then it is recorded in    *)
(* the row, and the run is closed.  The process can go away before either; *)
(* then the next one records a failure for whatever has no outcome.  Only  *)
(* a run that somebody asked to stop is decided to be cancelled.           *)
(*                                                                         *)
(* A row can be deleted at any time, also before the outcome is recorded,  *)
(* which brings it back: the promise cannot forbid that, because the code  *)
(* does it (see DeletedStaysDeleted in RunLifecycle).                      *)
(***************************************************************************)
CONSTANT Runs

VARIABLES
  stage,     \* stage[r]: "new", "open", "decided" or "closed"
  verdict,   \* verdict[r]: the outcome of a decided run, "none" of the others
  told,      \* told[r]: the outcomes of r that the journal holds
  row,       \* row[r]: what the database says of r
  asked      \* the runs that a user or a shutdown asked to stop

recordvars == <<stage, verdict, told, row, asked>>

Outcomes == {"completed", "failed", "cancelled"}

InFlight == {r \in Runs : stage[r] \in {"open", "decided"}}

Init ==
  /\ stage = [r \in Runs |-> "new"]
  /\ verdict = [r \in Runs |-> "none"]
  /\ told = [r \in Runs |-> {}]
  /\ row = [r \in Runs |-> "absent"]
  /\ asked = {}

Accept(r) ==
  /\ stage[r] = "new"
  /\ stage' = [stage EXCEPT ![r] = "open"]
  /\ row' = [row EXCEPT ![r] = "queued"]
  /\ UNCHANGED <<verdict, told, asked>>

\* A user asks for a run to be stopped, not always in time.
Ask(r) ==
  /\ stage[r] # "new"
  /\ asked' = asked \cup {r}
  /\ UNCHANGED <<stage, verdict, told, row>>

\* The only word the journal ever has on the outcome.
Tell(r) ==
  /\ stage[r] = "open"
  /\ stage' = [stage EXCEPT ![r] = "decided"]
  /\ \E s \in Outcomes :
       /\ s = "cancelled" => r \in asked
       /\ verdict' = [verdict EXCEPT ![r] = s]
       /\ told' = [told EXCEPT ![r] = {s}]
  /\ UNCHANGED <<row, asked>>

\* The row gets the outcome that was told.
Settle(r) ==
  /\ stage[r] = "decided"
  /\ stage' = [stage EXCEPT ![r] = "closed"]
  /\ verdict' = [verdict EXCEPT ![r] = "none"]
  /\ row' = [row EXCEPT ![r] = verdict[r]]
  /\ UNCHANGED <<told, asked>>

DeleteRow(r) ==
  /\ row' = [row EXCEPT ![r] = "absent"]
  /\ UNCHANGED <<stage, verdict, told, asked>>

DeleteJournal(r) ==
  /\ told' = [told EXCEPT ![r] = {}]
  /\ UNCHANGED <<stage, verdict, row, asked>>

\* A shutdown asks every run in flight to stop; some of them never began.
Interrupt ==
  /\ asked' = asked \cup InFlight
  /\ \E S \in SUBSET {r \in Runs : stage[r] = "open"} :
       stage' = [r \in Runs |-> IF r \in S THEN "closed" ELSE stage[r]]
  /\ UNCHANGED <<verdict, told, row>>

\* The process is gone, and with it what it was about to record.
Abandon ==
  /\ stage' = [r \in Runs |-> IF r \in InFlight THEN "closed" ELSE stage[r]]
  /\ verdict' = [r \in Runs |-> "none"]
  /\ UNCHANGED <<told, row, asked>>

\* The next process closes the books of the last one.
Recover ==
  /\ InFlight = {}
  /\ row' = [r \in Runs |-> IF row[r] = "queued" THEN "failed" ELSE row[r]]
  /\ UNCHANGED <<stage, verdict, told, asked>>

Next ==
  \/ \E r \in Runs :
       Accept(r) \/ Ask(r) \/ Tell(r) \/ Settle(r) \/ DeleteRow(r) \/ DeleteJournal(r)
  \/ Interrupt
  \/ Abandon
  \/ Recover

Spec == Init /\ [][Next]_recordvars
=============================================================================
