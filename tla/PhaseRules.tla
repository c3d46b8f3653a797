----------------------------- MODULE PhaseRules ------------------------------
(***************************************************************************)
(* How a run may go through its phases and what it may come to: what       *)
(* RunLifecycle, which leaves open what the phases do, and Deliverables,   *)
(* which is what four of them do, have to agree on.                        *)
(*                                                                         *)
(* Up to the analysis a run is "early"; then come four late phases, in     *)
(* their order; the first of them may be passed over.  A run completes     *)
(* after the last one only.  It can fail at any point, and be cancelled    *)
(* only where it awaits something.  How it has ended is decided once, when *)
(* it ends, and known until it is closed.                                  *)
(***************************************************************************)
CONSTANT Runs

VARIABLES
  at,        \* at[r]: "early", one of the late phases, "ended" or "closed"
  verdict    \* verdict[r]: how r has ended, "none" before and after

rulevars == <<at, verdict>>

Following == [early |-> {"generate", "validate"}, generate |-> {"validate"},
              validate |-> {"archive"}, archive |-> {"kb"}]

Interruptible == {"early", "generate", "kb"}

Init ==
  /\ at = [r \in Runs |-> "early"]
  /\ verdict = [r \in Runs |-> "none"]

Proceed(r) ==
  /\ at[r] \in DOMAIN Following
  /\ \E next \in Following[at[r]] : at' = [at EXCEPT ![r] = next]
  /\ UNCHANGED verdict

End(r, v) ==
  /\ at' = [at EXCEPT ![r] = "ended"]
  /\ verdict' = [verdict EXCEPT ![r] = v]

Complete(r) ==
  /\ at[r] = "kb"
  /\ End(r, "completed")

\* An error, or the wall clock limit.
Fail(r) ==
  /\ at[r] \notin {"ended", "closed"}
  /\ End(r, "failed")

Cancel(r) ==
  /\ at[r] \in Interruptible
  /\ End(r, "cancelled")

\* The outcome is recorded.
Record(r) ==
  /\ at[r] = "ended"
  /\ at' = [at EXCEPT ![r] = "closed"]
  /\ verdict' = [verdict EXCEPT ![r] = "none"]

\* The service begins to stop; some runs have not begun, and never will.
Stop ==
  /\ \E S \in SUBSET {r \in Runs : at[r] = "early"} :
       at' = [r \in Runs |-> IF r \in S THEN "closed" ELSE at[r]]
  /\ UNCHANGED verdict

\* The process is gone, and every run it was executing.
Gone ==
  /\ \E S \in SUBSET {r \in Runs : at[r] = "early"} :
       at' = [r \in Runs |-> IF r \in S THEN "early" ELSE "closed"]
  /\ verdict' = [r \in Runs |-> "none"]

Next ==
  \/ \E r \in Runs : Proceed(r) \/ Complete(r) \/ Fail(r) \/ Cancel(r) \/ Record(r)
  \/ Stop
  \/ Gone

Spec == Init /\ [][Next]_rulevars
=============================================================================
