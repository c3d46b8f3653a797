------------------------------ MODULE EventLog ------------------------------
(***************************************************************************)
(* What the event stream of one run promises a client of the service.      *)
(*                                                                         *)
(* A run has a log that only grows.  A client owns a position in it, its   *)
(* Last-Event-ID, which moves forward only and only onto an entry that is  *)
(* already in the log.  Whether it may jump over entries is left open: the *)
(* code lets it (see NoGap in EventBus), so the promise cannot forbid it.  *)
(***************************************************************************)
EXTENDS Naturals

CONSTANT Clients

VARIABLES
  size,       \* number of entries the log of the run holds
  position    \* position[c]: the last entry client c has received, 0 at first

logvars == <<size, position>>

Init ==
  /\ size = 0
  /\ position = [c \in Clients |-> 0]

Extend ==
  /\ size' = size + 1
  /\ UNCHANGED position

Advance(c) ==
  /\ \E n \in position[c] + 1 .. size : position' = [position EXCEPT ![c] = n]
  /\ UNCHANGED size

Next ==
  \/ Extend
  \/ \E c \in Clients : Advance(c)

Spec == Init /\ [][Next]_logvars
=============================================================================
