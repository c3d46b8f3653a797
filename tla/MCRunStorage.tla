----------------------------- MODULE MCRunStorage -----------------------------
(***************************************************************************)
(* Instances of RunStorage for TLC.  Two callers: one whose X-API-Key is   *)
(* wrong and whose bearer token is right, one with a key behind a proxy.   *)
(***************************************************************************)
EXTENDS RunStorage, TLC

const_KeyMap == "root" :> "admin"

Sent(x, b, i) == [x_api_key |-> x, bearer |-> b, identity |-> i]

const_Headers == {Sent("guess", "root", None), Sent(None, "root", "user")}

RequestSymmetry == Permutations(Requests)
=============================================================================
