----------------------------- MODULE IndexStore ------------------------------
(***************************************************************************)
(* What the knowledge base promises about its table of chunks.             *)
(*                                                                         *)
(* A writer gathers the items of a run without touching the table.  Then   *)
(* it replaces what the table holds of that run by what it has gathered,   *)
(* in one step: of items with the same identifier the last one counts, and *)
(* the items of other runs stay.  From then on until it is finished it is  *)
(* the only one who uses the table.  A run can be erased.  When the        *)
(* process dies, a replacement that was not finished may be left with only *)
(* the first of its items: the promise cannot be more, because the         *)
(* database commits them one by one.                                       *)
(***************************************************************************)
EXTENDS Naturals, Sequences

CONSTANT Writers

VARIABLES
  items,      \* the table
  gathered    \* gathered[w]: the run w works for, what it has read of it, is it stored

storevars == <<items, gathered>>

NoWork == [run |-> "none", read |-> <<>>, stored |-> FALSE]

\* The primary key.
SameItem(c, d) ==
  /\ c.run = d.run
  /\ c.kind = d.kind
  /\ c.locator = d.locator
  /\ c.title = d.title

\* What stays of the first n items of a sequence: of the same ones the last.
Latest(s, n) ==
  {s[i] : i \in {i \in 1 .. n : \A j \in 1 .. n : SameItem(s[j], s[i]) => j <= i}}

Others(r) == {c \in items : c.run # r}

\* Nobody is between the replacement and its end.
Unused == \A w \in Writers : ~gathered[w].stored

Init ==
  /\ items = {}
  /\ gathered = [w \in Writers |-> NoWork]

\* A writer begins, reads on, or gives up.
Gather(w) ==
  /\ ~gathered[w].stored
  /\ gathered' = [gathered EXCEPT ![w] = gathered'[w]]
  /\ ~gathered'[w].stored
  /\ UNCHANGED items

Replace(w) ==
  /\ Unused
  /\ items' = Others(gathered[w].run) \cup Latest(gathered[w].read, Len(gathered[w].read))
  /\ gathered' = [gathered EXCEPT ![w].stored = TRUE]

Finish(w) ==
  /\ gathered[w].stored
  /\ gathered' = [gathered EXCEPT ![w] = NoWork]
  /\ UNCHANGED items

Erase(r) ==
  /\ Unused
  /\ items' = Others(r)
  /\ UNCHANGED gathered

Crash ==
  /\ \/ UNCHANGED items
     \/ \E w \in Writers : \E n \in 0 .. Len(gathered[w].read) :
          /\ gathered[w].stored
          /\ items' = Others(gathered[w].run) \cup Latest(gathered[w].read, n)
  /\ gathered' = [w \in Writers |-> NoWork]

Next ==
  \/ \E w \in Writers : Gather(w) \/ Replace(w) \/ Finish(w)
  \/ \E r \in {c.run : c \in items} : Erase(r)
  \/ Crash

Spec == Init /\ [][Next]_storevars
=============================================================================
