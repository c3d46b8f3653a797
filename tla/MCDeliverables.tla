--------------------------- MODULE MCDeliverables ---------------------------
(***************************************************************************)
(* Small instances of Deliverables for TLC: the three kinds of the code    *)
(* and the requests that make a difference.                                *)
(***************************************************************************)
EXTENDS Deliverables

Catalogue == <<"fdd", "test_case", "data_mapping">>

Text == {"fdd"}

\* Nothing, one deliverable, the workbooks only, everything (the default).
Usual == {<<>>, <<"fdd">>, <<"test_case", "data_mapping">>, Catalogue}
=============================================================================
