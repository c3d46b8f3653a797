-------------------------- MODULE MCKnowledgeIndex --------------------------
(***************************************************************************)
(* Small instances of KnowledgeIndex for TLC.                              *)
(***************************************************************************)
EXTENDS KnowledgeIndex, TLC

Names == {"a", "b"}

Empty == [k \in Kinds |-> <<>>]

\* A run without deliverables; a document and a workbook, whose rows have the same
\* title; a document with the same heading twice.
Documents ==
  {[Empty EXCEPT !["analysis"] = <<"a">>],
   [Empty EXCEPT !["fdd"] = <<"a", "b">>, !["test_case"] = <<"a", "a">>],
   [Empty EXCEPT !["analysis"] = <<"b">>, !["fdd"] = <<"a", "a">>]}

ThreadSymmetry == Permutations(Reindexers)
=============================================================================
