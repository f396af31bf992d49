------------------------------ MODULE MCSocial ------------------------------
(* Instances of Social for TLC. *)
EXTENDS Social

\* "AAA", "aaa!", "b" and "--": two texts have the same slug, and one has none.
MCTexts ==
  {<<[word |-> "aaa", caps |-> TRUE]>>,
   <<[word |-> "aaa", caps |-> FALSE], Empty>>,
   <<[word |-> "b", caps |-> FALSE]>>,
   <<Empty, Empty>>}
==============================================================================
