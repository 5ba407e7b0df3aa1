----------------------------- MODULE MCEvidence -----------------------------
(* A model-checking instance of Evidence.                                  *)
EXTENDS Evidence, Sequences

(* The second action prints what the first did, and observes something too. *)
MCOutput ==
  <<{[kind |-> "STDERR", content |-> "a"]},
    {[kind |-> "STDERR", content |-> "b"], [kind |-> "OBSERVATION", content |-> "b"],
     [kind |-> "OBSERVATION", content |-> "a"]}>>
=============================================================================
