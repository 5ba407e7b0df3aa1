--------------------------- MODULE MCRunExecution ---------------------------
(* Model-checking instances of RunExecution.                               *)
EXTENDS RunExecution, TLC

(* A short main path: every stage between QUEUED and COMPLETED behaves     *)
(* alike here, so two successors show a stage followed by the last one.    *)
ShortPath == <<"QUEUED", "DISCOVERING", "COMPLETED">>

(* Some token is fresh however many workers keep one of a step row.        *)
ASSUME EnoughTokens == Cardinality(Token) > Cardinality(Worker)

Symmetry == Permutations(Worker) \union Permutations(Token)
=============================================================================
