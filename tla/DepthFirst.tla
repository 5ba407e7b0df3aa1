----------------------------- MODULE DepthFirst -----------------------------
(***************************************************************************)
(* The depth-first search for a cycle, which _has_cycle does among the     *)
(* revisions of a repository and PlanValidator among the steps of a plan.  *)
(* below[v] lists what v leads to: the parents of a revision, the          *)
(* dependencies of a step.  An id that is unknown leads nowhere.           *)
(*                                                                         *)
(* A node is active while its search is under way and done afterwards;     *)
(* what the code calls visited is both here and done alone there, and as   *)
(* it asks first whether a node is active, this comes to the same.         *)
(***************************************************************************)
EXTENDS Naturals, Sequences, FiniteSets

Call(V) == [node : V, active : SUBSET V, done : SUBSET V]

(* One node after the other is visited, up to the first cycle.             *)
VisitEach(visit, vs, active, done) ==
  LET found[n \in 0 .. Len(vs)] ==
        IF n = 0 THEN [cyclic |-> FALSE, done |-> done]
        ELSE LET before == found[n - 1] IN
             IF before.cyclic THEN before
             ELSE visit[[node |-> vs[n], active |-> active, done |-> before.done]]
  IN found[Len(vs)]

(* Fault: what was visited before is not asked whether it is active.       *)
VisitingOnce(below, visit) ==
  [call \in Call(DOMAIN below) |->
     IF call.node \in call.done THEN [cyclic |-> FALSE, done |-> call.done]
     ELSE VisitEach(visit, below[call.node], call.active \union {call.node},
                    call.done \union {call.node})]

(* One call of visit, given what the calls do that are nested in it.       *)
Visiting(below, visit) ==
  [call \in Call(DOMAIN below) |->
     IF call.node \in call.active THEN [cyclic |-> TRUE, done |-> call.done]
     ELSE IF call.node \in call.done THEN [cyclic |-> FALSE, done |-> call.done]
     ELSE LET found == VisitEach(visit, below[call.node],
                                 call.active \union {call.node}, call.done) IN
          [cyclic |-> found.cyclic, done |-> found.done \union {call.node}]]

(* Each nested call makes one more node active, so that calls are nested   *)
(* no deeper than there are nodes: the last would meet an active node.     *)
Visit(below) ==
  LET size == Cardinality(DOMAIN below)
      visit[depth \in 0 .. size] ==
        IF depth = 0
        THEN [call \in Call(DOMAIN below) |-> [cyclic |-> TRUE, done |-> call.done]]
        ELSE Visiting(below, visit[depth - 1])
  IN visit[size]

HasCycle(below, vs) == VisitEach(Visit(below), vs, {}, {}).cyclic
=============================================================================
