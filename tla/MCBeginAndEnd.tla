--------------------------- MODULE MCBeginAndEnd ---------------------------
(* What a run begins with, its request (RunCreation), the revisions of its *)
(* repository (RevisionGraph) and a proposed plan (PlanValidator); and what *)
(* it ends with, its evidence (Evidence).  They do not interact; a         *)
(* behaviour has one of them as its subject and leaves the others as they  *)
(* begin.                                                                  *)
EXTENDS RunCreation, RevisionGraph, PlanValidator, Evidence, TLC

VARIABLE subject

MCCatalog == <<"PROVISION_SHADOW_DB", "UPGRADE_BASELINE",
               "APPLY_TARGET_MIGRATIONS">>

(* The second action prints what the first did, and observes something too. *)
MCOutput ==
  <<{[kind |-> "STDERR", content |-> "a"]},
    {[kind |-> "STDERR", content |-> "b"], [kind |-> "OBSERVATION", content |-> "b"],
     [kind |-> "OBSERVATION", content |-> "a"]}>>

AnyRequest == CHOOSE r \in Request : TRUE

Symmetry == Permutations(Client) \union Permutations(Worker)

Init ==
  /\ subject \in {"create", "graph", "plan", "evidence"}
  /\ CreationInit /\ GraphInit /\ PlanInit /\ EvidenceInit
  /\ subject # "create" => \A c \in Client : asked[c] = AnyRequest
  /\ subject # "graph" => reasons = {}

CreateRun ==
  /\ subject = "create"
  /\ Create
  /\ UNCHANGED <<subject, graphVars, planVars, evidenceVars>>

DiscoverGraph ==
  /\ subject = "graph"
  /\ Discover
  /\ UNCHANGED <<subject, creationVars, planVars, evidenceVars>>

AdmitPlan ==
  /\ subject = "plan"
  /\ Plan
  /\ UNCHANGED <<subject, creationVars, graphVars, evidenceVars>>

TakeEvidence ==
  /\ subject = "evidence"
  /\ EvidenceNext
  /\ UNCHANGED <<subject, creationVars, graphVars, planVars>>

Next == CreateRun \/ DiscoverGraph \/ AdmitPlan \/ TakeEvidence

Spec ==
  /\ Init
  /\ [][Next]_<<subject, creationVars, graphVars, planVars, evidenceVars>>
=============================================================================
