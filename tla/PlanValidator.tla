--------------------------- MODULE PlanValidator ----------------------------
(***************************************************************************)
(* PlanValidator.validate: whether a plan that a language model proposed   *)
(* is one the system may execute.  The plan is any sequence of steps that  *)
(* the contract PlanStepV1 admits.  Step ids are numbers in the order of   *)
(* their first appearance.                                                 *)
(***************************************************************************)
EXTENDS DepthFirst, SequencesExt

CONSTANTS
  Catalog,   \* the capabilities; each but the first requires the one before
  MaxSteps,  \* bound of the model: steps of a plan (32 in the contract)
  MaxDepends \* bound of the model: dependencies of a step (16)

ASSUME CatalogAssumption ==
  Catalog \in Seq(ToSet(Catalog)) /\ IsInjective(Catalog)

ASSUME StepsAssumption == MaxSteps \in Nat /\ MaxDepends \in Nat

VARIABLES
  steps,    \* the steps proposed so far
  verdict   \* the codes of the errors, once the plan is validated

planVars == <<steps, verdict>>

-----------------------------------------------------------------------------

(* The last number is the id of no step.                                   *)
StepId == 1 .. MaxSteps + 1

Capability == ToSet(Catalog)

(* The order of the dependencies is immaterial.                            *)
Dependencies ==
  {d \in UNION {[1 .. n -> StepId] : n \in 0 .. MaxDepends} :
     \A i, j \in DOMAIN d : i < j => d[i] < d[j]}

(* within: required, with an admissible timeout and evidence.              *)
Step == [id : 1 .. MaxSteps, capability : Capability,
         depends_on : Dependencies, within : BOOLEAN]

NotValidated == [status |-> "proposing", errors |-> {}]

PlanInit == steps = <<>> /\ verdict = NotValidated

(* A step that is not within its limits is tried without dependencies.     *)
ProposeStep(step) ==
  /\ verdict.status = "proposing"
  /\ Len(steps) < MaxSteps
  /\ step.within \/ step.depends_on = <<>>
  /\ \A n \in 1 .. step.id - 1 : \E i \in DOMAIN steps : steps[i].id = n
  /\ steps' = Append(steps, step)
  /\ UNCHANGED verdict

-----------------------------------------------------------------------------
(* by_id and by_capability: of several steps with one key the last stays.  *)

LastOf(indices) == CHOOSE i \in indices : \A j \in indices : j <= i

IdOf == {steps[i].id : i \in DOMAIN steps}
ById(id) == steps[LastOf({i \in DOMAIN steps : steps[i].id = id})]

CapabilitiesOf == {steps[i].capability : i \in DOMAIN steps}
ByCapability(c) == steps[LastOf({i \in DOMAIN steps : steps[i].capability = c})]

Prerequisites(c) == {Catalog[i] : i \in {j \in DOMAIN Catalog :
                       j < Len(Catalog) /\ Catalog[j + 1] = c}}

HasPlanCycle ==
  HasCycle([id \in StepId |-> IF id \in IdOf THEN ById(id).depends_on ELSE <<>>],
           [i \in DOMAIN steps |-> steps[i].id])

(* One round of _ancestor_capabilities: the last that is pending is popped. *)
Popped(search) ==
  LET id == Last(search.pending)
      rest == Front(search.pending) IN
  IF id \notin IdOf \/ ById(id).capability \in search.found
  THEN [search EXCEPT !.pending = rest]
  ELSE [pending |-> rest \o ById(id).depends_on,
        found |-> search.found \union {ById(id).capability}]

(* Dependencies are appended once for each capability that is found, so    *)
(* that no more rounds are needed.                                         *)
AncestorCapabilities(id) ==
  LET rounds == MaxDepends * (Cardinality(Capability) + 1)
      search[n \in 0 .. rounds] ==
        IF n = 0 THEN [pending |-> ById(id).depends_on, found |-> {}]
        ELSE LET before == search[n - 1] IN
             IF before.pending = <<>> THEN before ELSE Popped(before)
  IN search[rounds].found

(* Fault: the capability need only be somewhere in the plan.               *)
PrerequisiteInPlan(c) == Prerequisites(c) \subseteq CapabilitiesOf

PrerequisitesMet(c) ==
  Prerequisites(c) \subseteq AncestorCapabilities(ByCapability(c).id)

-----------------------------------------------------------------------------

Error(condition, code) == IF condition THEN {code} ELSE {}

Errors ==
  Error(Cardinality(IdOf) # Len(steps), "DUPLICATE_STEP_ID")
  \union Error(Cardinality(CapabilitiesOf) # Len(steps), "DUPLICATE_CAPABILITY")
  \union Error(~ (Capability \subseteq CapabilitiesOf),
            "MANDATORY_CAPABILITY_MISSING")
  \union Error(\E c \in CapabilitiesOf : ~ ByCapability(c).within,
            "STEP_OUTSIDE_ITS_LIMITS")
  \union Error(\E i \in DOMAIN steps :
              \/ steps[i].id \in ToSet(steps[i].depends_on)
              \/ ~ (ToSet(steps[i].depends_on) \subseteq IdOf),
            "DEPENDENCY_INVALID")
  \union Error(HasPlanCycle, "PLAN_CYCLE")
  \union Error(\E c \in CapabilitiesOf : ~ PrerequisitesMet(c),
            "CAPABILITY_PREREQUISITE_MISSING")

Validate ==
  /\ verdict.status = "proposing" /\ steps # <<>>
  /\ verdict' = [status |-> "validated", errors |-> Errors]
  /\ UNCHANGED steps

Plan == (\E step \in Step : ProposeStep(step)) \/ Validate

PlanSpec == PlanInit /\ [][Plan]_planVars

-----------------------------------------------------------------------------

Accepted == verdict.status = "validated" /\ verdict.errors = {}

(* The orders in which the steps can be executed, each after the steps it  *)
(* depends on.                                                             *)
ExecutionOrders ==
  {p \in [DOMAIN steps -> DOMAIN steps] :
     /\ \A i, j \in DOMAIN steps : i # j => p[i] # p[j]
     /\ \A i \in DOMAIN steps :
          ToSet(steps[p[i]].depends_on) \subseteq {steps[p[j]].id : j \in 1 .. i - 1}}

(* Whatever a language model proposes, a plan is accepted exactly if its   *)
(* steps are within their limits and can be executed in one order only,    *)
(* that of the catalog, each capability once and after what it requires.   *)
AcceptedRunsTheCatalog ==
  verdict.status = "validated" =>
    (Accepted <=>
       /\ \A i \in DOMAIN steps : steps[i].within
       /\ Cardinality(IdOf) = Len(steps)
       /\ ExecutionOrders # {}
       /\ \A p \in ExecutionOrders :
            [i \in DOMAIN steps |-> steps[p[i]].capability] = Catalog)
=============================================================================
