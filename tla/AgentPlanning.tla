--------------------------- MODULE AgentPlanning ---------------------------
(***************************************************************************)
(* The planning stage from the inside: PlanningStageHandler asks           *)
(* AgentPlanner for a plan, which gathers its context with the read-only   *)
(* tools, asks the provider, and asks once more if the first answer is no  *)
(* plan the validator accepts.  What came of it is one agent_invocations   *)
(* row and, if there is a plan, one audit_plans row.                       *)
(*                                                                         *)
(* Delivery is that of StageDelivery, for one stage and without a          *)
(* cancellation.  The context is what graph, report and snapshot of the    *)
(* run say; these rows never change, so neither does the hash of the       *)
(* input, which names invocation and plan.                                 *)
(***************************************************************************)
EXTENDS Naturals, Sequences

CONSTANTS
  PlanningWorker,  \* worker processes
  Plans,           \* answers that are plans the validator accepts
  Rejections,      \* others: too large, no JSON, not the schema, refused
  Deterministic    \* the provider answers a request always in one way

VARIABLES
  answers,     \* what the provider says at first, and what to the repair
  outcome,     \* of the run in this stage
  claimant,    \* who claimed the stage, if anybody did
  invocation,  \* the agent_invocations row of the run, or none
  plan,        \* the audit_plans row of the run, or none
  planner,     \* where each worker stands
  thoughts     \* what each worker holds in memory

planningRows == <<invocation, plan>>
planningVars == <<answers, outcome, claimant, planningRows, planner, thoughts>>

-----------------------------------------------------------------------------

Answer == Plans \union Rejections
Attempts == 1 .. 2

NoRow == <<>>
Invocation == [status : {"SUCCEEDED", "FAILED"}, repairs : 0 .. 1, output : Answer]

(* PlanningResultV1: the invocation and perhaps a plan.                    *)
PlanningResult == [invocation : Invocation, plan : Plans \union {NoRow}]

NoThoughts == [attempt |-> 1, result |-> NoRow]

(* What an instance must give: plans that are not the absence of one.      *)
ASSUME PlanningAssumption == NoRow \notin Plans

PlannerPhases == {"idle", "claimed", "lookup", "gather", "ask", "computed",
                  "store", "returned", "finalizing", "failing"}

PlanningTypeOK ==
  /\ answers \in Answer \X Answer
  /\ outcome \in {"RUNNING", "READY", "FAILED"}
  /\ claimant \in {{}} \union {{w} : w \in PlanningWorker}
  /\ invocation \in {NoRow} \union Invocation
  /\ plan \in {NoRow} \union Plans
  /\ planner \in [PlanningWorker -> PlannerPhases]
  /\ thoughts \in
       [PlanningWorker -> [attempt : Attempts, result : {NoRow} \union PlanningResult]]

PlanningInit ==
  /\ answers \in Answer \X Answer
  /\ outcome = "RUNNING"
  /\ claimant = {}
  /\ invocation = NoRow
  /\ plan = NoRow
  /\ planner = [w \in PlanningWorker |-> "idle"]
  /\ thoughts = [w \in PlanningWorker |-> NoThoughts]

-----------------------------------------------------------------------------
(* Delivery.                                                               *)

PlannerGoesTo(w, phase) == planner' = [planner EXCEPT ![w] = phase]

DropPlanning(w) ==
  /\ PlannerGoesTo(w, "idle")
  /\ thoughts' = [thoughts EXCEPT ![w] = NoThoughts]

OnlyPlanner == UNCHANGED <<answers, outcome, claimant, planningRows>>

ClaimPlanning(w) ==
  /\ planner[w] = "idle"
  /\ outcome = "RUNNING"
  /\ claimant' = {w}
  /\ PlannerGoesTo(w, "claimed")
  /\ UNCHANGED <<answers, outcome, planningRows, thoughts>>

HoldsPlanning(w) == outcome = "RUNNING" /\ claimant = {w}

PlanningCheckpoint(w, from, next) ==
  /\ planner[w] = from
  /\ IF HoldsPlanning(w) THEN PlannerGoesTo(w, next) /\ UNCHANGED thoughts
                         ELSE DropPlanning(w)
  /\ OnlyPlanner

BeginPlanning(w) == PlanningCheckpoint(w, "claimed", "lookup")
PlanReturned(w) == PlanningCheckpoint(w, "returned", "finalizing")

(* finalize and fail.                                                      *)
EndStage(w, from, end) ==
  /\ planner[w] = from
  /\ IF HoldsPlanning(w) THEN outcome' = end /\ claimant' = {}
                         ELSE UNCHANGED <<outcome, claimant>>
  /\ DropPlanning(w)
  /\ UNCHANGED <<answers, planningRows>>

FinalizePlanning(w) == EndStage(w, "finalizing", "READY")
FailPlanning(w) == EndStage(w, "failing", "FAILED")

PlannerCrash(w) == planner[w] # "idle" /\ DropPlanning(w) /\ OnlyPlanner

-----------------------------------------------------------------------------
(* AgentPlanner.plan.                                                      *)

(* A plan that is there already ends the handler.                          *)
LookupPlan(w) ==
  /\ planner[w] = "lookup"
  /\ PlannerGoesTo(w, IF plan = NoRow THEN "gather" ELSE "returned")
  /\ UNCHANGED thoughts
  /\ OnlyPlanner

GatherContext(w) ==
  /\ planner[w] = "gather"
  /\ PlannerGoesTo(w, "ask")
  /\ UNCHANGED thoughts
  /\ OnlyPlanner

(* provider.invoke                                                         *)
Answers(attempt) == IF Deterministic THEN {answers[attempt]} ELSE Answer

(* Fault: the invocation of a repaired plan records the first answer.      *)
ResultOfFirst(attempt, answer) ==
  [invocation |-> [status |-> IF answer \in Plans THEN "SUCCEEDED" ELSE "FAILED",
                   repairs |-> attempt - 1, output |-> answers[1]],
   plan |-> IF answer \in Plans THEN answer ELSE NoRow]

ResultOf(attempt, answer) ==
  [invocation |-> [status |-> IF answer \in Plans THEN "SUCCEEDED" ELSE "FAILED",
                   repairs |-> attempt - 1, output |-> answer],
   plan |-> IF answer \in Plans THEN answer ELSE NoRow]

(* Fault: the answer to the repair request is not looked at.               *)
AskTwiceInVain(w) ==
  /\ planner[w] = "ask"
  /\ \E answer \in Answers(1) :
       thoughts' = [thoughts EXCEPT ![w].result = ResultOf(1, answer)]
  /\ PlannerGoesTo(w, "computed")
  /\ OnlyPlanner

(* One turn of the loop: parse and validate the answer; the first that is  *)
(* no plan is asked for again, with its errors.                            *)
Ask(w) ==
  LET attempt == thoughts[w].attempt IN
  /\ planner[w] = "ask"
  /\ \E answer \in Answers(attempt) :
       IF answer \in Plans \/ attempt = 2
       THEN /\ thoughts' = [thoughts EXCEPT ![w].result = ResultOf(attempt, answer)]
            /\ PlannerGoesTo(w, "computed")
       ELSE thoughts' = [thoughts EXCEPT ![w].attempt = 2] /\ UNCHANGED planner
  /\ OnlyPlanner

PlanComputed(w) == PlanningCheckpoint(w, "computed", "store")

(* save_result: the first invocation and the first plan stay; a plan that  *)
(* differs from the stored one is an ImmutableResultConflict, which rolls  *)
(* back.  After that a result without a plan is PLAN_INVALID.              *)
SaveResult(w) ==
  LET result == thoughts[w].result IN
  /\ planner[w] = "store"
  /\ IF result.plan # NoRow /\ plan \notin {NoRow, result.plan}
     THEN UNCHANGED planningRows /\ PlannerGoesTo(w, "failing")
     ELSE /\ invocation' = IF invocation = NoRow THEN result.invocation ELSE invocation
          /\ plan' = IF plan = NoRow THEN result.plan ELSE plan
          /\ PlannerGoesTo(w, IF result.plan = NoRow THEN "failing" ELSE "returned")
  /\ UNCHANGED <<answers, outcome, claimant, thoughts>>

PlanStage(w) ==
  \/ LookupPlan(w) \/ GatherContext(w) \/ Ask(w) \/ PlanComputed(w) \/ SaveResult(w)

PlanningWork(w) ==
  \/ ClaimPlanning(w) \/ BeginPlanning(w) \/ PlanStage(w)
  \/ PlanReturned(w) \/ FinalizePlanning(w) \/ FailPlanning(w) \/ PlannerCrash(w)

PlanningNext == \E w \in PlanningWorker : PlanningWork(w)

PlanningSpec == PlanningInit /\ [][PlanningNext]_planningVars

-----------------------------------------------------------------------------
(* Refinement: the run and its claims behave as StageDelivery says, with   *)
(* one stage and nobody to cancel the run.                                 *)

PlanningDecision(w) ==
  CASE planner[w] = "finalizing" -> "ONWARDS"
    [] planner[w] = "failing" -> "FAILED"
    [] OTHER -> "NONE"

PlanningWorkOf(w) ==
  IF planner[w] = "idle" THEN [stage |-> 0, key |-> "STAGE", exit |-> "NONE"]
  ELSE [stage |-> 1, key |-> "STAGE", exit |-> PlanningDecision(w)]

PlanningDelivery == INSTANCE StageDelivery WITH
  Worker <- PlanningWorker,
  StageCount <- 1,
  stage <- 1,
  outcome <- IF outcome = "READY" THEN "COMPLETED" ELSE outcome,
  asked <- FALSE,
  at <- [w \in PlanningWorker |-> PlanningWorkOf(w)],
  holders <- {w \in PlanningWorker : planner[w] # "idle" /\ HoldsPlanning(w)}

(* Planning has the delivery that RunExecution implements, whatever the    *)
(* planner does between a claim and its end.                               *)
PlanningDelivered == PlanningDelivery!DeliverySpec

-----------------------------------------------------------------------------

(* The two rows belong together, whoever of several workers wrote them and *)
(* wherever one of them died: there is a plan exactly if the invocation    *)
(* succeeded, and then it is the output the invocation records.            *)
PlanOfItsInvocation ==
  /\ plan # NoRow <=> invocation # NoRow /\ invocation.status = "SUCCEEDED"
  /\ plan # NoRow => invocation.output = plan

(* One repair is made and no more, at every execution of the stage: the    *)
(* run goes on exactly if one of the two answers is a plan, and PLAN_INVALID *)
(* is final, with the failed invocation stored.                            *)
EndsByItsAnswers ==
  LET possible == \E i \in Attempts : answers[i] \in Plans IN
  /\ outcome = "READY" => possible /\ plan # NoRow
  /\ outcome = "FAILED" => ~possible /\ invocation # NoRow
=============================================================================
