------------------------------ MODULE MCStages ------------------------------
(* What the stages of a run compute and keep: snapshot, graph, report and  *)
(* plan (StageResults), the answers behind the plan (AgentPlanning), the   *)
(* findings behind the report (StaticRules), and the runner's work on the  *)
(* shadow database (Runner).  A behaviour has one of them as its subject   *)
(* and leaves the others as they begin.                                    *)
EXTENDS StageResults, AgentPlanning, StaticRules, Runner, TLC

VARIABLE subject

WorkerSymmetry == Permutations(Worker)

-----------------------------------------------------------------------------
(* One table to begin with and any second migration, or any two that can   *)
(* be undone.                                                              *)

Migration(up, down, t) ==
  [up |-> [kind |-> up, table |-> t], down |-> [kind |-> down, table |-> t]]

Creating(t) == Migration("create", "drop", t)

Undoable ==
  {Migration(change[1], change[2], t) : t \in Table,
     change \in {<<"create", "drop">>, <<"drop", "create">>,
                 <<"add_column", "drop_column">>, <<"drop_column", "add_column">>}}

MCHistories ==
  {<<Creating("users"), [up |-> u, down |-> d]>> : u, d \in Change}
    \union {<<Creating("users"), second, third>> : second, third \in Undoable}

MCFixtures ==
  {NoFixture} \union [{"users"} -> {1}] \union [{"users", "orders"} -> {1}]

AllFull == [t \in Table |-> "full"]

AnyRepository ==
  /\ RepositoryInit
  /\ fixture # NoFixture => support = AllFull

NoRepository ==
  /\ migrations = <<Creating("users"), Creating("orders")>>
  /\ baseline = 0 /\ fixture = NoFixture /\ support = AllFull

AnyAnswers == CHOOSE two \in Plans \X Plans : TRUE

NoNodes == nodes = <<>> /\ structure = <<>>

-----------------------------------------------------------------------------

StagesInit ==
  /\ subject \in {"results", "planning", "rules", "runner"}
  /\ Init
  /\ PlanningInit
  /\ subject # "planning" => answers = AnyAnswers
  /\ report = NoReport
  /\ IF subject = "rules" THEN NodesInit ELSE NoNodes
  /\ IF subject = "runner" THEN AnyRepository ELSE NoRepository
  /\ DatabaseInit

stagesVars == <<vars, planningVars, ruleVars, runnerVars>>

TakeResults ==
  /\ subject = "results"
  /\ Next
  /\ UNCHANGED <<planningVars, ruleVars, runnerVars>>

TakePlanning ==
  /\ subject = "planning"
  /\ PlanningNext
  /\ UNCHANGED <<vars, ruleVars, runnerVars>>

TakeRules ==
  /\ subject = "rules"
  /\ Analyze
  /\ UNCHANGED <<vars, planningVars, runnerVars>>

TakeRunner ==
  /\ subject = "runner"
  /\ RunnerNext
  /\ UNCHANGED <<vars, planningVars, ruleVars>>

StagesNext ==
  /\ TakeResults \/ TakePlanning \/ TakeRules \/ TakeRunner
  /\ UNCHANGED subject

StagesSpec == StagesInit /\ [][StagesNext]_<<subject, stagesVars>>

-----------------------------------------------------------------------------

(* The type invariants of the three modules that keep rows.                 *)
StagesTypeOK ==
  /\ TypeOK
  /\ RunnerTypeOK
  /\ PlanningTypeOK
=============================================================================
