------------------------- MODULE ReportAndPlanProofs -------------------------
(***************************************************************************)
(* Proofs about what the stages before the sandbox compute: the plan       *)
(* (AgentPlanning) and the report (StaticRules).                           *)
(*                                                                         *)
(* With a provider that answers a request always in one way, invocation    *)
(* and plan belong together and the planning stage ends as its answers     *)
(* say, for any number of workers, any answers and any crash or takeover;  *)
(* and its handler implements StageDelivery, for every provider.           *)
(***************************************************************************)
EXTENDS AgentPlanning, StaticRules, FiniteSetTheorems, TLAPS

-----------------------------------------------------------------------------
(* The plan.                                                               *)

(* What every execution of the stage comes to: the first answer if it is a *)
(* plan, and else the answer to the repair.                                *)
Final ==
  IF answers[1] \in Plans THEN ResultOf(1, answers[1]) ELSE ResultOf(2, answers[2])

(* The rows are either both as the final result has them, or not there.    *)
RowsInv ==
  \/ invocation = NoRow /\ plan = NoRow
  \/ invocation = Final.invocation /\ plan = Final.plan

(* How a stage that is over has ended.                                     *)
OutcomeInv ==
  /\ outcome = "READY" => plan # NoRow
  /\ outcome = "FAILED" => Final.plan = NoRow /\ invocation # NoRow

(* What a worker knows: what the answers so far were, and what is stored.  *)
WorkerInv(w) ==
  /\ thoughts[w].attempt = 2 => answers[1] \notin Plans
  /\ planner[w] \in {"computed", "store"} => thoughts[w].result = Final
  /\ planner[w] \in {"returned", "finalizing"} => plan # NoRow
  /\ planner[w] = "failing" => Final.plan = NoRow /\ invocation # NoRow

PlanningInv ==
  PlanningTypeOK /\ RowsInv /\ OutcomeInv /\ \A w \in PlanningWorker : WorkerInv(w)

-----------------------------------------------------------------------------

(* The final result has a plan exactly if its invocation succeeded.        *)
LEMMA FinalResult ==
  ASSUME PlanningTypeOK
  PROVE  /\ Final \in PlanningResult
         /\ Final.invocation # NoRow
         /\ Final.plan # NoRow =>
              /\ Final.invocation.status = "SUCCEEDED"
              /\ Final.invocation.output = Final.plan
         /\ Final.plan = NoRow => Final.invocation.status = "FAILED"
         /\ Final.plan # NoRow <=> \E i \in Attempts : answers[i] \in Plans
<1>1. answers \in Answer \X Answer /\ Attempts = {1, 2}
  BY DEF PlanningTypeOK, Attempts
<1>2. PICK attempt \in {1, 2}, answer \in Answer :
        /\ Final = ResultOf(attempt, answer)
        /\ answer \in Plans <=> \E i \in Attempts : answers[i] \in Plans
  BY <1>1 DEF Final
<1> DEFINE status == IF answer \in Plans THEN "SUCCEEDED" ELSE "FAILED"
           made == [status |-> status, repairs |-> attempt - 1, output |-> answer]
<1>3. Final = [invocation |-> made, plan |-> IF answer \in Plans THEN answer ELSE NoRow]
  BY <1>2 DEF ResultOf
<1>4. made # NoRow
  <2>1. DOMAIN made = {"status", "repairs", "output"}
    OBVIOUS
  <2>2. DOMAIN NoRow = {}
    BY DEF NoRow
  <2> QED
    BY <2>1, <2>2
<1>5. Final \in PlanningResult
  BY <1>3 DEF PlanningResult, Invocation
<1> QED
  BY <1>2, <1>3, <1>4, <1>5, PlanningAssumption DEF NoRow

LEMMA InitPlanningInv ==
  ASSUME PlanningInit
  PROVE  PlanningInv
BY DEF PlanningInit, PlanningInv, PlanningTypeOK, RowsInv, OutcomeInv, WorkerInv,
       NoThoughts, NoRow, PlannerPhases, Attempts

OthersStay(w) ==
  \A v \in PlanningWorker \ {w} : planner'[v] = planner[v] /\ thoughts'[v] = thoughts[v]

(* A step of one worker that changes no row and leaves the run as it is.   *)
LEMMA StepInMemory ==
  ASSUME PlanningInv, NEW w \in PlanningWorker, OnlyPlanner,
         PlanningTypeOK', WorkerInv(w)', OthersStay(w)
  PROVE  PlanningInv'
<1>1. UNCHANGED <<answers, outcome, invocation, plan>>
  BY DEF OnlyPlanner, planningRows
<1>2. UNCHANGED Final
  BY <1>1 DEF Final
<1>3. \A v \in PlanningWorker : WorkerInv(v)'
  <2>1. ASSUME NEW v \in PlanningWorker \ {w} PROVE WorkerInv(v)'
    BY <1>1, <1>2, <2>1 DEF PlanningInv, WorkerInv, OthersStay
  <2> QED
    BY <2>1
<1>4. RowsInv' /\ OutcomeInv'
  BY <1>1, <1>2 DEF PlanningInv, RowsInv, OutcomeInv
<1> QED
  BY <1>3, <1>4 DEF PlanningInv

LEMMA DropStep ==
  ASSUME PlanningInv, NEW w \in PlanningWorker, DropPlanning(w), OnlyPlanner
  PROVE  PlanningInv'
<1>1. PlanningTypeOK'
  BY DEF PlanningInv, PlanningTypeOK, DropPlanning, PlannerGoesTo, OnlyPlanner,
         planningRows, NoThoughts, NoRow, PlannerPhases, Attempts
<1>2. WorkerInv(w)'
  BY DEF PlanningInv, PlanningTypeOK, WorkerInv, DropPlanning, PlannerGoesTo,
         NoThoughts
<1>3. OthersStay(w)
  BY DEF PlanningInv, PlanningTypeOK, DropPlanning, PlannerGoesTo, OthersStay
<1> QED
  BY <1>1, <1>2, <1>3, StepInMemory

(* A worker that only goes on.                                             *)
LEMMA GoOnStep ==
  ASSUME PlanningInv, NEW w \in PlanningWorker, NEW next \in PlannerPhases,
         PlannerGoesTo(w, next), UNCHANGED thoughts, OnlyPlanner,
         next \in {"computed", "store"} => thoughts[w].result = Final,
         next \in {"returned", "finalizing"} => plan # NoRow,
         next # "failing"
  PROVE  PlanningInv'
<1>1. UNCHANGED <<answers, outcome, claimant, invocation, plan>> /\ UNCHANGED Final
  BY DEF OnlyPlanner, planningRows, Final
<1>2. PlanningTypeOK'
  BY <1>1 DEF PlanningInv, PlanningTypeOK, PlannerGoesTo
<1>3. planner'[w] = next
  BY DEF PlanningInv, PlanningTypeOK, PlannerGoesTo
<1>4. WorkerInv(w)'
  BY <1>1, <1>3 DEF PlanningInv, WorkerInv
<1>5. OthersStay(w)
  BY DEF PlanningInv, PlanningTypeOK, PlannerGoesTo, OthersStay
<1> QED
  BY <1>2, <1>4, <1>5, StepInMemory

LEMMA ClaimStep ==
  ASSUME PlanningInv, NEW w \in PlanningWorker, ClaimPlanning(w)
  PROVE  PlanningInv'
<1>1. UNCHANGED <<answers, outcome, invocation, plan, thoughts>> /\ UNCHANGED Final
  BY DEF ClaimPlanning, planningRows, Final
<1>2. PlanningTypeOK'
  BY DEF PlanningInv, PlanningTypeOK, ClaimPlanning, PlannerGoesTo, planningRows,
         PlannerPhases
<1>3. \A v \in PlanningWorker : WorkerInv(v)'
  BY <1>1 DEF PlanningInv, PlanningTypeOK, WorkerInv, ClaimPlanning, PlannerGoesTo
<1> QED
  BY <1>1, <1>2, <1>3 DEF PlanningInv, RowsInv, OutcomeInv

LEMMA CheckpointStep ==
  ASSUME PlanningInv, NEW w \in PlanningWorker, NEW from, NEW next \in PlannerPhases,
         PlanningCheckpoint(w, from, next),
         next \in {"computed", "store"} => thoughts[w].result = Final,
         next \in {"returned", "finalizing"} => plan # NoRow,
         next # "failing"
  PROVE  PlanningInv'
BY DropStep, GoOnStep DEF PlanningCheckpoint

LEMMA EndStageStep ==
  ASSUME PlanningInv, NEW w \in PlanningWorker, NEW from, NEW end \in {"READY", "FAILED"},
         EndStage(w, from, end),
         end = "READY" => plan # NoRow,
         end = "FAILED" => Final.plan = NoRow /\ invocation # NoRow
  PROVE  PlanningInv'
<1>1. /\ UNCHANGED <<answers, invocation, plan>> /\ DropPlanning(w)
      /\ \/ outcome' = end /\ claimant' = {}
         \/ UNCHANGED <<outcome, claimant>>
  BY DEF EndStage, planningRows
<1>2. UNCHANGED Final
  BY <1>1 DEF Final
<1>3. PlanningTypeOK'
  BY <1>1 DEF PlanningInv, PlanningTypeOK, DropPlanning, PlannerGoesTo, NoThoughts,
       NoRow, PlannerPhases, Attempts
<1>4. RowsInv' /\ OutcomeInv'
  BY <1>1, <1>2 DEF PlanningInv, RowsInv, OutcomeInv
<1>5. \A v \in PlanningWorker : WorkerInv(v)'
  BY <1>1, <1>2 DEF PlanningInv, PlanningTypeOK, WorkerInv, DropPlanning,
       PlannerGoesTo, NoThoughts
<1> QED
  BY <1>3, <1>4, <1>5 DEF PlanningInv

LEMMA AskStep ==
  ASSUME Deterministic, PlanningInv, NEW w \in PlanningWorker, Ask(w)
  PROVE  PlanningInv'
<1> DEFINE attempt == thoughts[w].attempt
           answer == answers[attempt]
<1>1. /\ thoughts[w] \in [attempt : Attempts, result : {NoRow} \union PlanningResult]
      /\ WorkerInv(w)
  BY DEF PlanningInv, PlanningTypeOK
<1>2. /\ attempt \in {1, 2} /\ answer \in Answer
  BY <1>1 DEF PlanningInv, PlanningTypeOK, Attempts
<1>3. /\ planner[w] = "ask" /\ OnlyPlanner
      /\ IF answer \in Plans \/ attempt = 2
         THEN /\ thoughts' = [thoughts EXCEPT ![w].result = ResultOf(attempt, answer)]
              /\ PlannerGoesTo(w, "computed")
         ELSE thoughts' = [thoughts EXCEPT ![w].attempt = 2] /\ UNCHANGED planner
  BY DEF Ask, Answers
<1>4. UNCHANGED Final
  BY <1>3 DEF OnlyPlanner, Final
<1>5. OthersStay(w)
  BY <1>3 DEF PlanningInv, PlanningTypeOK, PlannerGoesTo, OthersStay
<1>6. CASE answer \in Plans \/ attempt = 2
  <2>1. Final = ResultOf(attempt, answer)
    BY <1>1, <1>2, <1>6 DEF WorkerInv, Final
  <2>2. ResultOf(attempt, answer) \in PlanningResult
    BY <1>2 DEF ResultOf, PlanningResult, Invocation
  <2>3. PlanningTypeOK'
    <3>1. thoughts' \in
            [PlanningWorker -> [attempt : Attempts, result : {NoRow} \union PlanningResult]]
      BY <1>3, <1>6, <2>2 DEF PlanningInv, PlanningTypeOK
    <3> QED
      BY <1>3, <1>6, <3>1 DEF PlanningInv, PlanningTypeOK, PlannerGoesTo,
         PlannerPhases, OnlyPlanner, planningRows
  <2>4. planner'[w] = "computed" /\ thoughts'[w].result = Final /\ thoughts'[w].attempt = attempt
    BY <1>3, <1>6, <2>1 DEF PlanningInv, PlanningTypeOK, PlannerGoesTo
  <2>5. WorkerInv(w)'
    BY <1>1, <1>3, <1>4, <2>4 DEF WorkerInv, OnlyPlanner
  <2> QED
    BY <1>3, <1>5, <2>3, <2>5, StepInMemory
<1>7. CASE answer \notin Plans /\ attempt = 1
  <2>1. thoughts' = [thoughts EXCEPT ![w].attempt = 2] /\ UNCHANGED planner
    BY <1>3, <1>7
  <2>2. PlanningTypeOK'
    BY <1>3, <2>1 DEF PlanningInv, PlanningTypeOK, Attempts, OnlyPlanner,
         planningRows
  <2>3. planner'[w] = "ask" /\ answers[1] \notin Plans
    BY <1>3, <1>7, <2>1
  <2>4. WorkerInv(w)'
    BY <1>3, <2>3 DEF WorkerInv, OnlyPlanner
  <2> QED
    BY <1>3, <1>5, <2>2, <2>4, StepInMemory
<1> QED
  BY <1>2, <1>6, <1>7

LEMMA SaveResultStep ==
  ASSUME PlanningInv, NEW w \in PlanningWorker, SaveResult(w)
  PROVE  PlanningInv'
<1>1. thoughts[w].result = Final /\ planner[w] = "store"
  BY DEF SaveResult, PlanningInv, WorkerInv
<1>2. /\ Final \in PlanningResult /\ Final.invocation # NoRow
  BY FinalResult DEF PlanningInv
<1>3. Final.plan # NoRow => plan \in {NoRow, Final.plan}
  BY DEF PlanningInv, RowsInv
<1>4. /\ invocation' = IF invocation = NoRow THEN Final.invocation ELSE invocation
      /\ plan' = IF plan = NoRow THEN Final.plan ELSE plan
      /\ PlannerGoesTo(w, IF Final.plan = NoRow THEN "failing" ELSE "returned")
      /\ UNCHANGED <<answers, outcome, claimant, thoughts>>
  BY <1>1, <1>3 DEF SaveResult
<1>5. UNCHANGED Final
  BY <1>4 DEF Final
<1>6. invocation' = Final.invocation /\ plan' = Final.plan
  BY <1>2, <1>4 DEF PlanningInv, RowsInv
<1>7. PlanningTypeOK'
  BY <1>2, <1>4, <1>6 DEF PlanningInv, PlanningTypeOK, PlanningResult,
       PlannerGoesTo, PlannerPhases
<1>8. RowsInv' /\ OutcomeInv'
  BY <1>2, <1>4, <1>5, <1>6 DEF PlanningInv, RowsInv, OutcomeInv
<1>9. \A v \in PlanningWorker : WorkerInv(v)'
  BY <1>1, <1>2, <1>4, <1>5, <1>6 DEF PlanningInv, PlanningTypeOK, WorkerInv,
       RowsInv, PlannerGoesTo
<1> QED
  BY <1>7, <1>8, <1>9 DEF PlanningInv

LEMMA PlanningStep ==
  ASSUME Deterministic, PlanningInv, [PlanningNext]_planningVars
  PROVE  PlanningInv'
<1>1. ASSUME NEW w \in PlanningWorker, PlanningWork(w) PROVE PlanningInv'
  <2>1. CASE ClaimPlanning(w)
    BY <2>1, ClaimStep
  <2>2. CASE BeginPlanning(w)
    BY <2>2, CheckpointStep DEF BeginPlanning, PlannerPhases
  <2>3. CASE LookupPlan(w)
    BY <2>3, GoOnStep DEF LookupPlan, PlannerPhases
  <2>4. CASE GatherContext(w)
    BY <2>4, GoOnStep DEF GatherContext, PlannerPhases
  <2>5. CASE Ask(w)
    BY <2>5, AskStep
  <2>6. CASE PlanComputed(w)
    <3>1. thoughts[w].result = Final
      BY <2>6 DEF PlanComputed, PlanningCheckpoint, PlanningInv, WorkerInv
    <3> QED
      BY <2>6, <3>1, CheckpointStep DEF PlanComputed, PlannerPhases
  <2>7. CASE SaveResult(w)
    BY <2>7, SaveResultStep
  <2>8. CASE PlanReturned(w)
    <3>1. plan # NoRow
      BY <2>8 DEF PlanReturned, PlanningCheckpoint, PlanningInv, WorkerInv
    <3> QED
      BY <2>8, <3>1, CheckpointStep DEF PlanReturned, PlannerPhases
  <2>9. CASE FinalizePlanning(w)
    <3>1. plan # NoRow
      BY <2>9 DEF FinalizePlanning, EndStage, PlanningInv, WorkerInv
    <3> QED
      BY <2>9, <3>1, EndStageStep DEF FinalizePlanning
  <2>10. CASE FailPlanning(w)
    <3>1. Final.plan = NoRow /\ invocation # NoRow
      BY <2>10 DEF FailPlanning, EndStage, PlanningInv, WorkerInv
    <3> QED
      BY <2>10, <3>1, EndStageStep DEF FailPlanning
  <2>11. CASE PlannerCrash(w)
    BY <2>11, DropStep DEF PlannerCrash
  <2> QED
    BY <1>1, <2>1, <2>2, <2>3, <2>4, <2>5, <2>6, <2>7, <2>8, <2>9, <2>10, <2>11
       DEF PlanningWork, PlanStage
<1>2. CASE UNCHANGED planningVars
  <2>1. UNCHANGED <<answers, outcome, claimant, invocation, plan, planner, thoughts>>
    BY <1>2 DEF planningVars, planningRows
  <2>2. UNCHANGED Final
    BY <2>1 DEF Final
  <2> QED
    BY <2>1, <2>2 DEF PlanningInv, PlanningTypeOK, RowsInv, OutcomeInv, WorkerInv
<1> QED
  BY <1>1, <1>2 DEF PlanningNext

-----------------------------------------------------------------------------

(* The inductive invariant: every execution of the stage computes the same *)
(* result, and the rows are either that result or not there.               *)
THEOREM PlanningInvariant ==
  ASSUME Deterministic
  PROVE  PlanningSpec => []PlanningInv
<1>1. PlanningInit => PlanningInv
  BY InitPlanningInv
<1>2. PlanningInv /\ [PlanningNext]_planningVars => PlanningInv'
  BY PlanningStep
<1> QED
  BY <1>1, <1>2, PTL DEF PlanningSpec

(* There is a plan exactly if the stored invocation succeeded, and then it *)
(* is the output the invocation records (save_result).                     *)
THEOREM PlanAlwaysOfItsInvocation ==
  ASSUME Deterministic
  PROVE  PlanningSpec => []PlanOfItsInvocation
<1>1. PlanningInv => PlanOfItsInvocation
  <2>1. SUFFICES ASSUME PlanningInv PROVE PlanOfItsInvocation
    OBVIOUS
  <2>2. CASE invocation = NoRow /\ plan = NoRow
    BY <2>2 DEF PlanOfItsInvocation
  <2>3. CASE invocation = Final.invocation /\ plan = Final.plan
    BY <2>1, <2>3, FinalResult DEF PlanningInv, PlanOfItsInvocation
  <2> QED
    BY <2>1, <2>2, <2>3 DEF PlanningInv, RowsInv
<1> QED
  BY <1>1, PlanningInvariant, PTL

(* The stage ends READY only with a plan among the two answers, and FAILED *)
(* only with none and the failed invocation stored (AgentPlanner.plan).    *)
THEOREM AlwaysEndsByItsAnswers ==
  ASSUME Deterministic
  PROVE  PlanningSpec => []EndsByItsAnswers
<1>1. PlanningInv => EndsByItsAnswers
  <2>1. SUFFICES ASSUME PlanningInv PROVE EndsByItsAnswers
    OBVIOUS
  <2>2. Final.plan # NoRow <=> \E i \in Attempts : answers[i] \in Plans
    BY <2>1, FinalResult DEF PlanningInv
  <2>3. plan # NoRow => Final.plan # NoRow
    BY <2>1 DEF PlanningInv, RowsInv
  <2> QED
    BY <2>1, <2>2, <2>3 DEF PlanningInv, OutcomeInv, EndsByItsAnswers
<1> QED
  BY <1>1, PlanningInvariant, PTL

-----------------------------------------------------------------------------
(* The report: what a finding is, and that its place determines it.        *)

NodeType == [changed : BOOLEAN, upgrade : Seq(Operation), downgrade : Downgrades]

LEMMA RankIs ==
  /\ Rank("INFO") = 1 /\ Rank("MEDIUM") = 3 /\ Rank("HIGH") = 4
<1>1. \A i \in 1 .. 4 : /\ Severities[i] = "INFO" <=> i = 1
                        /\ Severities[i] = "MEDIUM" <=> i = 3
                        /\ Severities[i] = "HIGH" <=> i = 4
  BY DEF Severities
<1> QED
  BY <1>1 DEF Rank

LEMMA NodeFacts ==
  ASSUME NodesInit
  PROVE  /\ DOMAIN nodes = {1, 2}
         /\ \A i \in {1, 2} : /\ nodes[i] \in NodeType
                              /\ Len(nodes[i].upgrade) \in 0 .. MaxOperations
         /\ structure \in Seq(0 .. 2) /\ Len(structure) \in 0 .. MaxReasons
<1>1. PICK m \in 0 .. MaxOperations :
        nodes \in RevisionNode(m) \X RevisionNode(MaxOperations - m)
  BY DEF NodesInit
<1>2. /\ DOMAIN nodes = {1, 2}
      /\ nodes[1] \in RevisionNode(m) /\ nodes[2] \in RevisionNode(MaxOperations - m)
  BY <1>1
<1>3. ASSUME NEW n \in 0 .. MaxOperations, NEW node \in RevisionNode(n)
      PROVE  node \in NodeType /\ Len(node.upgrade) \in 0 .. MaxOperations
  <2>1. PICK k \in 0 .. n : node.upgrade \in [1 .. k -> Operation]
    BY <1>3 DEF RevisionNode, Calls
  <2>2. k \in 0 .. MaxOperations /\ k \in Nat
    BY <1>3, RulesAssumption
  <2>3. node.upgrade \in Seq(Operation) /\ Len(node.upgrade) = k
    BY <2>1, <2>2
  <2> QED
    BY <1>3, <2>2, <2>3 DEF RevisionNode, NodeType
<1>4. MaxOperations - m \in 0 .. MaxOperations
  BY RulesAssumption
<1>5. PICK k \in 0 .. MaxReasons : structure \in [1 .. k -> 0 .. 2]
  BY DEF NodesInit
<1>6. k \in Nat /\ structure \in Seq(0 .. 2) /\ Len(structure) = k
  BY <1>5, RulesAssumption
<1> QED
  BY <1>2, <1>3, <1>4, <1>5, <1>6

(* What a rule says of a call that it reports.                             *)
RuleOf(c) ==
  IF c.call \in {"drop", "execute"} THEN "SOPS001"
  ELSE IF c.call = "add_column" THEN "SOPS002" ELSE "SOPS003"

SeverityOf(c) ==
  IF \/ c.call \in {"drop", "execute"}
     \/ c.call = "add_column" /\ c.column = "required"
  THEN "HIGH" ELSE "MEDIUM"

CallFinding(path, calls, i) ==
  Finding(RuleOf(calls[i]), SeverityOf(calls[i]), path, i + 1, 0)

CallFindings(path, calls) ==
  DestructiveDdl(path, calls) \union DirectNotNull(path, calls)
    \union NonConcurrentIndex(path, calls)

LEMMA CallFindingsAre ==
  ASSUME NEW path, NEW calls, NEW f \in CallFindings(path, calls)
  PROVE  \E i \in DOMAIN calls : f = CallFinding(path, calls, i)
<1>1. CASE f \in DestructiveDdl(path, calls)
  <2>1. PICK i \in DOMAIN calls :
          /\ f = Finding("SOPS001", "HIGH", path, i + 1, 0)
          /\ calls[i].call \in {"drop", "execute"}
    BY <1>1 DEF DestructiveDdl
  <2>2. RuleOf(calls[i]) = "SOPS001" /\ SeverityOf(calls[i]) = "HIGH"
    BY <2>1 DEF RuleOf, SeverityOf
  <2> QED
    BY <2>1, <2>2 DEF CallFinding
<1>2. CASE f \in DirectNotNull(path, calls)
  <2>1. PICK i \in DOMAIN calls :
          /\ f = Finding("SOPS002", IF calls[i].column = "required" THEN "HIGH" ELSE "MEDIUM",
                         path, i + 1, 0)
          /\ calls[i].call = "add_column"
    BY <1>2 DEF DirectNotNull
  <2>2. /\ RuleOf(calls[i]) = "SOPS002"
        /\ SeverityOf(calls[i]) = IF calls[i].column = "required" THEN "HIGH" ELSE "MEDIUM"
    BY <2>1 DEF RuleOf, SeverityOf
  <2> QED
    BY <2>1, <2>2 DEF CallFinding
<1>3. CASE f \in NonConcurrentIndex(path, calls)
  <2>1. PICK i \in DOMAIN calls :
          /\ f = Finding("SOPS003", "MEDIUM", path, i + 1, 0)
          /\ calls[i].call = "create_index"
    BY <1>3 DEF NonConcurrentIndex
  <2>2. RuleOf(calls[i]) = "SOPS003" /\ SeverityOf(calls[i]) = "MEDIUM"
    BY <2>1 DEF RuleOf, SeverityOf
  <2> QED
    BY <2>1, <2>2 DEF CallFinding
<1> QED
  BY <1>1, <1>2, <1>3 DEF CallFindings

LEMMA FindingIs ==
  ASSUME NEW rule, NEW severity, NEW path, NEW line, NEW entry
  PROVE  LET f == Finding(rule, severity, path, line, entry)
         IN /\ f.rule = rule /\ f.severity = severity /\ f.path = path
            /\ f.line = line /\ f.entry = entry
BY DEF Finding

(* The findings of one revision are on different lines.                    *)
LEMMA EvaluateFacts ==
  ASSUME NEW path, NEW node \in NodeType, NEW f \in Evaluate(path, node)
  PROVE  /\ f.severity \in {"MEDIUM", "HIGH"} /\ f.path = path /\ f.entry = 0
         /\ f.line \in 1 .. Len(node.upgrade) + 2
         /\ \A g \in Evaluate(path, node) : f.line = g.line => f = g
<1> DEFINE calls == node.upgrade
           last == Finding("SOPS004", "HIGH", path,
                           IF node.downgrade = "absent" THEN 1 ELSE Len(calls) + 2, 0)
<1>1. calls \in Seq(Operation) /\ Len(calls) \in Nat /\ DOMAIN calls = 1 .. Len(calls)
  BY DEF NodeType
<1>2. ASSUME NEW g \in Evaluate(path, node)
      PROVE  \/ \E i \in DOMAIN calls : g = CallFinding(path, calls, i)
             \/ g = last
  <2>1. CASE g \in CallFindings(path, calls)
    BY <2>1, CallFindingsAre
  <2>2. CASE g \in IrreversibleDowngrade(path, node)
    BY <2>2 DEF IrreversibleDowngrade
  <2> QED
    BY <2>1, <2>2 DEF Evaluate, CallFindings
<1>3. ASSUME NEW i \in DOMAIN calls
      PROVE  LET g == CallFinding(path, calls, i)
             IN /\ g.severity \in {"MEDIUM", "HIGH"} /\ g.path = path /\ g.entry = 0
                /\ g.line = i + 1
  BY FindingIs DEF CallFinding, SeverityOf
<1>4. /\ last.severity = "HIGH" /\ last.path = path /\ last.entry = 0
      /\ last.line \in {1, Len(calls) + 2}
  BY FindingIs
<1> HIDE DEF last, calls
<1>5. /\ f.severity \in {"MEDIUM", "HIGH"} /\ f.path = path /\ f.entry = 0
      /\ f.line \in 1 .. Len(calls) + 2
  BY <1>1, <1>2, <1>3, <1>4
<1>6. ASSUME NEW g \in Evaluate(path, node), f.line = g.line PROVE f = g
  <2>1. ASSUME NEW i \in DOMAIN calls, NEW j \in DOMAIN calls,
               f = CallFinding(path, calls, i), g = CallFinding(path, calls, j)
        PROVE  f = g
    BY <1>1, <1>3, <1>6, <2>1
  <2>2. ASSUME NEW i \in DOMAIN calls, NEW h, h = CallFinding(path, calls, i)
        PROVE  h.line # last.line
    BY <1>1, <1>3, <1>4, <2>2
  <2> QED
    BY <1>2, <1>6, <2>1, <2>2
<1> QED
  BY <1>5, <1>6 DEF calls

-----------------------------------------------------------------------------
(* The findings of a graph.                                                *)

Found == ContentFindings \union StructuralFindings

MaxLine == MaxOperations + 2

LEMMA FoundFacts ==
  ASSUME NodesInit, NEW f \in Found
  PROVE  /\ f.severity \in {"MEDIUM", "HIGH"}
         /\ f.path \in 0 .. 2 /\ f.line \in 1 .. MaxLine /\ f.entry \in 0 .. MaxReasons
         /\ \A g \in Found :
              f.path = g.path /\ f.line = g.line /\ f.entry = g.entry => f = g
<1>1. MaxOperations \in Nat /\ MaxReasons \in Nat
  BY RulesAssumption
<1>2. ASSUME NEW g \in ContentFindings
      PROVE  \E i \in {1, 2} : g \in Evaluate(i, nodes[i])
  BY NodeFacts DEF ContentFindings
<1>3. ASSUME NEW i \in {1, 2}, NEW g \in Evaluate(i, nodes[i])
      PROVE  /\ g.severity \in {"MEDIUM", "HIGH"} /\ g.path = i /\ g.entry = 0
             /\ g.line \in 1 .. MaxLine
             /\ \A h \in Evaluate(i, nodes[i]) : g.line = h.line => g = h
  <2>1. nodes[i] \in NodeType /\ Len(nodes[i].upgrade) \in 0 .. MaxOperations
    BY NodeFacts
  <2>2. /\ g.severity \in {"MEDIUM", "HIGH"} /\ g.path = i /\ g.entry = 0
        /\ g.line \in 1 .. Len(nodes[i].upgrade) + 2
        /\ \A h \in Evaluate(i, nodes[i]) : g.line = h.line => g = h
    BY <2>1, EvaluateFacts
  <2> QED
    BY <1>1, <2>1, <2>2 DEF MaxLine
<1>4. ASSUME NEW g \in StructuralFindings
      PROVE  \E i \in 1 .. Len(structure) :
               g = Finding("STRUCTURE", "HIGH", structure[i], 1, i)
  <2>1. DOMAIN structure = 1 .. Len(structure)
    BY NodeFacts
  <2> QED
    BY <2>1 DEF StructuralFindings
<1>5. ASSUME NEW g \in StructuralFindings
      PROVE  /\ g.severity = "HIGH" /\ g.path \in 0 .. 2 /\ g.line = 1
             /\ g.entry \in 1 .. MaxReasons
             /\ \A h \in StructuralFindings : g.entry = h.entry => g = h
  <2>1. PICK i \in 1 .. Len(structure) :
          g = Finding("STRUCTURE", "HIGH", structure[i], 1, i)
    BY <1>4
  <2>2. structure[i] \in 0 .. 2 /\ i \in 1 .. MaxReasons
    BY <1>1, NodeFacts
  <2>3. g.severity = "HIGH" /\ g.path = structure[i] /\ g.line = 1 /\ g.entry = i
    BY <2>1, FindingIs
  <2>4. ASSUME NEW h \in StructuralFindings, g.entry = h.entry PROVE g = h
    <3>1. PICK j \in 1 .. Len(structure) :
            h = Finding("STRUCTURE", "HIGH", structure[j], 1, j)
      BY <1>4
    <3>2. h.entry = j
      BY <3>1, FindingIs
    <3> QED
      BY <2>1, <2>3, <2>4, <3>1, <3>2
  <2> QED
    BY <2>2, <2>3, <2>4
<1>6. ASSUME NEW g \in Found
      PROVE  g \in ContentFindings \/ g \in StructuralFindings
  BY DEF Found
<1>7. ASSUME NEW g \in ContentFindings
      PROVE  /\ g.severity \in {"MEDIUM", "HIGH"} /\ g.path \in 0 .. 2 /\ g.entry = 0
             /\ g.line \in 1 .. MaxLine
             /\ \A h \in ContentFindings : g.path = h.path /\ g.line = h.line => g = h
  <2>1. PICK i \in {1, 2} : g \in Evaluate(i, nodes[i])
    BY <1>2
  <2>2. ASSUME NEW h \in ContentFindings, g.path = h.path, g.line = h.line PROVE g = h
    <3>1. PICK j \in {1, 2} : h \in Evaluate(j, nodes[j])
      BY <1>2
    <3> QED
      BY <1>3, <2>1, <2>2, <3>1
  <2> QED
    BY <1>3, <2>1, <2>2
<1>8. /\ f.severity \in {"MEDIUM", "HIGH"}
      /\ f.path \in 0 .. 2 /\ f.line \in 1 .. MaxLine /\ f.entry \in 0 .. MaxReasons
  BY <1>1, <1>5, <1>6, <1>7 DEF MaxLine
<1>9. \A g \in StructuralFindings : g.entry # 0
  BY <1>1, <1>5
<1>10. \A g \in ContentFindings : g.entry = 0
  BY <1>7
<1>11. ASSUME NEW g \in Found, f.path = g.path, f.line = g.line, f.entry = g.entry
      PROVE  f = g
  <2>1. CASE f.entry = 0
    <3>1. f \in ContentFindings /\ g \in ContentFindings
      BY <1>6, <1>9, <1>11, <2>1
    <3> QED
      BY <1>7, <1>11, <3>1
  <2>2. CASE f.entry # 0
    <3>1. f \in StructuralFindings /\ g \in StructuralFindings
      BY <1>6, <1>10, <1>11, <2>2
    <3> QED
      BY <1>5, <1>11, <3>1
  <2> QED
    BY <2>1, <2>2
<1> QED
  BY <1>8, <1>11

LEMMA FoundFinite ==
  ASSUME NodesInit
  PROVE  IsFiniteSet(Found)
<1> DEFINE Places == (0 .. 2) \X ((1 .. MaxLine) \X (0 .. MaxReasons))
           place == [f \in Found |-> <<f.path, <<f.line, f.entry>>>>]
<1>1. IsFiniteSet(Places)
  <2>1. /\ IsFiniteSet(0 .. 2) /\ IsFiniteSet(1 .. MaxLine) /\ IsFiniteSet(0 .. MaxReasons)
    <3>1. MaxLine \in Int /\ MaxReasons \in Int /\ 0 \in Int /\ 1 \in Int /\ 2 \in Int
      BY RulesAssumption DEF MaxLine
    <3>2. IsFiniteSet(0 .. 2)
      BY <3>1, FS_Interval
    <3>3. IsFiniteSet(1 .. MaxLine)
      BY <3>1, FS_Interval
    <3>4. IsFiniteSet(0 .. MaxReasons)
      BY <3>1, FS_Interval
    <3> QED
      BY <3>2, <3>3, <3>4
  <2>2. IsFiniteSet((1 .. MaxLine) \X (0 .. MaxReasons))
    BY <2>1, FS_Product
  <2> QED
    BY <2>1, <2>2, FS_Product
<1>2. place \in [Found -> Places]
  BY FoundFacts
<1>3. \A f, g \in Found : place[f] = place[g] => f = g
  BY FoundFacts
<1> HIDE DEF place, Places
<1>4. place \in Injection(Found, Places)
  BY <1>2, <1>3 DEF Injection, IsInjective
<1> QED
  BY <1>1, <1>4, FS_Injection

(* The order of the sort is a strict order on the findings, and total.     *)
LEMMA BeforeOrders ==
  ASSUME NodesInit
  PROVE  /\ \A f \in Found : ~ Before(f, f)
         /\ \A f, g, h \in Found : Before(f, g) /\ Before(g, h) => Before(f, h)
         /\ \A f, g \in Found : f = g \/ Before(f, g) \/ Before(g, f)
<1>1. MaxOperations \in Nat /\ MaxReasons \in Nat
  BY RulesAssumption
<1>2. \A f \in Found : /\ Rank(f.severity) \in Nat /\ f.path \in Nat
                       /\ f.line \in Nat /\ f.entry \in Nat
  BY <1>1, FoundFacts, RankIs DEF MaxLine
<1>3. \A f, g \in Found :
        f.path = g.path /\ f.line = g.line /\ f.entry = g.entry => f = g
  BY FoundFacts
<1>4. \A f \in Found : ~ Above(f, f)
  BY <1>2 DEF Above
<1>5. \A f, g, h \in Found : Above(f, g) /\ Above(g, h) => Above(f, h)
  BY <1>2 DEF Above
<1>6. \A f, g \in Found : f = g \/ Above(f, g) \/ Above(g, f)
  BY <1>2, <1>3 DEF Above
<1>7. \A f \in Found : ~ Before(f, f)
  BY <1>2, <1>4 DEF Before
<1>8. \A f, g, h \in Found : Before(f, g) /\ Before(g, h) => Before(f, h)
  BY <1>2, <1>5 DEF Before
<1>9. \A f, g \in Found : f = g \/ Before(f, g) \/ Before(g, f)
  BY <1>2, <1>6 DEF Before
<1> QED
  BY <1>7, <1>8, <1>9

(* Sorted enumerates the findings in their order: how many findings come   *)
(* before one of them numbers them without a gap.                          *)
LEMMA SortedFacts ==
  ASSUME NodesInit
  PROVE  LET sorted == Sorted(Found)
         IN /\ DOMAIN sorted = 1 .. Cardinality(Found) /\ Cardinality(Found) \in Nat
            /\ \A i \in DOMAIN sorted : sorted[i] \in Found
            /\ \A f \in Found : \E i \in DOMAIN sorted : sorted[i] = f
            /\ \A i, j \in DOMAIN sorted : i < j => Before(sorted[i], sorted[j])
<1> DEFINE n == Cardinality(Found)
           Preceding(f) == {g \in Found : Before(g, f)}
           rank == [f \in Found |-> Cardinality(Preceding(f))]
           sorted == Sorted(Found)
<1>1. IsFiniteSet(Found) /\ n \in Nat
  BY FoundFinite, FS_CardinalityType
<1>2. ASSUME NEW f \in Found PROVE IsFiniteSet(Preceding(f)) /\ rank[f] \in 0 .. n - 1
  <2>1. Preceding(f) \in SUBSET (Found \ {f})
    BY BeforeOrders
  <2>2. IsFiniteSet(Found \ {f}) /\ Cardinality(Found \ {f}) = n - 1
    BY <1>1, FS_RemoveElement
  <2>3. IsFiniteSet(Preceding(f)) /\ Cardinality(Preceding(f)) <= n - 1
    BY <2>1, <2>2, FS_Subset
  <2>4. Cardinality(Preceding(f)) \in Nat
    BY <2>3, FS_CardinalityType
  <2> QED
    BY <1>1, <2>3, <2>4
<1>3. \A f \in Found : rank[f] \in 0 .. n - 1 /\ rank[f] \in Nat
  <2> TAKE f \in Found
  <2>1. rank[f] \in 0 .. n - 1
    BY <1>2
  <2> HIDE DEF rank, n
  <2> QED
    BY <1>1, <2>1
<1>4. ASSUME NEW f \in Found, NEW g \in Found, Before(f, g) PROVE rank[f] < rank[g]
  <2>1. Preceding(f) \in SUBSET Preceding(g)
    BY <1>4, BeforeOrders
  <2>2. f \in Preceding(g) /\ f \notin Preceding(f)
    BY <1>4, BeforeOrders
  <2>3. /\ Cardinality(Preceding(f)) <= Cardinality(Preceding(g))
        /\ Cardinality(Preceding(f)) # Cardinality(Preceding(g))
    BY <1>2, <2>1, <2>2, FS_Subset
  <2>4. rank[f] = Cardinality(Preceding(f)) /\ rank[g] = Cardinality(Preceding(g))
    OBVIOUS
  <2> QED
    BY <1>3, <2>3, <2>4
<1>5. /\ DOMAIN sorted = 1 .. n
      /\ \A i \in 1 .. n : sorted[i] = CHOOSE f \in Found : Cardinality(Preceding(f)) = i - 1
  BY DEF Sorted
<1> HIDE DEF rank, n
<1>6. ASSUME NEW f \in Found, NEW g \in Found, rank[f] = rank[g] PROVE f = g
  <2>1. ~ Before(f, g) /\ ~ Before(g, f)
    BY <1>3, <1>4, <1>6
  <2> QED
    BY <2>1, BeforeOrders
<1>7. rank \in [Found -> 0 .. n - 1]
  BY <1>3 DEF rank
<1>8. \A i \in 0 .. n - 1 : \E f \in Found : rank[f] = i
  <2>1. IsFiniteSet(0 .. n - 1) /\ Cardinality(0 .. n - 1) = n
    BY <1>1, FS_Interval
  <2>2. rank \in Injection(Found, 0 .. n - 1)
    BY <1>6, <1>7 DEF Injection, IsInjective
  <2>3. rank \in Surjection(Found, 0 .. n - 1)
    BY <2>1, <2>2, FS_Injection DEF n
  <2> QED
    BY <2>3 DEF Surjection
<1>9. ASSUME NEW i \in 1 .. n PROVE sorted[i] \in Found /\ rank[sorted[i]] = i - 1
  <2>1. i - 1 \in 0 .. n - 1
    BY <1>1
  <2>2. \A f \in Found : rank[f] = Cardinality(Preceding(f))
    BY DEF rank
  <2>3. \E f \in Found : Cardinality(Preceding(f)) = i - 1
    BY <1>8, <2>1, <2>2
  <2>4. sorted[i] \in Found /\ Cardinality(Preceding(sorted[i])) = i - 1
    BY <1>5, <2>3
  <2> QED
    BY <2>2, <2>4
<1>10. DOMAIN sorted = 1 .. n
  BY <1>5
<1> HIDE DEF sorted
<1>11. ASSUME NEW f \in Found PROVE \E i \in DOMAIN sorted : sorted[i] = f
  <2>1. rank[f] + 1 \in 1 .. n /\ (rank[f] + 1) - 1 = rank[f]
    BY <1>1, <1>3
  <2>2. sorted[rank[f] + 1] \in Found /\ rank[sorted[rank[f] + 1]] = (rank[f] + 1) - 1
    BY <1>9, <2>1
  <2> QED
    BY <1>6, <1>10, <2>1, <2>2
<1>12. ASSUME NEW i \in DOMAIN sorted, NEW j \in DOMAIN sorted, i < j
       PROVE  Before(sorted[i], sorted[j])
  <2>1. /\ sorted[i] \in Found /\ sorted[j] \in Found
        /\ rank[sorted[i]] < rank[sorted[j]]
    BY <1>1, <1>9, <1>10, <1>12
  <2>2. sorted[i] # sorted[j] /\ ~ Before(sorted[j], sorted[i])
    BY <1>3, <1>4, <2>1
  <2> QED
    BY <2>1, <2>2, BeforeOrders
<1> QED
  BY <1>1, <1>9, <1>10, <1>11, <1>12 DEF sorted, n

-----------------------------------------------------------------------------
(* The risk.                                                               *)

(* The risk is the severity of a finding that no other exceeds.            *)
LEMMA RiskFacts ==
  ASSUME NodesInit
  PROVE  /\ Found = {} => Risk(Found) = "INFO"
         /\ Found # {} => /\ \E f \in Found : Risk(Found) = f.severity
                          /\ \A f \in Found : Rank(f.severity) <= Rank(Risk(Found))
<1>1. CASE Found = {}
  BY <1>1 DEF Risk
<1>2. CASE Found # {}
  <2> DEFINE Highest(f) == \A g \in Found : Rank(f.severity) >= Rank(g.severity)
             highest == CHOOSE f \in Found : Highest(f)
  <2>1. \A f \in Found : \/ f.severity = "HIGH" /\ Rank(f.severity) = 4
                         \/ f.severity = "MEDIUM" /\ Rank(f.severity) = 3
    BY FoundFacts, RankIs
  <2>2. \E f \in Found : Highest(f)
    <3>1. CASE \E f \in Found : f.severity = "HIGH"
      BY <2>1, <3>1
    <3>2. CASE ~ \E f \in Found : f.severity = "HIGH"
      BY <1>2, <2>1, <3>2
    <3> QED
      BY <3>1, <3>2
  <2>3. highest \in Found /\ Highest(highest)
    BY <2>2
  <2>4. Risk(Found) = highest.severity
    BY <1>2 DEF Risk
  <2> HIDE DEF highest
  <2>5. \A f \in Found : Rank(f.severity) <= Rank(Risk(Found))
    BY <2>1, <2>3, <2>4
  <2> QED
    BY <1>2, <2>3, <2>4, <2>5
<1> QED
  BY <1>1, <1>2

(* A rule finds something HIGH in a revision exactly if it is dangerous.   *)
LEMMA HighIsDangerous ==
  ASSUME NEW path, NEW node \in NodeType
  PROVE  Dangerous(node) <=> \E f \in Evaluate(path, node) : f.severity = "HIGH"
<1> DEFINE calls == node.upgrade
           HighCall(c) == \/ c \in [call : {"drop"}]
                          \/ c \in [call : {"execute"}, sql : {"drop"}]
                          \/ c \in [call : {"add_column"}, column : {"required"}]
<1>1. DOMAIN calls = 1 .. Len(calls) /\ \A i \in DOMAIN calls : calls[i] \in Operation
  BY DEF NodeType
<1>2. \A c \in Operation :
        /\ c \in [call : {"drop"}] <=> c.call = "drop"
        /\ c \in [call : {"execute"}, sql : {"drop"}] <=> c.call = "execute" /\ c.sql = "drop"
        /\ c \in [call : {"add_column"}, column : {"required"}]
             <=> c.call = "add_column" /\ c.column = "required"
  BY DEF Operation
<1>3. ASSUME Dangerous(node)
      PROVE  \E f \in Evaluate(path, node) : f.severity = "HIGH"
  <2>1. CASE node.downgrade \in {"absent", "pass", "raises"}
    <3>1. PICK f \in IrreversibleDowngrade(path, node) : f.severity = "HIGH"
      BY <2>1, FindingIs DEF IrreversibleDowngrade
    <3> QED
      BY <3>1 DEF Evaluate
  <2>2. CASE \E i \in DOMAIN calls : HighCall(calls[i])
    <3>1. PICK i \in DOMAIN calls : HighCall(calls[i])
      BY <2>2
    <3>2. calls[i] \in Operation
      BY <1>1
    <3>3. CASE calls[i].call = "drop" \/ (calls[i].call = "execute" /\ calls[i].sql = "drop")
      <4>1. Finding("SOPS001", "HIGH", path, i + 1, 0) \in DestructiveDdl(path, calls)
        BY <3>3 DEF DestructiveDdl
      <4> QED
        BY <4>1, FindingIs DEF Evaluate
    <3>4. CASE calls[i].call = "add_column" /\ calls[i].column = "required"
      <4>1. Finding("SOPS002", "HIGH", path, i + 1, 0) \in DirectNotNull(path, calls)
        BY <3>4 DEF DirectNotNull
      <4> QED
        BY <4>1, FindingIs DEF Evaluate
    <3> QED
      BY <1>2, <3>1, <3>2, <3>3, <3>4
  <2> QED
    BY <1>3, <2>1, <2>2 DEF Dangerous
<1>4. ASSUME NEW f \in Evaluate(path, node), f.severity = "HIGH"
      PROVE  Dangerous(node)
  <2>1. CASE f \in DestructiveDdl(path, calls)
    <3>1. PICK i \in DOMAIN calls :
            calls[i].call = "drop" \/ (calls[i].call = "execute" /\ calls[i].sql = "drop")
      BY <2>1 DEF DestructiveDdl
    <3> QED
      BY <1>1, <1>2, <3>1 DEF Dangerous
  <2>2. CASE f \in DirectNotNull(path, calls)
    <3>1. PICK i \in DOMAIN calls :
            /\ calls[i].call = "add_column"
            /\ f = Finding("SOPS002", IF calls[i].column = "required" THEN "HIGH" ELSE "MEDIUM",
                           path, i + 1, 0)
      BY <2>2 DEF DirectNotNull
    <3>2. calls[i].column = "required"
      BY <1>4, <3>1, FindingIs
    <3> QED
      BY <1>1, <1>2, <3>1, <3>2 DEF Dangerous
  <2>3. f \notin NonConcurrentIndex(path, calls)
    BY <1>4, FindingIs DEF NonConcurrentIndex
  <2>4. CASE f \in IrreversibleDowngrade(path, node)
    <3>1. node.downgrade # "other"
      BY <2>4 DEF IrreversibleDowngrade
    <3> QED
      BY <3>1 DEF NodeType, Downgrades, Dangerous
  <2> QED
    BY <2>1, <2>2, <2>3, <2>4 DEF Evaluate
<1> QED
  BY <1>3, <1>4

LEMMA HighIsJustified ==
  ASSUME NodesInit
  PROVE  (\E f \in Found : f.severity = "HIGH")
           <=> \/ structure # <<>>
               \/ \E i \in DOMAIN nodes : nodes[i].changed /\ Dangerous(nodes[i])
<1>1. \A i \in DOMAIN nodes : nodes[i] \in NodeType
  BY NodeFacts
<1>2. (\E f \in ContentFindings : f.severity = "HIGH")
        <=> \E i \in DOMAIN nodes : nodes[i].changed /\ Dangerous(nodes[i])
  <2>1. \A i \in DOMAIN nodes :
          Dangerous(nodes[i]) <=> \E f \in Evaluate(i, nodes[i]) : f.severity = "HIGH"
    BY <1>1, HighIsDangerous
  <2> QED
    BY <2>1 DEF ContentFindings
<1>3. (\E f \in StructuralFindings : f.severity = "HIGH") <=> structure # <<>>
  <2>1. structure \in Seq(0 .. 2) /\ DOMAIN structure = 1 .. Len(structure)
    BY NodeFacts
  <2>2. structure # <<>> <=> DOMAIN structure # {}
    BY <2>1
  <2>3. \A i \in DOMAIN structure : Finding("STRUCTURE", "HIGH", structure[i], 1, i).severity = "HIGH"
    BY FindingIs
  <2> QED
    BY <2>2, <2>3 DEF StructuralFindings
<1> QED
  BY <1>2, <1>3 DEF Found

-----------------------------------------------------------------------------

(* The report is not there, or is what the snapshot and the graph say.     *)
RulesInv ==
  /\ NodesInit
  /\ report # NoReport => report = [findings |-> Sorted(Found), risk |-> Risk(Found)]

LEMMA ReportIsJustified ==
  ASSUME RulesInv
  PROVE  RiskIsJustified
<1> DEFINE sorted == Sorted(Found)
<1> SUFFICES ASSUME report # NoReport PROVE
      /\ report.risk = IF report.findings = <<>> THEN "INFO" ELSE report.findings[1].severity
      /\ \A i \in DOMAIN report.findings :
           Rank(report.findings[i].severity) <= Rank(report.risk)
      /\ report.risk = "HIGH" <=>
           \/ structure # <<>>
           \/ \E i \in DOMAIN nodes : nodes[i].changed /\ Dangerous(nodes[i])
  BY DEF RiskIsJustified
<1>1. NodesInit /\ report.findings = sorted /\ report.risk = Risk(Found)
  BY DEF RulesInv
<1>2. /\ DOMAIN sorted = 1 .. Cardinality(Found) /\ Cardinality(Found) \in Nat
      /\ \A i \in DOMAIN sorted : sorted[i] \in Found
      /\ \A f \in Found : \E i \in DOMAIN sorted : sorted[i] = f
      /\ \A i, j \in DOMAIN sorted : i < j => Before(sorted[i], sorted[j])
  BY <1>1, SortedFacts
<1> HIDE DEF sorted
<1>3. \A f \in Found : \/ f.severity = "HIGH" /\ Rank(f.severity) = 4
                       \/ f.severity = "MEDIUM" /\ Rank(f.severity) = 3
  BY <1>1, FoundFacts, RankIs
<1>4. CASE Found = {}
  <2>1. DOMAIN sorted = {}
    BY <1>2, <1>4
  <2>2. sorted = <<>>
    BY <1>4, <2>1, FS_EmptySet DEF sorted, Sorted
  <2>3. report.risk = "INFO"
    BY <1>1, <1>4, RiskFacts
  <2>4. ~ \E f \in Found : f.severity = "HIGH"
    BY <1>4
  <2> QED
    BY <1>1, <2>1, <2>2, <2>3, <2>4, HighIsJustified
<1>5. CASE Found # {}
  <2>1. 1 \in DOMAIN sorted
    <3>1. PICK i \in DOMAIN sorted : TRUE
      BY <1>2, <1>5
    <3> QED
      BY <1>2, <3>1
  <2>2. sorted # <<>>
    BY <2>1
  <2>3. sorted[1] \in Found
    BY <1>2, <2>1
  <2>4. \A f \in Found : Rank(f.severity) <= Rank(sorted[1].severity)
    <3> TAKE f \in Found
    <3>1. PICK i \in DOMAIN sorted : sorted[i] = f
      BY <1>2
    <3>2. i = 1 \/ 1 < i
      BY <1>2, <3>1
    <3>3. f = sorted[1] \/ Before(sorted[1], f)
      BY <1>2, <2>1, <3>1, <3>2
    <3> QED
      BY <1>3, <2>3, <3>3 DEF Before
  <2>5. PICK f \in Found : Risk(Found) = f.severity
    BY <1>1, <1>5, RiskFacts
  <2>6. \A g \in Found : Rank(g.severity) <= Rank(Risk(Found))
    BY <1>1, <1>5, RiskFacts
  <2>7. Risk(Found) = sorted[1].severity
    <3>1. Rank(f.severity) <= Rank(sorted[1].severity)
      BY <2>4
    <3>2. Rank(sorted[1].severity) <= Rank(f.severity)
      BY <2>3, <2>5, <2>6
    <3> QED
      BY <1>3, <2>3, <2>5, <3>1, <3>2
  <2>8. Risk(Found) = "HIGH" <=> \E g \in Found : g.severity = "HIGH"
    BY <1>3, <2>5, <2>6
  <2> QED
    BY <1>1, <1>2, <2>2, <2>6, <2>7, <2>8, HighIsJustified
<1> QED
  BY <1>4, <1>5

LEMMA RulesStep ==
  ASSUME RulesInv, [Analyze]_ruleVars
  PROVE  RulesInv'
<1>1. UNCHANGED <<nodes, structure>>
  BY DEF Analyze, ruleVars
<1>2. NodesInit' /\ UNCHANGED <<Found, Sorted(Found), Risk(Found)>>
  BY <1>1 DEF RulesInv, NodesInit, Found, ContentFindings, StructuralFindings, Sorted, Risk
<1>3. CASE Analyze
  BY <1>2, <1>3 DEF RulesInv, Analyze, Found
<1>4. CASE UNCHANGED ruleVars
  BY <1>2, <1>4 DEF RulesInv, ruleVars
<1> QED
  BY <1>3, <1>4

(* A report says of its snapshot and graph what the rules say, sorted.     *)
THEOREM RulesInvariant == RulesSpec => []RulesInv
<1>1. RulesInit => RulesInv
  BY DEF RulesInit, RulesInv
<1>2. RulesInv /\ [Analyze]_ruleVars => RulesInv'
  BY RulesStep
<1> QED
  BY <1>1, <1>2, PTL DEF RulesSpec

(* The risk of a report (StaticAuditService.analyze) is the severity of    *)
(* its first finding, and HIGH exactly if a changed revision is dangerous  *)
(* or the graph is ambiguous.                                              *)
THEOREM RiskAlwaysJustified == RulesSpec => []RiskIsJustified
<1>1. RulesInv => RiskIsJustified
  BY ReportIsJustified
<1> QED
  BY <1>1, RulesInvariant, PTL

-----------------------------------------------------------------------------
(* Refinement: a worker claims, works, decides, and ends the stage or      *)
(* leaves, whatever the provider answers.                                  *)

At == [w \in PlanningWorker |-> PlanningWorkOf(w)]
Moves(w) == planner[w] # "idle" /\ HoldsPlanning(w)
Movers == {w \in PlanningWorker : Moves(w)}
Fate == IF outcome = "READY" THEN "COMPLETED" ELSE outcome

AtWork == planner \in [PlanningWorker -> PlannerPhases]

DeliveryStep == [PlanningDelivery!DeliveryNext]_(PlanningDelivery!deliveryVars)

LEMMA IdleView ==
  ASSUME NEW w \in PlanningWorker, planner[w] = "idle"
  PROVE  PlanningWorkOf(w) = PlanningDelivery!NoWork /\ ~Moves(w)
BY DEF PlanningWorkOf, Moves, PlanningDelivery!NoWork

LEMMA BusyView ==
  ASSUME NEW w \in PlanningWorker, planner[w] # "idle"
  PROVE  /\ PlanningWorkOf(w) =
              [stage |-> 1, key |-> "STAGE", exit |-> PlanningDecision(w)]
         /\ PlanningWorkOf(w) # PlanningDelivery!NoWork
         /\ PlanningWorkOf(w).exit = PlanningDecision(w)
         /\ PlanningWorkOf(w).key = "STAGE"
<1>1. PlanningWorkOf(w) = [stage |-> 1, key |-> "STAGE", exit |-> PlanningDecision(w)]
  BY DEF PlanningWorkOf
<1>2. PlanningWorkOf(w).stage = 1 /\ PlanningDelivery!NoWork.stage = 0
  BY <1>1 DEF PlanningDelivery!NoWork
<1> QED
  BY <1>1, <1>2

LEMMA WorkerDelivers ==
  ASSUME NEW w \in PlanningWorker,
         \/ PlanningDelivery!Start(w, "STAGE")
         \/ PlanningDelivery!Move(w) \/ PlanningDelivery!Leave(w)
         \/ PlanningDelivery!Decide(w, "ONWARDS") \/ PlanningDelivery!Decide(w, "FAILED")
  PROVE  DeliveryStep
<1>1. /\ "STAGE" \in PlanningDelivery!Keys
      /\ "ONWARDS" \in PlanningDelivery!Exits /\ "FAILED" \in PlanningDelivery!Exits
  BY DEF PlanningDelivery!Keys, PlanningDelivery!Exits
<1> QED
  BY <1>1 DEF DeliveryStep, PlanningDelivery!DeliveryNext

(* What is seen of the workers that a step of one leaves as they are.      *)
SeesNoChange(u) ==
  PlanningWorkOf(u)' = PlanningWorkOf(u) /\ (Moves(u)' <=> Moves(u))

LEMMA Undisturbed ==
  ASSUME NEW u \in PlanningWorker, planner'[u] = planner[u], UNCHANGED <<outcome, claimant>>
  PROVE  SeesNoChange(u)
BY DEF SeesNoChange, PlanningWorkOf, PlanningDecision, Moves, HoldsPlanning

LEMMA UnseenStep ==
  ASSUME outcome' = outcome, \A u \in PlanningWorker : SeesNoChange(u)
  PROVE  DeliveryStep
<1>1. At' = At /\ Movers' = Movers
  BY DEF SeesNoChange, At, Movers
<1> QED
  BY <1>1 DEF At, Movers, Moves, DeliveryStep, PlanningDelivery!deliveryVars

LEMMA AtChanges ==
  ASSUME NEW w \in PlanningWorker,
         \A u \in PlanningWorker \ {w} : PlanningWorkOf(u)' = PlanningWorkOf(u)
  PROVE  At' = [At EXCEPT ![w] = PlanningWorkOf(w)']
BY DEF At

(* What a worker does between its claim and its end.                       *)
Works(w) ==
  /\ planner[w] \notin {"idle", "finalizing", "failing"}
  /\ UNCHANGED <<outcome, claimant>>
  /\ DropPlanning(w) \/ \E place \in PlannerPhases \ {"idle"} : PlannerGoesTo(w, place)

LEMMA LeavesView ==
  ASSUME AtWork, NEW w \in PlanningWorker, planner[w] # "idle", DropPlanning(w),
         UNCHANGED <<outcome, claimant>>
  PROVE  DeliveryStep
<1>1. /\ planner'[w] = "idle"
      /\ \A u \in PlanningWorker \ {w} : SeesNoChange(u)
  BY Undisturbed DEF DropPlanning, PlannerGoesTo, AtWork
<1>2. PlanningWorkOf(w)' = PlanningDelivery!NoWork /\ ~Moves(w)'
  BY <1>1 DEF PlanningWorkOf, Moves, PlanningDelivery!NoWork
<1>3. At' = [At EXCEPT ![w] = PlanningDelivery!NoWork]
  BY <1>1, <1>2, AtChanges DEF SeesNoChange
<1>4. Movers' = Movers \ {w}
  BY <1>1, <1>2 DEF Movers, SeesNoChange
<1>5. At[w] # PlanningDelivery!NoWork
  BY BusyView DEF At
<1>6. PlanningDelivery!Leave(w)
  BY <1>3, <1>4, <1>5 DEF At, Movers, Moves, PlanningDelivery!Leave
<1> QED
  BY <1>6, WorkerDelivers

LEMMA WorksView ==
  ASSUME AtWork, NEW w \in PlanningWorker, Works(w)
  PROVE  DeliveryStep
<1>1. /\ planner[w] # "idle" /\ PlanningDecision(w) = "NONE"
      /\ UNCHANGED <<outcome, claimant>>
  BY DEF Works, PlanningDecision
<1>2. CASE DropPlanning(w)
  BY <1>1, <1>2, LeavesView
<1>3. CASE ~DropPlanning(w)
  <2>1. PICK place \in PlannerPhases \ {"idle"} : PlannerGoesTo(w, place)
    BY <1>3 DEF Works
  <2>2. /\ planner'[w] = place
        /\ \A u \in PlanningWorker \ {w} : SeesNoChange(u)
    BY <1>1, <2>1, Undisturbed DEF PlannerGoesTo, AtWork
  <2>3. Moves(w)' <=> Moves(w)
    BY <1>1, <2>1, <2>2 DEF Moves, HoldsPlanning
  <2>4. PlanningWorkOf(w) = [stage |-> 1, key |-> "STAGE", exit |-> "NONE"]
    BY <1>1, BusyView
  <2>5. PlanningWorkOf(w)' = [stage |-> 1, key |-> "STAGE", exit |-> PlanningDecision(w)']
    BY <2>1, <2>2 DEF PlanningWorkOf
  <2>6. CASE place \notin {"finalizing", "failing"}
    <3>1. PlanningDecision(w)' = "NONE"
      BY <2>2, <2>6 DEF PlanningDecision
    <3>2. SeesNoChange(w)
      BY <2>3, <2>4, <2>5, <3>1 DEF SeesNoChange
    <3> QED
      BY <1>1, <2>2, <3>2, UnseenStep
  <2>7. CASE place \in {"finalizing", "failing"}
    <3>1. PICK exit \in {"ONWARDS", "FAILED"} : PlanningDecision(w)' = exit
      BY <2>2, <2>7 DEF PlanningDecision
    <3>2. PlanningWorkOf(w)' = [PlanningWorkOf(w) EXCEPT !.exit = exit]
      BY <2>4, <2>5, <3>1
    <3>3. At[w] = PlanningWorkOf(w) /\ At' = [At EXCEPT ![w] = PlanningWorkOf(w)']
      BY <2>2, AtChanges DEF At, SeesNoChange
    <3>4. At' = [At EXCEPT ![w].exit = exit]
      BY <3>2, <3>3
    <3>5. Movers' = Movers
      BY <2>2, <2>3 DEF Movers, SeesNoChange
    <3>6. At[w] # PlanningDelivery!NoWork /\ At[w].exit = "NONE"
      BY <1>1, <3>3, BusyView
    <3>7. PlanningDelivery!Decide(w, exit)
      BY <1>1, <3>1, <3>4, <3>5, <3>6 DEF At, Movers, Moves, PlanningDelivery!Decide
    <3> QED
      BY <3>1, <3>7, WorkerDelivers
  <2> QED
    BY <2>6, <2>7
<1> QED
  BY <1>2, <1>3

LEMMA ClaimView ==
  ASSUME AtWork, NEW w \in PlanningWorker, ClaimPlanning(w)
  PROVE  DeliveryStep
<1>1. /\ planner[w] = "idle" /\ planner'[w] = "claimed" /\ outcome = "RUNNING"
      /\ outcome' = outcome /\ claimant' = {w}
      /\ \A u \in PlanningWorker \ {w} : planner'[u] = planner[u]
  BY DEF ClaimPlanning, PlannerGoesTo, AtWork
<1>2. ASSUME NEW u \in PlanningWorker \ {w}
      PROVE  PlanningWorkOf(u)' = PlanningWorkOf(u) /\ ~Moves(u)'
  <2>1. PlanningWorkOf(u)' = PlanningWorkOf(u)
    BY <1>1 DEF PlanningWorkOf, PlanningDecision
  <2>2. {w} # {u}
    OBVIOUS
  <2> QED
    BY <1>1, <2>1, <2>2 DEF Moves, HoldsPlanning
<1>3. PlanningWorkOf(w)' = [stage |-> 1, key |-> "STAGE", exit |-> "NONE"]
  BY <1>1 DEF PlanningWorkOf, PlanningDecision
<1>4. At' = [At EXCEPT ![w] = [stage |-> 1, key |-> "STAGE", exit |-> "NONE"]]
  BY <1>2, <1>3, AtChanges
<1>5. Moves(w)' /\ At[w] = PlanningDelivery!NoWork
  BY <1>1, IdleView DEF Moves, HoldsPlanning, At
<1>6. Movers' = {x \in Movers : At[x].key # "STAGE"} \union {w}
  <2>1. ASSUME NEW x \in Movers PROVE At[x].key = "STAGE"
    BY BusyView DEF Movers, Moves, At
  <2> QED
    BY <1>2, <1>5, <2>1 DEF Movers
<1>7. PlanningDelivery!Start(w, "STAGE")
  BY <1>1, <1>4, <1>5, <1>6 DEF At, Movers, Moves, PlanningDelivery!Start
<1> QED
  BY <1>7, WorkerDelivers

(* Only who holds the claim ends the stage; then nobody does.              *)
LEMMA MoveView ==
  ASSUME AtWork, NEW w \in PlanningWorker, FinalizePlanning(w) \/ FailPlanning(w)
  PROVE  DeliveryStep
<1>1. planner[w] # "idle" /\ DropPlanning(w)
  BY DEF FinalizePlanning, FailPlanning, EndStage
<1>2. CASE ~HoldsPlanning(w)
  BY <1>1, <1>2, LeavesView DEF FinalizePlanning, FailPlanning, EndStage
<1>3. CASE HoldsPlanning(w)
  <2>1. /\ claimant' = {} /\ outcome = "RUNNING" /\ planner'[w] = "idle"
        /\ \A u \in PlanningWorker \ {w} : planner'[u] = planner[u]
    BY <1>1, <1>3
       DEF FinalizePlanning, FailPlanning, EndStage, HoldsPlanning, DropPlanning,
           PlannerGoesTo, AtWork
  <2>2. Movers' = {} /\ w \in Movers
    <3>1. \A u \in PlanningWorker : {u} # {}
      OBVIOUS
    <3> QED
      BY <1>1, <1>3, <2>1, <3>1 DEF Movers, Moves, HoldsPlanning
  <2>3. At' = [At EXCEPT ![w] = PlanningDelivery!NoWork] /\ At[w] = PlanningWorkOf(w)
    <3>1. \A u \in PlanningWorker \ {w} : PlanningWorkOf(u)' = PlanningWorkOf(u)
      BY <2>1 DEF PlanningWorkOf, PlanningDecision
    <3>2. PlanningWorkOf(w)' = PlanningDelivery!NoWork
      BY <2>1 DEF PlanningWorkOf, PlanningDelivery!NoWork
    <3> QED
      BY <3>1, <3>2, AtChanges DEF At
  <2>4. At[w].exit = PlanningDecision(w) /\ Fate = "RUNNING"
    BY <1>1, <2>1, <2>3, BusyView DEF Fate
  <2>5. CASE planner[w] = "finalizing"
    <3>1. PlanningDecision(w) = "ONWARDS" /\ Fate' = "COMPLETED"
      BY <1>3, <2>5
         DEF PlanningDecision, Fate, FinalizePlanning, FailPlanning, EndStage
    <3>2. PlanningDelivery!MoveOnwards
      BY <3>1 DEF Fate, PlanningDelivery!MoveOnwards
    <3> QED
      BY <2>2, <2>3, <2>4, <3>1, <3>2, WorkerDelivers
         DEF At, Movers, Moves, PlanningDelivery!Move
  <2>6. CASE planner[w] = "failing"
    <3>1. PlanningDecision(w) = "FAILED" /\ Fate' = "FAILED"
      BY <1>3, <2>6
         DEF PlanningDecision, Fate, FinalizePlanning, FailPlanning, EndStage
    <3>2. PlanningDelivery!MoveToEnd(At[w].exit)
      BY <2>4, <3>1 DEF Fate, PlanningDelivery!MoveToEnd
    <3> QED
      BY <2>2, <2>3, <2>4, <3>1, <3>2, WorkerDelivers
         DEF At, Movers, Moves, PlanningDelivery!Move
  <2> QED
    BY <2>5, <2>6 DEF FinalizePlanning, FailPlanning, EndStage
<1> QED
  BY <1>2, <1>3

LEMMA NextDelivers ==
  ASSUME AtWork, [PlanningNext]_planningVars
  PROVE  DeliveryStep
<1>1. ASSUME NEW w \in PlanningWorker,
             BeginPlanning(w) \/ PlanStage(w) \/ PlanReturned(w)
      PROVE  Works(w)
  <2>1. CASE Ask(w) /\ UNCHANGED planner
    BY <2>1 DEF Ask, Works, OnlyPlanner, PlannerGoesTo, AtWork, PlannerPhases
  <2>2. CASE Ask(w) /\ ~UNCHANGED planner
    BY <2>2 DEF Ask, Works, OnlyPlanner, PlannerPhases
  <2> QED
    BY <1>1, <2>1, <2>2
       DEF BeginPlanning, PlanReturned, PlanStage, LookupPlan, GatherContext, PlanComputed,
           SaveResult, PlanningCheckpoint, OnlyPlanner, Works, PlannerPhases
<1>2. ASSUME NEW w \in PlanningWorker, PlannerCrash(w) PROVE DeliveryStep
  BY <1>2, LeavesView DEF PlannerCrash, OnlyPlanner
<1>3. CASE UNCHANGED planningVars
  BY <1>3, Undisturbed, UnseenStep DEF planningVars
<1> QED
  BY <1>1, <1>2, <1>3, ClaimView, WorksView, MoveView DEF PlanningNext, PlanningWork

LEMMA NextAtWork ==
  ASSUME AtWork, [PlanningNext]_planningVars
  PROVE  AtWork'
<1>1. ASSUME NEW w \in PlanningWorker, PlanningWork(w)
      PROVE  \/ UNCHANGED planner
             \/ \E place \in PlannerPhases : PlannerGoesTo(w, place)
  BY <1>1
     DEF PlanningWork, ClaimPlanning, BeginPlanning, PlanReturned, PlanStage, LookupPlan,
         GatherContext, Ask, PlanComputed, SaveResult, PlanningCheckpoint,
         FinalizePlanning, FailPlanning, EndStage, PlannerCrash, DropPlanning,
         PlannerPhases
<1> QED
  BY <1>1 DEF AtWork, PlanningNext, planningVars, PlannerGoesTo

LEMMA InitDelivers ==
  ASSUME PlanningInit
  PROVE  AtWork /\ PlanningDelivery!DeliveryInit
<1>1. \A w \in PlanningWorker : PlanningWorkOf(w) = PlanningDelivery!NoWork /\ ~Moves(w)
  BY IdleView DEF PlanningInit
<1>2. AtWork
  BY DEF PlanningInit, AtWork, PlannerPhases
<1> QED
  BY <1>1, <1>2 DEF PlanningInit, Moves, PlanningDelivery!DeliveryInit

(* The planning handler starts, decides, ends the stage and loses it as    *)
(* StageDelivery allows and in no other way, for every provider and not    *)
(* only for one that answers always in one way.                            *)
THEOREM PlanningDeliveryRefinement == PlanningSpec => PlanningDelivered
<1>1. PlanningInit => AtWork /\ PlanningDelivery!DeliveryInit
  BY InitDelivers
<1>2. AtWork /\ [PlanningNext]_planningVars =>
        [PlanningDelivery!DeliveryNext]_(PlanningDelivery!deliveryVars)
  BY NextDelivers DEF DeliveryStep
<1>3. AtWork /\ [PlanningNext]_planningVars => AtWork'
  BY NextAtWork
<1> QED
  BY <1>1, <1>2, <1>3, PTL
     DEF PlanningSpec, PlanningDelivered, PlanningDelivery!DeliverySpec
=============================================================================
