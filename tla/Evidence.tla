------------------------------ MODULE Evidence ------------------------------
(***************************************************************************)
(* The evidence of a run.  Every runner action leaves an execution row; a  *)
(* collector (DynamicEvidenceCollector) turns what the rows say into       *)
(* artifacts, files named by the hash of their content, and into item rows *)
(* that refer to them.  It is called by the last stage, REPORTING, and by  *)
(* process_run_event when a stage fails or is cancelled; there its errors  *)
(* are suppressed.                                                         *)
(*                                                                         *)
(* A content stands for its hash.  Delivery is that of StageDelivery, with *)
(* a step for the stage and one for its cancellation; the runner and its   *)
(* container are ShadowSandbox's, and the environment the executions       *)
(* belong to was provisioned before.                                       *)
(***************************************************************************)
EXTENDS Naturals, FiniteSets

CONSTANTS
  Worker,       \* worker processes
  ActionCount,  \* runner actions of a run; the first upgrades to the baseline
  Content,      \* what an artifact may hold
  Output,       \* what the runner of each action prints and observes
  Faults,       \* what may go wrong: "crash", "takeover", "cancel", "exhausted"
  MaxErrors     \* bound of the model: errors of the file system or database

VARIABLES
  run,         \* its stage, its outcome and whether it is to be cancelled
  owner,       \* who claimed the stage, and its cancellation, if anybody did
  executions,  \* the runner_executions row of each action
  store,       \* the artifact of each content
  leftovers,   \* temporary files whose writer died
  items,       \* how many evidence_items rows there are of each item
  errors,      \* errors of the file system or database so far
  pc,          \* where each worker stands
  mem          \* what each worker holds in memory

delivery == <<run, owner>>
rows == <<executions, items>>
files == <<store, leftovers>>
evidenceVars == <<delivery, rows, files, errors, pc, mem>>

-----------------------------------------------------------------------------

Action == 1 .. ActionCount

(* The stages: one per runner action, in their order, and REPORTING.       *)
Reporting == ActionCount + 1

(* _DYNAMIC_EVIDENCE_STATES: every stage but the upgrade to the baseline.  *)
EvidenceStages == 2 .. Reporting

(* What makes an item unique: its execution, its kind and its hash.        *)
Item == UNION {{[action |-> a, kind |-> p.kind, content |-> p.content] :
                p \in Output[a]} : a \in Action}

ItemsOf(as) == {i \in Item : i.action \in as}
Contents(is) == {i.content : i \in is}

Executed == {a \in Action : executions[a] # "NONE"}

(* How a stage ends: its handler returns ("report" while the handler of    *)
(* REPORTING still collects), a checkpoint sees a cancellation, or a       *)
(* RepositoryInputError of the runner or of the collection is raised.      *)
Exits == {"return", "report", "cancel", "runner", "evidence"}

Collecting == {"gather", "put", "written", "save"}
Phases == Collecting \union
  {"idle", "claimed", "recall", "verify", "store", "reporting", "returned",
   "finalizing", "failing"}

ASSUME EvidenceAssumption ==
  /\ ActionCount \in Nat \ {0} /\ MaxErrors \in Nat
  /\ Output \in [Action -> SUBSET [kind : STRING, content : Content]]

Nothing == {}
Keys == {"STAGE", "CANCELLED"}
NotClaimed == [k \in Keys |-> Nothing]

(* cancel is what finalize read of the request to cancel.                  *)
NoMem == [stage |-> 0, key |-> "STAGE", exit |-> "return", cancel |-> FALSE,
          items |-> Nothing, todo |-> Nothing, temporary |-> Nothing]

EvidenceTypeOK ==
  /\ run \in [stage : 1 .. Reporting, cancel : BOOLEAN,
              outcome : {"RUNNING", "COMPLETED", "CANCELLED", "FAILED"},
              cause : {"none", "runner", "evidence", "exhausted"}]
  /\ owner \in [Keys -> {Nothing} \union {{w} : w \in Worker}]
  /\ executions \in [Action -> {"NONE", "SUCCEEDED", "FAILED"}]
  /\ store \in [Content -> {"ABSENT", "PARTIAL", "WHOLE"}]
  /\ leftovers \subseteq Content
  /\ items \in [Item -> Nat]
  /\ errors \in 0 .. MaxErrors
  /\ pc \in [Worker -> Phases]
  /\ mem \in [Worker -> [stage : 0 .. Reporting, key : Keys, exit : Exits,
                         cancel : BOOLEAN, items : SUBSET Item, todo : SUBSET Content,
                         temporary : SUBSET Content]]

EvidenceInit ==
  /\ run = [stage |-> 1, cancel |-> FALSE, outcome |-> "RUNNING", cause |-> "none"]
  /\ owner = NotClaimed
  /\ executions = [a \in Action |-> "NONE"]
  /\ store = [c \in Content |-> "ABSENT"]
  /\ leftovers = Nothing
  /\ items = [i \in Item |-> 0]
  /\ errors = 0
  /\ pc = [w \in Worker |-> "idle"]
  /\ mem = [w \in Worker |-> NoMem]

-----------------------------------------------------------------------------
(* Delivery: claim, checkpoints, finalize and fail, as RunExecution has     *)
(* them.                                                                   *)

GoTo(w, phase) == pc' = [pc EXCEPT ![w] = phase]

Drop(w) ==
  /\ GoTo(w, "idle")
  /\ mem' = [mem EXCEPT ![w] = NoMem]

OnlyWorker == UNCHANGED <<delivery, rows, files>>

(* claim reads the run first: the stage may still be claimed when the      *)
(* request to cancel is there.                                             *)
Claim(w) ==
  /\ pc[w] = "idle"
  /\ run.outcome = "RUNNING"
  /\ \E key \in IF run.cancel THEN Keys ELSE {"STAGE"} :
       /\ owner[key] = Nothing \/ "takeover" \in Faults
       /\ owner' = [owner EXCEPT ![key] = {w}]
       /\ mem' = [mem EXCEPT ![w] = [NoMem EXCEPT !.stage = run.stage, !.key = key]]
  /\ GoTo(w, "claimed")
  /\ UNCHANGED <<run, rows, files, errors>>

Holds(w) ==
  /\ run.outcome = "RUNNING"
  /\ run.stage = mem[w].stage
  /\ owner[mem[w].key] = {w}

(* finalize reads the run, and writes later what it has read.              *)
FinalizeRead(w) ==
  /\ mem' = [mem EXCEPT ![w].temporary = Nothing, ![w].cancel = run.cancel]
  /\ GoTo(w, "finalizing")

(* A cancelled or failed stage: process_run_event collects first what is   *)
(* there, if the stage is one of the evidence stages.                      *)
Raise(w, exit) ==
  IF mem[w].stage \notin EvidenceStages /\ exit = "cancel"
  THEN FinalizeRead(w)
  ELSE /\ mem' = [mem EXCEPT ![w].exit = exit]
       /\ GoTo(w, IF mem[w].stage \in EvidenceStages THEN "gather" ELSE "failing")

(* checkpoint of process_run_event.                                        *)
Checkpoint(w, from, next) ==
  /\ pc[w] = from
  /\ IF ~Holds(w) THEN Drop(w)
     ELSE IF run.cancel THEN Raise(w, "cancel")
     ELSE GoTo(w, next) /\ UNCHANGED mem
  /\ UNCHANGED errors
  /\ OnlyWorker

(* A run that is to be cancelled when its stage begins is finalized.       *)
Begin(w) ==
  /\ pc[w] = "claimed"
  /\ IF ~Holds(w) THEN Drop(w)
     ELSE IF run.cancel THEN FinalizeRead(w)
     ELSE /\ GoTo(w, IF run.stage = Reporting THEN "reporting" ELSE "recall")
          /\ UNCHANGED mem
  /\ UNCHANGED errors
  /\ OnlyWorker

(* The checkpoint after the handler.                                       *)
Returned(w) ==
  /\ pc[w] = "returned"
  /\ IF ~Holds(w) THEN Drop(w)
     ELSE IF run.cancel THEN Raise(w, "cancel")
     ELSE FinalizeRead(w)
  /\ UNCHANGED errors
  /\ OnlyWorker

MoveRun(w, moved) ==
  /\ IF Holds(w) THEN run' = moved /\ owner' = NotClaimed
                 ELSE UNCHANGED delivery
  /\ Drop(w)
  /\ UNCHANGED <<rows, files, errors>>

(* A request that came after the read is overwritten.                      *)
Finalize(w) ==
  /\ pc[w] = "finalizing"
  /\ MoveRun(w, IF mem[w].cancel THEN [run EXCEPT !.outcome = "CANCELLED"]
                ELSE IF run.stage = Reporting
                     THEN [run EXCEPT !.outcome = "COMPLETED", !.cancel = FALSE]
                     ELSE [run EXCEPT !.stage = @ + 1, !.cancel = FALSE])

Fail(w) ==
  /\ pc[w] = "failing"
  /\ MoveRun(w, [run EXCEPT !.outcome = "FAILED", !.cause = mem[w].exit])

(* The temporary file of a process that dies stays where it is; its claim  *)
(* ends when the lease runs out.                                           *)
Crash(w) ==
  /\ pc[w] # "idle"
  /\ "crash" \in Faults
  /\ leftovers' = leftovers \union mem[w].temporary
  /\ owner' = [k \in Keys |-> owner[k] \ {w}]
  /\ Drop(w)
  /\ UNCHANGED <<run, rows, store, errors>>

RequestCancel ==
  /\ run.outcome = "RUNNING"
  /\ "cancel" \in Faults
  /\ run' = [run EXCEPT !.cancel = TRUE]
  /\ UNCHANGED <<owner, rows, files, errors, pc, mem>>

(* RECOVERY_EXHAUSTED of the reconciler.                                   *)
GiveUp ==
  /\ run.outcome = "RUNNING"
  /\ "exhausted" \in Faults
  /\ run' = [run EXCEPT !.outcome = "FAILED", !.cause = "exhausted"]
  /\ UNCHANGED <<owner, rows, files, errors, pc, mem>>

-----------------------------------------------------------------------------
(* The stages of the runner actions.                                       *)

(* A stored result ends the handler; else the runner works, and fails to   *)
(* give a result, or gives one.                                            *)
Recall(w) ==
  /\ pc[w] = "recall"
  /\ CASE executions[mem[w].stage] = "SUCCEEDED" -> GoTo(w, "returned") /\ UNCHANGED mem
       [] executions[mem[w].stage] = "FAILED" -> Raise(w, "runner")
       [] executions[mem[w].stage] = "NONE" ->
            \/ GoTo(w, "verify") /\ UNCHANGED mem
            \/ Raise(w, "runner")
  /\ UNCHANGED errors
  /\ OnlyWorker

VerifyClaim(w) == Checkpoint(w, "verify", "store")

(* create_or_get_execution: the first result of an action stays, and       *)
(* another one is a conflict.                                              *)
StoreExecution(w) ==
  LET a == mem[w].stage IN
  /\ pc[w] = "store"
  /\ \E status \in {"SUCCEEDED", "FAILED"} :
       IF executions[a] = "NONE"
       THEN /\ executions' = [executions EXCEPT ![a] = status]
            /\ IF status = "SUCCEEDED" THEN GoTo(w, "returned") /\ UNCHANGED mem
                                       ELSE Raise(w, "runner")
       ELSE Raise(w, "runner") /\ UNCHANGED executions
  /\ UNCHANGED <<delivery, items, files, errors>>

Audit(w) == Recall(w) \/ VerifyClaim(w) \/ StoreExecution(w)

-----------------------------------------------------------------------------
(* DynamicEvidenceCollector.collect.                                       *)

(* What follows a collection: the handler of REPORTING returns, or raises  *)
(* EVIDENCE_COLLECTION_FAILED and is collected for once more; everywhere   *)
(* else an error makes no difference.                                      *)
CollectionEnds(w, ok) ==
  LET exit == mem[w].exit IN
  CASE exit = "report" /\ ok ->
         GoTo(w, "returned") /\ mem' = [mem EXCEPT ![w].temporary = Nothing]
    [] exit = "report" /\ ~ok ->
         /\ GoTo(w, "gather")
         /\ mem' = [mem EXCEPT ![w].exit = "evidence", ![w].temporary = Nothing]
    [] exit = "cancel" -> FinalizeRead(w)
    [] OTHER ->
         GoTo(w, "failing") /\ mem' = [mem EXCEPT ![w].temporary = Nothing]

(* CollectEvidenceStageHandler: its checkpoint, and then collect.          *)
Report(w) ==
  /\ pc[w] = "reporting"
  /\ IF ~Holds(w) THEN Drop(w)
     ELSE IF run.cancel THEN Raise(w, "cancel")
     ELSE GoTo(w, "gather") /\ mem' = [mem EXCEPT ![w].exit = "report"]
  /\ UNCHANGED errors
  /\ OnlyWorker

(* Fault: the rows are written before the artifacts.                       *)
GatherNothingToPut(w) ==
  /\ pc[w] = "gather"
  /\ mem' = [mem EXCEPT ![w].items = ItemsOf(Executed), ![w].todo = Nothing]
  /\ GoTo(w, "put")
  /\ UNCHANGED errors
  /\ OnlyWorker

(* One transaction reads the executions of the environment.                *)
Gather(w) ==
  /\ pc[w] = "gather"
  /\ mem' = [mem EXCEPT ![w].items = ItemsOf(Executed),
                        ![w].todo = Contents(ItemsOf(Executed))]
  /\ GoTo(w, "put")
  /\ UNCHANGED errors
  /\ OnlyWorker

(* An artifact that is there is read and compared with its name.           *)
FindArtifact(w) ==
  /\ pc[w] = "put"
  /\ \E c \in mem[w].todo :
       /\ store[c] # "ABSENT"
       /\ IF store[c] = "WHOLE"
          THEN mem' = [mem EXCEPT ![w].todo = @ \ {c}] /\ UNCHANGED pc
          ELSE CollectionEnds(w, FALSE)
  /\ UNCHANGED errors
  /\ OnlyWorker

(* Fault: the artifact is written where it will be read.                   *)
WriteInPlace(w) ==
  /\ pc[w] = "put"
  /\ \E c \in mem[w].todo :
       /\ store[c] = "ABSENT"
       /\ store' = [store EXCEPT ![c] = "PARTIAL"]
       /\ mem' = [mem EXCEPT ![w].temporary = {c}]
  /\ GoTo(w, "written")
  /\ UNCHANGED <<delivery, rows, leftovers, errors>>

(* NamedTemporaryFile in the same directory, write and fsync.              *)
WriteTemporary(w) ==
  /\ pc[w] = "put"
  /\ \E c \in mem[w].todo :
       /\ store[c] = "ABSENT"
       /\ mem' = [mem EXCEPT ![w].temporary = {c}]
  /\ GoTo(w, "written")
  /\ UNCHANGED errors
  /\ OnlyWorker

(* os.replace, over an artifact that another worker published meanwhile.   *)
Replace(w) ==
  /\ pc[w] = "written"
  /\ store' = [c \in Content |->
                 IF c \in mem[w].temporary THEN "WHOLE" ELSE store[c]]
  /\ mem' = [mem EXCEPT ![w].todo = @ \ mem[w].temporary,
                        ![w].temporary = Nothing]
  /\ GoTo(w, "put")
  /\ UNCHANGED <<delivery, rows, leftovers, errors>>

AllPut(w) ==
  /\ pc[w] = "put"
  /\ mem[w].todo = Nothing
  /\ GoTo(w, "save")
  /\ UNCHANGED <<mem, errors>>
  /\ OnlyWorker

(* Fault: a second collector adds its rows to those of the first.          *)
CreateAlways(new) ==
  [i \in Item |-> IF i \in new THEN items[i] + 1 ELSE items[i]]

(* create_or_get of each candidate: ON CONFLICT DO NOTHING.                *)
CreateOrGet(new) ==
  [i \in Item |-> IF i \in new /\ items[i] = 0 THEN 1 ELSE items[i]]

Save(w) ==
  /\ pc[w] = "save"
  /\ items' = CreateOrGet(mem[w].items)
  /\ CollectionEnds(w, TRUE)
  /\ UNCHANGED <<delivery, executions, files, errors>>

(* An error of the file system or the database; the temporary file is      *)
(* removed on the way out, and an open transaction rolls back.             *)
CollectionFails(w) ==
  /\ pc[w] \in Collecting
  /\ errors < MaxErrors
  /\ errors' = errors + 1
  /\ CollectionEnds(w, FALSE)
  /\ OnlyWorker

Collect(w) ==
  \/ Report(w) \/ Gather(w) \/ FindArtifact(w) \/ WriteTemporary(w)
  \/ Replace(w) \/ AllPut(w) \/ Save(w) \/ CollectionFails(w)

-----------------------------------------------------------------------------

Work(w) ==
  \/ Claim(w) \/ Begin(w) \/ Audit(w) \/ Collect(w)
  \/ Returned(w) \/ Finalize(w) \/ Fail(w) \/ Crash(w)

EvidenceNext == (\E w \in Worker : Work(w)) \/ RequestCancel \/ GiveUp

EvidenceSpec == EvidenceInit /\ [][EvidenceNext]_evidenceVars

-----------------------------------------------------------------------------
(* Refinement: the run and its claims behave as StageDelivery says.        *)

Decision(w) ==
  CASE pc[w] = "finalizing" -> IF mem[w].cancel THEN "CANCELLED" ELSE "ONWARDS"
    [] pc[w] = "failing" -> "FAILED"
    [] OTHER -> "NONE"

WorkOf(w) ==
  IF pc[w] = "idle" THEN [stage |-> 0, key |-> "STAGE", exit |-> "NONE"]
  ELSE [stage |-> mem[w].stage, key |-> mem[w].key, exit |-> Decision(w)]

Delivery == INSTANCE StageDelivery WITH
  StageCount <- Reporting,
  stage <- run.stage,
  outcome <- run.outcome,
  asked <- run.cancel,
  at <- [w \in Worker |-> WorkOf(w)],
  holders <- {w \in Worker : pc[w] # "idle" /\ Holds(w)}

(* The stages that collect have the delivery that RunExecution implements, *)
(* whatever a collector does between its claim and its end.                *)
EvidenceDelivered == Delivery!DeliverySpec

-----------------------------------------------------------------------------

(* An evidence row never refers to an artifact that is not there as a      *)
(* whole, whichever of several collectors wrote which of the two and       *)
(* wherever one of them died.                                              *)
ItemsHaveArtifacts ==
  \A i \in Item : items[i] > 0 => store[i.content] = "WHOLE"

(* A completed run has exactly one row for each thing its runners said,    *)
(* although several workers may have collected at once and some died.      *)
CompletedHasEvidence ==
  run.outcome = "COMPLETED" =>
    /\ Executed = Action
    /\ \A i \in Item : items[i] = 1

(* Collecting again after a crash, or beside another collector, converges: *)
(* only an error of the file system or the database fails a run with       *)
(* EVIDENCE_COLLECTION_FAILED.                                             *)
CollectionConverges == run.cause = "evidence" => errors > 0

(* The acceptance criterion of PRD.md: a task in a terminal state can be   *)
(* queried for its complete steps and evidence.  The code does not collect *)
(* after a failed upgrade to the baseline, for a cancellation that is      *)
(* found when a stage begins, or after RECOVERY_EXHAUSTED.                 *)
EndedRunHasEvidence ==
  run.outcome # "RUNNING" /\ errors = 0 =>
    \A i \in ItemsOf(Executed) : items[i] > 0
=============================================================================
