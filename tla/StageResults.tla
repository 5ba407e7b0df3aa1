---------------------------- MODULE StageResults ----------------------------
(***************************************************************************)
(* The stages before the sandbox: DiscoveryStageHandler (the snapshot of a *)
(* working tree and its revision graph), StaticAnalysisStageHandler and    *)
(* PlanningStageHandler.  Each computes a result and keeps it in one row   *)
(* per run, by create_or_get.                                              *)
(*                                                                         *)
(* Delivery is that of StageDelivery, where nobody asks to cancel: a       *)
(* worker without work may claim the stage at any moment, the claim of the *)
(* worker before it is lost, and a worker learns that at a checkpoint      *)
(* only.  A cancellation would end a handler there as a lost claim does.   *)
(*                                                                         *)
(* The tree is the content of the files the snapshot copies, one number    *)
(* per file.  Its owner edits it at any moment and as often as he likes;   *)
(* an edit may well give a file a content it had before.  A RANGE is the   *)
(* tree without edits, unless its refs move.  What is computed from a      *)
(* snapshot is a function of it, and so a result is written as the         *)
(* snapshot it was computed from.                                          *)
(***************************************************************************)
EXTENDS Naturals, Sequences, FiniteSets

CONSTANTS
  Worker,     \* worker processes
  FileCount,  \* files a snapshot copies
  MaxContent  \* contents a file may have besides its first, which is 0

ASSUME FileAssumption == FileCount \in Nat \ {0} /\ MaxContent \in Nat

VARIABLES
  tree,       \* content of each file of the repository
  moments,    \* every content the tree has had
  run,        \* stages finished, its outcome
  owner,      \* who claimed the step of the current stage
  artifacts,  \* the published snapshot directories
  snapshot,   \* the repo_snapshots row of the run
  results,    \* revision_graphs, static_reports and audit_plans rows
  pc,         \* where each worker stands
  mem         \* what each worker holds in memory

repository == <<tree, moments>>
delivery == <<run, owner>>
rows == <<snapshot, results>>
vars == <<repository, delivery, artifacts, rows, pc, mem>>

-----------------------------------------------------------------------------

File == 1 .. FileCount
Content == 0 .. MaxContent
Tree == [File -> Content]

Stages == <<"DISCOVERING", "STATIC_ANALYSIS", "PLANNING">>
Kinds == <<"graph", "report", "plan">>
Kind == {"graph", "report", "plan"}

(* An absent result, and an absent row of a snapshot.                      *)
None == <<>>
NoSnapshot == [selected |-> None, content |-> None]

Nobody == "nobody"

ASSUME NobodyAssumption == Nobody \notin Worker

(* A candidate row: dirty_diff_hash and the copied content.                *)
Snapshot == [selected : Tree, content : Tree]
Result == {None} \union Tree

Collecting == {"select", "copy", "verify"}

Phases ==
  Collecting \union
  {"idle", "claimed", "existing", "selected", "publish", "save", "saved",
   "lookup", "compute", "computed", "store",
   "returned", "finalizing", "failing"}

(* The three passes over the files, what was copied or read as the         *)
(* snapshot, and the computed result.                                      *)
NoMem == [stage |-> 0, select |-> <<>>, copy |-> <<>>, verify |-> <<>>,
          source |-> None, result |-> None]

(* How far a pass over the files may have come.                            *)
Pass == UNION {[1 .. n -> Content] : n \in 0 .. FileCount}

TypeOK ==
  /\ tree \in Tree
  /\ moments \subseteq Tree
  /\ run \in [done : 0 .. 3, outcome : {"RUNNING", "READY", "FAILED"}]
  /\ owner \in Worker \union {Nobody}
  /\ artifacts \subseteq Tree
  /\ snapshot \in Snapshot \union {NoSnapshot}
  /\ results \in [Kind -> Result]
  /\ pc \in [Worker -> Phases]
  /\ mem \in [Worker -> [stage : 0 .. 2, select : Pass, copy : Pass,
                         verify : Pass, source : Result, result : Result]]

Init ==
  /\ tree = [f \in File |-> 0]
  /\ moments = {tree}
  /\ run = [done |-> 0, outcome |-> "RUNNING"]
  /\ owner = Nobody
  /\ artifacts = {}
  /\ snapshot = NoSnapshot
  /\ results = [k \in Kind |-> None]
  /\ pc = [w \in Worker |-> "idle"]
  /\ mem = [w \in Worker |-> NoMem]

-----------------------------------------------------------------------------
(* The owner of the repository.                                            *)

Edit(f) ==
  /\ \E c \in Content \ {tree[f]} : tree' = [tree EXCEPT ![f] = c]
  /\ moments' = moments \union {tree'}
  /\ UNCHANGED <<delivery, artifacts, rows, pc, mem>>

-----------------------------------------------------------------------------
(* Delivery: claim, checkpoint, finalize and fail, as RunExecution has them. *)

GoTo(w, phase) == pc' = [pc EXCEPT ![w] = phase]

Drop(w) ==
  /\ GoTo(w, "idle")
  /\ mem' = [mem EXCEPT ![w] = NoMem]

OnlyWorker == UNCHANGED <<repository, delivery, artifacts, rows>>

Claim(w) ==
  /\ pc[w] = "idle"
  /\ run.outcome = "RUNNING"
  /\ owner' = w
  /\ mem' = [mem EXCEPT ![w] = [NoMem EXCEPT !.stage = run.done]]
  /\ GoTo(w, "claimed")
  /\ UNCHANGED <<repository, run, artifacts, rows>>

Holds(w) ==
  /\ run.outcome = "RUNNING"
  /\ run.done = mem[w].stage
  /\ owner = w

Checkpoint(w, from, next) ==
  /\ pc[w] = from
  /\ IF Holds(w) THEN GoTo(w, next) /\ UNCHANGED mem ELSE Drop(w)
  /\ OnlyWorker

(* process_run_event up to the handler of the stage.                       *)
Begin(w) ==
  Checkpoint(w, "claimed", IF mem[w].stage = 0 THEN "existing" ELSE "lookup")

(* The checkpoint after the handler.                                       *)
Returned(w) == Checkpoint(w, "returned", "finalizing")

(* Fault: a superseded worker moves the run all the same.                  *)
MoveRunUnfenced(w, moved) ==
  /\ IF run.outcome = "RUNNING" THEN run' = moved /\ owner' = Nobody
                                ELSE UNCHANGED delivery
  /\ Drop(w)
  /\ UNCHANGED <<repository, artifacts, rows>>

MoveRun(w, moved) ==
  /\ IF Holds(w) THEN run' = moved /\ owner' = Nobody
                 ELSE UNCHANGED delivery
  /\ Drop(w)
  /\ UNCHANGED <<repository, artifacts, rows>>

(* Fault: planning has a successor among these stages.                     *)
FinalizeOnwards(w) ==
  /\ pc[w] = "finalizing"
  /\ MoveRun(w, [run EXCEPT !.done = @ + 1])

(* The plan is the last result; what follows is ShadowSandbox's.           *)
Finalize(w) ==
  /\ pc[w] = "finalizing"
  /\ MoveRun(w, [done |-> run.done + 1,
                 outcome |-> IF run.done = 2 THEN "READY" ELSE "RUNNING"])

Fail(w) ==
  /\ pc[w] = "failing"
  /\ MoveRun(w, [run EXCEPT !.outcome = "FAILED"])

Crash(w) ==
  /\ pc[w] # "idle"
  /\ Drop(w)
  /\ OnlyWorker

-----------------------------------------------------------------------------
(* The snapshot: SnapshotService.create and the row.                       *)

(* A snapshot of the run that is there already is used as it is.           *)
ExistingSnapshot(w) ==
  /\ pc[w] = "existing"
  /\ IF snapshot # NoSnapshot
     THEN /\ mem' = [mem EXCEPT ![w].source = snapshot.content]
          /\ GoTo(w, "saved")
     ELSE GoTo(w, "select") /\ UNCHANGED mem
  /\ OnlyWorker

(* The phase after a pass.                                                 *)
AfterPass == [select |-> "selected", copy |-> "verify", verify |-> "publish"]

(* One file of a pass: git.select hashes the files, _copy_selection copies *)
(* them, and git.select hashes them once more.                             *)
ReadFile(w) ==
  LET pass == pc[w]
      read == Append(mem[w][pass], tree[Len(mem[w][pass]) + 1])
  IN
  /\ pc[w] \in Collecting
  /\ mem' = [mem EXCEPT ![w][pass] = read]
  /\ GoTo(w, IF Len(read) = FileCount THEN AfterPass[pass] ELSE pass)
  /\ OnlyWorker

Selected(w) == Checkpoint(w, "selected", "copy")

(* The two selections are compared by the contents they hashed.  The       *)
(* directory is renamed to its hash in one step; one that another worker   *)
(* published is verified and used.                                         *)
Publish(w) ==
  /\ pc[w] = "publish"
  /\ IF mem[w].select = mem[w].verify
     THEN artifacts' = artifacts \union {mem[w].copy} /\ GoTo(w, "save")
     ELSE UNCHANGED artifacts /\ GoTo(w, "failing")
  /\ UNCHANGED <<repository, delivery, rows, mem>>

Candidate(w) == [selected |-> mem[w].select, content |-> mem[w].copy]

(* Fault: the later snapshot replaces the earlier.                         *)
SaveSnapshotOver(w) ==
  /\ pc[w] = "save"
  /\ snapshot' = Candidate(w)
  /\ mem' = [mem EXCEPT ![w].source = snapshot'.content]
  /\ GoTo(w, "saved")
  /\ UNCHANGED <<repository, delivery, artifacts, results>>

(* snapshots.create_or_get: the first row stays, and a candidate that      *)
(* differs from it is an ImmutableResultConflict.                          *)
SaveSnapshot(w) ==
  /\ pc[w] = "save"
  /\ IF snapshot \in {NoSnapshot, Candidate(w)}
     THEN /\ snapshot' = Candidate(w)
          /\ mem' = [mem EXCEPT ![w].source = snapshot'.content]
          /\ GoTo(w, "saved")
     ELSE UNCHANGED <<snapshot, mem>> /\ GoTo(w, "failing")
  /\ UNCHANGED <<repository, delivery, artifacts, results>>

Saved(w) == Checkpoint(w, "saved", "lookup")

TakeSnapshot(w) ==
  \/ ExistingSnapshot(w) \/ ReadFile(w) \/ Selected(w)
  \/ Publish(w) \/ SaveSnapshot(w) \/ Saved(w)

-----------------------------------------------------------------------------
(* The result of the stage.                                                *)

KindOf(w) == Kinds[mem[w].stage + 1]

(* A stored result ends the handler.  The analysis needs a snapshot.       *)
Lookup(w) ==
  /\ pc[w] = "lookup"
  /\ GoTo(w, IF results[KindOf(w)] # None THEN "returned"
             ELSE IF KindOf(w) = "report" /\ snapshot = NoSnapshot THEN "failing"
             ELSE "compute")
  /\ UNCHANGED mem
  /\ OnlyWorker

(* What the stage computes its result from, or None if that is missing:    *)
(* discover reads the artifact of its snapshot, analyze wants a graph of   *)
(* the run's snapshot, and the planner's tools read graph and report.      *)
InputOf(w) ==
  CASE KindOf(w) = "graph" ->
         IF mem[w].source \in artifacts THEN mem[w].source ELSE None
    [] KindOf(w) = "report" ->
         IF snapshot # NoSnapshot /\ results["graph"] = snapshot.content
            THEN snapshot.content ELSE None
    [] KindOf(w) = "plan" ->
         IF results["graph"] # None THEN results["report"] ELSE None

Compute(w) ==
  /\ pc[w] = "compute"
  /\ mem' = [mem EXCEPT ![w].result = InputOf(w)]
  /\ GoTo(w, IF InputOf(w) = None THEN "failing" ELSE "computed")
  /\ OnlyWorker

Computed(w) == Checkpoint(w, "computed", "store")

(* Fault: the comparison includes the id of the row.                       *)
StoreResultOnce(w) ==
  /\ pc[w] = "store"
  /\ IF results[KindOf(w)] = None
     THEN /\ results' = [results EXCEPT ![KindOf(w)] = mem[w].result]
          /\ GoTo(w, "returned")
     ELSE UNCHANGED results /\ GoTo(w, "failing")
  /\ UNCHANGED <<repository, delivery, artifacts, snapshot, mem>>

(* create_or_get and save_result, which compare in the same way.           *)
StoreResult(w) ==
  /\ pc[w] = "store"
  /\ IF results[KindOf(w)] \in {None, mem[w].result}
     THEN /\ results' = [results EXCEPT ![KindOf(w)] = mem[w].result]
          /\ GoTo(w, "returned")
     ELSE UNCHANGED results /\ GoTo(w, "failing")
  /\ UNCHANGED <<repository, delivery, artifacts, snapshot, mem>>

DeriveResult(w) == Lookup(w) \/ Compute(w) \/ Computed(w) \/ StoreResult(w)

-----------------------------------------------------------------------------

Work(w) ==
  \/ Claim(w) \/ Begin(w) \/ TakeSnapshot(w) \/ DeriveResult(w)
  \/ Returned(w) \/ Finalize(w) \/ Fail(w) \/ Crash(w)

Next ==
  \/ \E w \in Worker : Work(w)
  \/ \E f \in File : Edit(f)

Spec == Init /\ [][Next]_vars

-----------------------------------------------------------------------------
(* Refinement: the run and its claims behave as StageDelivery says, with   *)
(* nobody to cancel the run.                                               *)

Decision(w) ==
  CASE pc[w] = "finalizing" -> "ONWARDS"
    [] pc[w] = "failing" -> "FAILED"
    [] OTHER -> "NONE"

WorkOf(w) ==
  IF pc[w] = "idle" THEN [stage |-> 0, key |-> "STAGE", exit |-> "NONE"]
  ELSE [stage |-> mem[w].stage + 1, key |-> "STAGE", exit |-> Decision(w)]

ResultsDelivery == INSTANCE StageDelivery WITH
  StageCount <- 3,
  stage <- IF run.outcome = "READY" THEN 3 ELSE run.done + 1,
  outcome <- IF run.outcome = "READY" THEN "COMPLETED" ELSE run.outcome,
  asked <- FALSE,
  at <- [w \in Worker |-> WorkOf(w)],
  holders <- {w \in Worker : pc[w] # "idle" /\ Holds(w)}

(* The stages that keep one result each have the delivery that             *)
(* RunExecution implements, whatever a handler does in between.            *)
ResultsDelivered == ResultsDelivery!DeliverySpec

-----------------------------------------------------------------------------

(* All results of a run belong to its one snapshot, which is there to be   *)
(* read, no matter how many workers computed them and from what tree.      *)
OneSnapshotForAll ==
  /\ snapshot # NoSnapshot => snapshot.content \in artifacts
  /\ \A k \in Kind :
       results[k] # None => snapshot # NoSnapshot /\ results[k] = snapshot.content

(* The run leaves a stage only with the stage's result stored.             *)
StagesLeaveRows ==
  \A i \in 1 .. run.done : results[Kinds[i]] # None

(* Repeated and concurrent executions of a stage converge: a run whose     *)
(* repository was never edited is not failed by any of them.               *)
RetriesConverge == run.outcome = "FAILED" => \E m, n \in moments : m # n

-----------------------------------------------------------------------------
(* What a document says of the snapshot, and the code does not do.         *)

(* "If a file identity or metadata changes between inspection and          *)
(* completion, abort the snapshot instead of publishing mixed content": a  *)
(* published snapshot is a content the whole tree had at one moment.  A    *)
(* file that changed after the first selection and was restored before the *)
(* second passes their comparison, and what was copied is the change.      *)
SnapshotOfOneMoment == artifacts \subseteq moments
=============================================================================
