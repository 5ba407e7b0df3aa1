---------------------------- MODULE ShadowSandbox ----------------------------
(***************************************************************************)
(* The shadow environment of one run: DockerResourceManager (provision,    *)
(* execute, finalize_run, sweep_expired) and the stage handlers around it. *)
(*                                                                         *)
(* Delivery is that of StageDelivery, which RunExecution implements: a     *)
(* worker without work may claim the stage at any moment, because leases   *)
(* run out and messages are redelivered, and the claim of the worker       *)
(* before it is lost; a checkpoint tells a worker whether its claim is     *)
(* lost or the run cancelled; finalize reads that before it writes, and    *)
(* finalize and fail are fenced.                                           *)
(*                                                                         *)
(* Docker is external.  A resource is known by its name, of which there is *)
(* one per kind (network, postgres, a runner per action), and by the       *)
(* worker that created it, which stands for its id.  The network stands    *)
(* for the two labelled volumes too, which are made right after it.  A     *)
(* container that is created with the name of a volume that is not there   *)
(* has it made anew, without labels: no clean-up finds that one.  Any call *)
(* may fail, and a clean-up may leave some resources behind.               *)
(***************************************************************************)
EXTENDS Naturals, Sequences, FiniteSets

CONSTANTS
  Worker,         \* worker processes
  RunnerActions,  \* the actions of the runner stages, in their order
  FaultSets       \* what may go wrong in one behaviour, one set of faults each

(* A worker dies; a claim is taken over; a call fails; the recovery budget *)
(* is spent; a clean-up is seen half done; the sandbox's lease runs out    *)
(* while the run executes.                                                 *)
Fault == {"crash", "takeover", "call", "exhaustion", "midway", "expiry"}

ASSUME SandboxAssumption ==
  /\ RunnerActions \in Seq(STRING)
  /\ \A i, j \in 1 .. Len(RunnerActions) :
       RunnerActions[i] = RunnerActions[j] => i = j
  /\ \A i \in 1 .. Len(RunnerActions) :
       RunnerActions[i] \notin {"network", "postgres"}
  /\ FaultSets \subseteq SUBSET Fault

VARIABLES
  faults,    \* what may go wrong in this behaviour, from its first state on
  run,       \* stage the run is to do, its outcome, cancellation requested?
  owner,     \* who claimed the step of this stage, and its CANCELLED step
  env,       \* the shadow_environments row: status and whose resources
  results,   \* the runner_executions rows: status by action
  docker,    \* the labelled resources that exist
  anew,      \* the volumes Docker made for a missing name, without labels
  database,  \* how often each action succeeded on the current data volume
  pc,        \* where each worker stands
  mem,       \* what each worker holds in memory
  sweeping   \* the sweeper removed the resources and has yet to say so

rows == <<env, results>>
world == <<docker, anew, database>>
sandboxVars ==
  <<faults, run, owner, env, results, docker, anew, database, pc, mem, sweeping>>

-----------------------------------------------------------------------------

Actions == {RunnerActions[i] : i \in 1 .. Len(RunnerActions)}
Provisioning == 1
Collecting == Len(RunnerActions) + 2
Stage == Provisioning .. Collecting

(* The action of a runner stage.                                           *)
ActionOf(stage) == RunnerActions[stage - 1]

Kinds == {"network", "postgres"} \union Actions
Volumes == {"data", "snapshot"}
Resource == [kind : Kinds, by : Worker,
             state : {"CREATED", "UP", "SUCCEEDED", "FAILED"}]

Exists(kind) == \E r \in docker : r.kind = kind
ExistsBy(kind, w) == \E r \in docker : r.kind = kind /\ r.by = w

(* A database that runs.                                                   *)
Databases == {r \in docker : r.kind = "postgres" /\ r.state = "UP"}
Runners == {r \in docker : r.kind \in Actions}

Nobody == "nobody"
ASSUME NobodyAssumption == Nobody \notin Worker

Keys == {"STAGE", "CANCELLED"}
NotClaimed == [k \in Keys |-> Nobody]
NoAction == [a \in Actions |-> 0]

(* exit is how the handler will end: it returns, or raises an input error, *)
(* RunCancellationRequested or ClaimLostError.  cancel is what finalize    *)
(* read of the request to cancel.                                          *)
Exits == {"return", "fail", "cancel", "lost"}
NoMem == [stage |-> 1, key |-> "STAGE", exit |-> "return", result |-> "NONE",
          cleaned |-> FALSE, cancel |-> FALSE]

Phases ==
  {"idle", "claimed",
   "lookup", "network", "populated", "postgres", "connect", "boot",
   "ready", "record", "undo", "provisioned",
   "require", "recall", "launch", "create", "start", "waiting", "verify",
   "store", "remove",
   "collect",
   "release", "clean", "mark",
   "returned", "finalizing", "failing"}

SandboxTypeOK ==
  /\ run \in [stage : Stage, cancel : BOOLEAN,
              outcome : {"RUNNING", "COMPLETED", "FAILED", "CANCELLED"}]
  /\ owner \in [Keys -> Worker \union {Nobody}]
  /\ env \in [status : {"ABSENT", "ACTIVE", "CLEANED", "CLEANUP_FAILED"},
              by : Worker \union {Nobody}]
  /\ results \in [Actions -> {"NONE", "SUCCEEDED", "FAILED"}]
  /\ docker \subseteq Resource
  /\ anew \subseteq Volumes
  /\ database \in [Actions -> 0 .. 2]
  /\ pc \in [Worker -> Phases]
  /\ mem \in [Worker -> [stage : Stage, key : Keys, exit : Exits,
                         result : {"NONE", "SUCCEEDED", "FAILED"},
                         cleaned : BOOLEAN, cancel : BOOLEAN]]
  /\ sweeping \in BOOLEAN

SandboxInit ==
  /\ faults \in FaultSets
  /\ run = [stage |-> Provisioning, cancel |-> FALSE, outcome |-> "RUNNING"]
  /\ owner = NotClaimed
  /\ env = [status |-> "ABSENT", by |-> Nobody]
  /\ results = [a \in Actions |-> "NONE"]
  /\ docker = {}
  /\ anew = {}
  /\ database = NoAction
  /\ pc = [w \in Worker |-> "idle"]
  /\ mem = [w \in Worker |-> NoMem]
  /\ sweeping = FALSE

-----------------------------------------------------------------------------
(* Delivery: claim, checkpoint, finalize and fail, as RunExecution has them. *)

GoTo(w, phase) == pc' = [pc EXCEPT ![w] = phase]

Drop(w) ==
  /\ GoTo(w, "idle")
  /\ mem' = [mem EXCEPT ![w] = NoMem]

(* The handler, or the manager's call in it, raises: its handler releases  *)
(* the environment before the exception goes on (except BaseException).    *)
Raise(w, exit) ==
  /\ GoTo(w, "release")
  /\ mem' = [mem EXCEPT ![w].exit = exit]

(* claim reads the run first: the stage may still be claimed when the      *)
(* request to cancel is there.                                             *)
Claim(w) ==
  /\ pc[w] = "idle"
  /\ run.outcome = "RUNNING"
  /\ \E key \in IF run.cancel THEN Keys ELSE {"STAGE"} :
       /\ "takeover" \in faults \/ owner[key] = Nobody
       /\ owner' = [owner EXCEPT ![key] = w]
       /\ mem' = [mem EXCEPT ![w] = [NoMem EXCEPT !.stage = run.stage, !.key = key]]
  /\ GoTo(w, "claimed")
  /\ UNCHANGED <<run, rows, world, sweeping>>

Holds(w) ==
  /\ run.outcome = "RUNNING"
  /\ run.stage = mem[w].stage
  /\ owner[mem[w].key] = w

(* What a checkpoint raises, or "return".                                  *)
CheckpointExit(w) ==
  CASE ~Holds(w) -> "lost"
    [] Holds(w) /\ run.cancel -> "cancel"
    [] OTHER -> "return"

(* A checkpoint inside a handler: go on, or raise.                         *)
Checkpoint(w, next) ==
  /\ IF CheckpointExit(w) = "return"
     THEN GoTo(w, next) /\ UNCHANGED mem
     ELSE Raise(w, CheckpointExit(w))
  /\ UNCHANGED <<run, owner, rows, world, sweeping>>

FirstPhase(stage) ==
  CASE stage = Provisioning -> "lookup"
    [] stage = Collecting -> "collect"
    [] OTHER -> "require"

(* process_run_event before the handler: a cancelled run is released.      *)
Begin(w) ==
  /\ pc[w] = "claimed"
  /\ IF CheckpointExit(w) = "lost"
     THEN Drop(w) /\ UNCHANGED <<run, owner, rows, world, sweeping>>
     ELSE Checkpoint(w, FirstPhase(run.stage))

(* finalize reads the run, and writes later what it has read.              *)
FinalizeRead(w) ==
  /\ GoTo(w, "finalizing")
  /\ mem' = [mem EXCEPT ![w].cancel = run.cancel]

(* The checkpoint after the handler, outside of the handler's clean-up.    *)
Returned(w) ==
  /\ pc[w] = "returned"
  /\ IF CheckpointExit(w) = "lost" THEN Drop(w) ELSE FinalizeRead(w)
  /\ UNCHANGED <<run, owner, rows, world, sweeping>>

(* Fault: a superseded worker moves the run all the same.                  *)
MoveRunUnfenced(w, moved) ==
  /\ IF run.outcome = "RUNNING" THEN run' = moved /\ owner' = NotClaimed
                                ELSE UNCHANGED <<run, owner>>
  /\ Drop(w)
  /\ UNCHANGED <<rows, world, sweeping>>

MoveRun(w, moved) ==
  /\ IF Holds(w) THEN run' = moved /\ owner' = NotClaimed
                 ELSE UNCHANGED <<run, owner>>
  /\ Drop(w)
  /\ UNCHANGED <<rows, world, sweeping>>

(* Fault: the last stage has a successor too.                              *)
FinalizeOnwards(w) ==
  /\ pc[w] = "finalizing"
  /\ MoveRun(w, IF mem[w].cancel THEN [run EXCEPT !.outcome = "CANCELLED"]
                ELSE [run EXCEPT !.stage = @ + 1, !.cancel = FALSE])

(* A request that came after the read is overwritten.                      *)
Finalize(w) ==
  /\ pc[w] = "finalizing"
  /\ MoveRun(w, IF mem[w].cancel THEN [run EXCEPT !.outcome = "CANCELLED"]
                ELSE IF run.stage = Collecting
                     THEN [run EXCEPT !.outcome = "COMPLETED", !.cancel = FALSE]
                     ELSE [run EXCEPT !.stage = @ + 1, !.cancel = FALSE])

Fail(w) ==
  /\ pc[w] = "failing"
  /\ MoveRun(w, [run EXCEPT !.outcome = "FAILED"])

Crash(w) ==
  /\ "crash" \in faults
  /\ pc[w] # "idle"
  /\ Drop(w)
  /\ UNCHANGED <<run, owner, rows, world, sweeping>>

Cancel ==
  /\ run.outcome = "RUNNING"
  /\ ~run.cancel
  /\ run' = [run EXCEPT !.cancel = TRUE]
  /\ UNCHANGED <<owner, rows, world, pc, mem, sweeping>>

(* RECOVERY_EXHAUSTED.                                                     *)
GiveUp ==
  /\ "exhaustion" \in faults
  /\ run.outcome = "RUNNING"
  /\ run' = [run EXCEPT !.outcome = "FAILED"]
  /\ UNCHANGED <<owner, rows, world, pc, mem, sweeping>>

-----------------------------------------------------------------------------
(* Docker.                                                                 *)

CallFails == "call" \in faults

CreateNamed(w, kind, state) ==
  docker' = docker \union {[kind |-> kind, by |-> w, state |-> state]}

(* containers.create: the network is not asked for yet, and a volume that  *)
(* is not there is made.                                                   *)
CreateContainer(w, kind, volume) ==
  /\ CreateNamed(w, kind, "CREATED")
  /\ anew' = IF Exists("network") THEN anew ELSE anew \union {volume}

StartContainer(w, kind) ==
  docker' = {IF r.kind = kind /\ r.by = w THEN [r EXCEPT !.state = "UP"] ELSE r :
               r \in docker}

(* A network and volumes that a container still uses are not removed.      *)
Leftovers ==
  {left \in SUBSET docker :
     (\E r \in left : r.kind # "network")
       => {r \in docker : r.kind = "network"} \subseteq left}

(* The content of the data volume goes with it; a container is removed     *)
(* without its volumes (v=False), and one without labels stays.            *)
RemoveTo(left) ==
  /\ docker' = left
  /\ database' = IF "data" \in anew \/ \E r \in left : r.kind = "network"
                 THEN database
                 ELSE NoAction
  /\ UNCHANGED anew

(* _cleanup_by_labels removes one thing after the other, in up to five     *)
(* passes, of all that carries the labels of the run, whoever made it.     *)
RemoveSome == \E left \in Leftovers : RemoveTo(left)

(* Its end: cleaned only if the last listing found nothing.                *)
CleanupByLabels(cleaned) ==
  \/ cleaned /\ RemoveTo({})
  \/ CallFails /\ ~cleaned /\ RemoveSome

(* A runner's process ends by itself.  It can succeed only if it reaches   *)
(* the database; what a failed action leaves there is not told apart.      *)
RunnerEnds(r) ==
  /\ r \in docker
  /\ r.kind \in Actions
  /\ r.state = "UP"
  /\ \E state \in {"SUCCEEDED", "FAILED"} :
       /\ state = "SUCCEEDED" => Databases # {}
       /\ docker' = (docker \ {r}) \union {[r EXCEPT !.state = state]}
       /\ database' = IF state = "SUCCEEDED" /\ database[r.kind] < 2
                      THEN [database EXCEPT ![r.kind] = @ + 1]
                      ELSE database
  /\ UNCHANGED <<run, owner, rows, anew, pc, mem, sweeping>>

-----------------------------------------------------------------------------
(* provision.                                                              *)

(* What a step leaves unchanged when only the worker moves.                *)
OnlyWorker == UNCHANGED <<run, owner, rows, world, sweeping>>

(* Fault: an environment that lost its network is provisioned once more.   *)
LookupAndRebuild(w) ==
  /\ pc[w] = "lookup"
  /\ CASE env.status = "ABSENT" -> GoTo(w, "network") /\ UNCHANGED mem
       [] env.status = "ACTIVE" ->
            /\ GoTo(w, IF ExistsBy("network", env.by) THEN "provisioned"
                                                      ELSE "network")
            /\ UNCHANGED mem
       [] OTHER -> Raise(w, "fail")
  /\ OnlyWorker

(* get_environment: an ACTIVE row is returned as it is.                    *)
Lookup(w) ==
  /\ pc[w] = "lookup"
  /\ CASE env.status = "ABSENT" -> GoTo(w, "network") /\ UNCHANGED mem
       [] env.status = "ACTIVE" -> GoTo(w, "provisioned") /\ UNCHANGED mem
       [] OTHER -> Raise(w, "fail")
  /\ OnlyWorker

(* A Docker call of provision: when it fails, with its effect or without,  *)
(* provision goes to its clean-up.                                         *)
ProvisionCall(w, possible, Effect, next) ==
  /\ \/ possible /\ Effect /\ GoTo(w, next)
     \/ possible /\ CallFails /\ Effect /\ GoTo(w, "undo")
     \/ (CallFails \/ ~possible) /\ UNCHANGED <<docker, anew>> /\ GoTo(w, "undo")
  /\ UNCHANGED <<run, owner, rows, database, mem, sweeping>>

(* Network, volumes and the copy of the snapshot; volumes.create returns a *)
(* volume that has the name already.                                       *)
CreateNetwork(w) ==
  /\ pc[w] = "network"
  /\ ProvisionCall(w, ~Exists("network"),
                   CreateNamed(w, "network", "UP") /\ UNCHANGED anew, "populated")

Populated(w) == pc[w] = "populated" /\ Checkpoint(w, "postgres")

(* Three calls: the container needs its name only, then it is connected to *)
(* the network this worker created, and then it is started.                *)
CreatePostgres(w) ==
  /\ pc[w] = "postgres"
  /\ ProvisionCall(w, ~Exists("postgres"),
                   CreateContainer(w, "postgres", "data"), "connect")

ConnectPostgres(w) ==
  /\ pc[w] = "connect"
  /\ ProvisionCall(w, ExistsBy("postgres", w) /\ ExistsBy("network", w),
                   UNCHANGED <<docker, anew>>, "boot")

StartPostgres(w) ==
  /\ pc[w] = "boot"
  /\ ProvisionCall(w, ExistsBy("postgres", w) /\ ExistsBy("network", w),
                   StartContainer(w, "postgres") /\ UNCHANGED anew, "ready")

(* _wait_ready: a checkpoint, then pg_isready in the container.            *)
WaitReady(w) ==
  /\ pc[w] = "ready"
  /\ \/ Checkpoint(w, IF ExistsBy("postgres", w) THEN "record" ELSE "undo")
     \/ CallFails /\ GoTo(w, "undo") /\ UNCHANGED mem /\ OnlyWorker

(* create_or_get_environment: a row that is there already has other        *)
(* resources and is a conflict.                                            *)
RecordEnvironment(w) ==
  /\ pc[w] = "record"
  /\ IF env.status = "ABSENT"
     THEN env' = [status |-> "ACTIVE", by |-> w] /\ GoTo(w, "provisioned")
     ELSE UNCHANGED env /\ GoTo(w, "undo")
  /\ UNCHANGED <<run, owner, results, world, mem, sweeping>>

(* The except clauses of provision: RepositoryInputError and Docker's own. *)
UndoProvision(w) ==
  /\ pc[w] = "undo"
  /\ \E cleaned \in BOOLEAN : CleanupByLabels(cleaned)
  /\ Raise(w, "fail")
  /\ UNCHANGED <<run, owner, rows, sweeping>>

(* The checkpoint of the handler, inside its try.                          *)
Provisioned(w) == pc[w] = "provisioned" /\ Checkpoint(w, "returned")

Provision(w) ==
  \/ Lookup(w) \/ CreateNetwork(w) \/ Populated(w)
  \/ CreatePostgres(w) \/ ConnectPostgres(w) \/ StartPostgres(w)
  \/ WaitReady(w) \/ RecordEnvironment(w) \/ UndoProvision(w) \/ Provisioned(w)

-----------------------------------------------------------------------------
(* execute, for the action of the stage.                                   *)

Action(w) == ActionOf(mem[w].stage)

(* _require_active.                                                        *)
RequireActive(w) ==
  /\ pc[w] = "require"
  /\ IF env.status = "ACTIVE" THEN GoTo(w, "recall") /\ UNCHANGED mem
                              ELSE Raise(w, "fail")
  /\ OnlyWorker

(* Fault: the handler does not look at the status of the result.           *)
ExitWithAny(result) == "return"

(* How the handler ends with a stored result.                              *)
ExitWith(result) == IF result = "SUCCEEDED" THEN "return" ELSE "fail"

(* get_execution: an action with a stored result is not executed again.    *)
RecallResult(w) ==
  LET stored == results[Action(w)] IN
  /\ pc[w] = "recall"
  /\ CASE stored = "NONE" -> GoTo(w, "launch") /\ UNCHANGED mem
       [] stored = "SUCCEEDED" -> GoTo(w, "returned") /\ UNCHANGED mem
       [] stored = "FAILED" -> Raise(w, "fail")
  /\ OnlyWorker

(* Fault: the network is looked up by its name, not by the id of the       *)
(* environment's own.                                                      *)
FindNetworkByName(w) ==
  /\ pc[w] = "launch"
  /\ \/ Exists("network") /\ GoTo(w, "create") /\ UNCHANGED mem
     \/ (CallFails \/ ~Exists("network")) /\ Raise(w, "fail")
  /\ OnlyWorker

(* networks.get, with the id in the environment's row.                     *)
FindNetwork(w) ==
  /\ pc[w] = "launch"
  /\ \/ ExistsBy("network", env.by) /\ GoTo(w, "create") /\ UNCHANGED mem
     \/ (CallFails \/ ~ExistsBy("network", env.by)) /\ Raise(w, "fail")
  /\ OnlyWorker

(* containers.create, with the name of the network: it does not matter any *)
(* more which network has it, and some engines look for none.  A container *)
(* whose creation is reported as failed is not removed by execute.         *)
CreateRunner(w) ==
  LET Made == CreateContainer(w, Action(w), "snapshot") IN
  /\ pc[w] = "create"
  /\ \/ ~Exists(Action(w)) /\ Made /\ GoTo(w, "start") /\ UNCHANGED mem
     \/ CallFails /\ ~Exists(Action(w)) /\ Made /\ Raise(w, "fail")
     \/ /\ CallFails \/ Exists(Action(w)) \/ ~Exists("network")
        /\ Raise(w, "fail")
        /\ UNCHANGED <<docker, anew>>
  /\ UNCHANGED <<run, owner, rows, database, sweeping>>

Leave(w, exit, result) ==
  /\ GoTo(w, "remove")
  /\ mem' = [mem EXCEPT ![w].exit = exit, ![w].result = result]

(* start: the container joins the network of that name.                    *)
StartRunner(w) ==
  LET possible == ExistsBy(Action(w), w) /\ Exists("network")
      Started == StartContainer(w, Action(w))
  IN
  /\ pc[w] = "start"
  /\ \/ possible /\ Started /\ GoTo(w, "waiting") /\ UNCHANGED mem
     \/ possible /\ CallFails /\ Started /\ Leave(w, "fail", "NONE")
     \/ (CallFails \/ ~possible) /\ UNCHANGED docker /\ Leave(w, "fail", "NONE")
  /\ UNCHANGED <<run, owner, rows, anew, database, sweeping>>

(* container.wait and logs; the result is in the last line.                *)
RunnerReturns(w) ==
  /\ pc[w] = "waiting"
  /\ \E r \in docker :
       /\ r.kind = Action(w)
       /\ r.by = w
       /\ r.state \in {"SUCCEEDED", "FAILED"}
       /\ \/ GoTo(w, "verify") /\ mem' = [mem EXCEPT ![w].result = r.state]
          \/ CallFails /\ Leave(w, "fail", "NONE")
  /\ OnlyWorker

(* The container is gone, or the wait runs into its timeout and kills it.  *)
WaitFails(w) ==
  /\ pc[w] = "waiting"
  /\ \/ ~ExistsBy(Action(w), w) /\ UNCHANGED docker
     \/ CallFails /\ docker' = {IF r.kind = Action(w) /\ r.by = w /\ r.state = "UP"
                             THEN [r EXCEPT !.state = "FAILED"] ELSE r :
                             r \in docker}
  /\ Leave(w, "fail", "NONE")
  /\ UNCHANGED <<run, owner, rows, anew, database, sweeping>>

(* The one checkpoint of execute, after the runner has ended.              *)
VerifyClaim(w) ==
  /\ pc[w] = "verify"
  /\ IF CheckpointExit(w) = "return"
     THEN GoTo(w, "store") /\ UNCHANGED mem
     ELSE Leave(w, CheckpointExit(w), "NONE")
  /\ OnlyWorker

(* create_or_get_execution: the first result of an action stays; another   *)
(* worker's result for it is a conflict unless it is the same.             *)
StoreResult(w) ==
  LET result == mem[w].result
      stored == results[Action(w)]
  IN
  /\ pc[w] = "store"
  /\ \/ /\ stored \in {"NONE", result}
        /\ results' = [results EXCEPT ![Action(w)] = result]
        /\ Leave(w, ExitWith(result), "NONE")
     \/ /\ stored # "NONE"
        /\ Leave(w, "fail", "NONE")
        /\ UNCHANGED results
  /\ UNCHANGED <<run, owner, env, world, sweeping>>

(* Fault: a failed result is raised outside of the handler's try.          *)
RemoveRunnerThenFail(w) ==
  /\ pc[w] = "remove"
  /\ docker' = {r \in docker : r.kind # Action(w) \/ r.by # w}
  /\ GoTo(w, CASE mem[w].exit = "return" -> "returned"
               [] mem[w].exit = "fail" -> "failing"
               [] OTHER -> "release")
  /\ UNCHANGED <<run, owner, rows, anew, database, mem, sweeping>>

(* finally: the container is removed, if Docker lets it.                   *)
RemoveRunner(w) ==
  LET own == {r \in docker : r.kind = Action(w) /\ r.by = w} IN
  /\ pc[w] = "remove"
  /\ \/ docker' = docker \ own
     \/ CallFails /\ UNCHANGED docker
  /\ IF mem[w].exit = "return" THEN GoTo(w, "returned") ELSE GoTo(w, "release")
  /\ UNCHANGED <<run, owner, rows, anew, database, mem, sweeping>>

Execute(w) ==
  \/ RequireActive(w) \/ RecallResult(w)
  \/ FindNetwork(w) \/ CreateRunner(w) \/ StartRunner(w)
  \/ RunnerReturns(w) \/ WaitFails(w) \/ VerifyClaim(w)
  \/ StoreResult(w) \/ RemoveRunner(w)

-----------------------------------------------------------------------------
(* The last stage: checkpoint and collect, and in any case finalize_run.   *)

Collect(w) ==
  /\ pc[w] = "collect"
  /\ \/ Raise(w, CheckpointExit(w))
     \/ CallFails /\ CheckpointExit(w) = "return" /\ Raise(w, "fail")
  /\ OnlyWorker

-----------------------------------------------------------------------------
(* finalize_run.                                                           *)

(* Where a worker goes on once finalize_run is over.                       *)
AfterRelease(w, exit) ==
  CASE exit = "return" -> GoTo(w, "returned") /\ UNCHANGED mem
    [] exit = "cancel" -> FinalizeRead(w)
    [] exit = "fail" -> GoTo(w, "failing") /\ UNCHANGED mem
    [] exit = "lost" -> Drop(w)

(* Without a row, or with a CLEANED one, there is nothing to do.           *)
ReadEnvironment(w) ==
  /\ pc[w] = "release"
  /\ IF env.status \in {"ABSENT", "CLEANED"}
     THEN AfterRelease(w, mem[w].exit)
     ELSE GoTo(w, "clean") /\ UNCHANGED mem
  /\ OnlyWorker

CleanEnvironment(w) ==
  /\ pc[w] = "clean"
  /\ \E cleaned \in BOOLEAN :
       /\ CleanupByLabels(cleaned)
       /\ mem' = [mem EXCEPT ![w].cleaned = cleaned]
  /\ GoTo(w, "mark")
  /\ UNCHANGED <<run, owner, rows, sweeping>>

(* CLEANUP_FAILED is an input error and takes the place of what the        *)
(* handler was raising.                                                    *)
MarkEnvironment(w) ==
  /\ pc[w] = "mark"
  /\ env' = [env EXCEPT !.status =
               IF mem[w].cleaned THEN "CLEANED" ELSE "CLEANUP_FAILED"]
  /\ AfterRelease(w, IF mem[w].cleaned THEN mem[w].exit ELSE "fail")
  /\ UNCHANGED <<run, owner, results, world, sweeping>>

FinalizeRun(w) ==
  ReadEnvironment(w) \/ CleanEnvironment(w) \/ MarkEnvironment(w)

(* The other actors find the clean-up of finalize_run or provision half    *)
(* done.                                                                   *)
CleanMidway ==
  /\ "midway" \in faults
  /\ \E w \in Worker : pc[w] \in {"clean", "undo"}
  /\ RemoveSome
  /\ UNCHANGED <<run, owner, rows, pc, mem, sweeping>>

-----------------------------------------------------------------------------
(* sweep_expired: it finds the run by the labels of any resource whose     *)
(* lease, fixed when it was provisioned, is over.                          *)

Sweep ==
  /\ "expiry" \in faults
  /\ ~sweeping
  /\ docker # {}
  /\ \E cleaned \in BOOLEAN : CleanupByLabels(cleaned) /\ sweeping' = cleaned
  /\ UNCHANGED <<run, owner, rows, pc, mem>>

SweepMark ==
  /\ sweeping
  /\ env' = IF env.status = "ABSENT" THEN env
                                     ELSE [env EXCEPT !.status = "CLEANED"]
  /\ sweeping' = FALSE
  /\ UNCHANGED <<run, owner, results, world, pc, mem>>

-----------------------------------------------------------------------------

Handle(w) ==
  \/ Begin(w) \/ Provision(w) \/ Execute(w) \/ Collect(w)
  \/ FinalizeRun(w) \/ Returned(w) \/ Finalize(w) \/ Fail(w)

SandboxNext ==
  /\ \/ \E w \in Worker : Claim(w) \/ Handle(w) \/ Crash(w)
     \/ \E r \in docker : RunnerEnds(r)
     \/ Cancel \/ GiveUp \/ CleanMidway \/ Sweep \/ SweepMark
  /\ UNCHANGED faults

SandboxSpec == SandboxInit /\ [][SandboxNext]_sandboxVars

-----------------------------------------------------------------------------
(* Refinement: the run and its claims behave as StageDelivery says.        *)

Decision(w) ==
  CASE pc[w] = "finalizing" -> IF mem[w].cancel THEN "CANCELLED" ELSE "ONWARDS"
    [] pc[w] = "failing" -> "FAILED"
    [] OTHER -> "NONE"

WorkOf(w) ==
  IF pc[w] = "idle" THEN [stage |-> 0, key |-> "STAGE", exit |-> "NONE"]
  ELSE [stage |-> mem[w].stage, key |-> mem[w].key, exit |-> Decision(w)]

Delivery == INSTANCE StageDelivery WITH
  StageCount <- Collecting,
  stage <- run.stage,
  outcome <- run.outcome,
  asked <- run.cancel,
  at <- [w \in Worker |-> WorkOf(w)],
  holders <- {w \in Worker : pc[w] # "idle" /\ Holds(w)}

(* The stages of the sandbox have the delivery that RunExecution implements, *)
(* whatever a handler does between its claim and its end.                  *)
SandboxDelivered == Delivery!DeliverySpec

-----------------------------------------------------------------------------
(* Safety.                                                                 *)

(* The run leaves a runner stage only with a stored success of its action: *)
(* no repeated claim, superseded worker or failed runner ever moves it on  *)
(* without one, and a completed run has the results of all stages.         *)
StagesLeaveResults ==
  /\ run.stage > Provisioning => env.status # "ABSENT"
  /\ \A i \in 1 .. Len(RunnerActions) :
       run.stage > i + 1 \/ run.outcome = "COMPLETED"
         => results[RunnerActions[i]] = "SUCCEEDED"

(* On one database no action succeeds before all earlier ones have: a late *)
(* or repeated runner never meets a database of another life.              *)
DatabaseInOrder ==
  \A i, j \in 1 .. Len(RunnerActions) :
    i < j /\ database[RunnerActions[j]] > 0 => database[RunnerActions[i]] > 0

(* What was removed of an environment stays removed, whoever removed it:   *)
(* a stage that retries finds no new network or database under the row it  *)
(* reads, and no slower worker makes the environment whole again.          *)
CleanedStaysGone ==
  [][env.status # "ABSENT" /\ ~ExistsBy("network", env.by)
       => (/\ ~ExistsBy("network", env.by)
           /\ \A r \in Databases : r.by # env.by)']_sandboxVars

(* A runner has the network by its name only, once it has looked for the   *)
(* environment's by its id: between the two a clean-up may take the        *)
(* environment away, and another worker may make a network of that name.   *)
(* It never meets a running database there but the environment's own.      *)
RunnersMeetTheirDatabase ==
  Runners # {} => \A r \in Databases : r.by = env.by

(* A worker that fails a run in or after its first runner stage, or        *)
(* completes it, has released the environment before, or tried to.         *)
ReleasedBeforeTheEnd ==
  [][/\ run.stage > Provisioning
     /\ run.outcome = "RUNNING"
     /\ \/ run'.outcome = "COMPLETED"
        \/ run'.outcome = "FAILED" /\ \E w \in Worker : pc[w] # pc'[w]
     => env.status # "ACTIVE"]_sandboxVars

-----------------------------------------------------------------------------
(* What documents say of the code, and the code does not do.               *)

(* "apply is not replayed on the same database generation": no action      *)
(* succeeds twice on one database.                                         *)
ApplyNotReplayed == \A a \in Actions : database[a] <= 1

(* "The finalizer removes the containers, the network and the volumes      *)
(* after success, failure and cooperative cancellation": nothing is left   *)
(* of a run that ended when no worker is at work.                          *)
EndedRunIsClean ==
  run.outcome # "RUNNING" /\ (\A w \in Worker : pc[w] = "idle")
    => docker = {}

(* "All resources carry the run_id, generation and lease labels of         *)
(* ShadowOps; the normal finalizer and the periodic sweeper clean up       *)
(* twice": no volume is there that neither of them can find.               *)
ResourcesAreLabelled == anew = {}
=============================================================================
