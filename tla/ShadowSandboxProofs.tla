------------------------ MODULE ShadowSandboxProofs -------------------------
(***************************************************************************)
(* The runner stages leave results, no database meets the actions out of   *)
(* order, what was cleaned stays gone, a runner meets no other             *)
(* environment's database, and a run is released before it ends, for any   *)
(* number of workers and actions and for every fault, with the sweeper at  *)
(* work at any moment; and its handlers implement StageDelivery.           *)
(***************************************************************************)
EXTENDS ShadowSandbox, TLAPS

Recorded == env.status # "ABSENT"
Alive == ExistsBy("network", env.by)

(* The actions before an index have succeeded.                             *)
SucceededBelow(stage) ==
  \A i \in 1 .. Len(RunnerActions) :
    stage > i + 1 => results[RunnerActions[i]] = "SUCCEEDED"

(* There is one network, since a second has no name; a database runs in    *)
(* the network of its worker; a runner was made after all earlier actions. *)
DockerInv ==
  /\ \A r, n \in docker : r.kind = "network" /\ n.kind = "network" => r.by = n.by
  /\ \A r \in Databases : ExistsBy("network", r.by)
  /\ \A r \in Runners :
       /\ Recorded
       /\ \A i, j \in 1 .. Len(RunnerActions) :
            r.kind = RunnerActions[j] /\ i < j =>
              results[RunnerActions[i]] = "SUCCEEDED"
       /\ r.state = "SUCCEEDED" /\ Alive => database[r.kind] > 0

(* The phases in which a worker goes on to start the database.             *)
Starting == {"postgres", "connect", "boot"}

(* Somebody has found the network of the environment.                      *)
Around == Runners # {} \/ \E w \in Worker : pc[w] = "create"

(* Somebody may start a database, in a network of his own.                 *)
Upcoming == \E w \in Worker : pc[w] \in Starting /\ ExistsBy("network", w)

(* Once somebody has found the environment's network the run is beyond     *)
(* provisioning, where no checkpoint lets a database be started any more;  *)
(* and when that network goes, every other one is gone too.                *)
MeetInv ==
  /\ Around => Recorded /\ run.stage > Provisioning
  /\ Around /\ ~Alive => Databases = {} /\ ~Upcoming

(* As long as the environment's network is there, so is the database in    *)
(* which the actions succeeded.                                            *)
RowsInv ==
  /\ Recorded /\ Alive =>
       \A a \in Actions : results[a] = "SUCCEEDED" => database[a] > 0
  /\ \A a \in Actions : results[a] # "NONE" => Recorded

RunInv ==
  /\ StagesLeaveResults
  /\ DatabaseInOrder

Building ==
  {"network", "populated", "postgres", "connect", "boot", "ready", "record"}
InProvision == Building \union {"lookup", "undo", "provisioned"}
InExecute ==
  {"require", "recall", "launch", "create", "start", "waiting", "verify", "store",
   "remove"}
InRelease == {"release", "clean", "mark"}

(* What a worker has to show for the stage it is about to finalize.        *)
Done(w) ==
  /\ mem[w].stage = Provisioning => Recorded
  /\ mem[w].stage \notin {Provisioning, Collecting} =>
       results[Action(w)] = "SUCCEEDED"
  /\ mem[w].stage = Collecting => env.status # "ACTIVE"

(* Where a worker is, and how it came there.                               *)
PlaceInv(w) ==
  /\ pc[w] \in InProvision => mem[w].stage = Provisioning
  /\ pc[w] \in InExecute => mem[w].stage \notin {Provisioning, Collecting}
  /\ pc[w] = "collect" => mem[w].stage = Collecting
  /\ mem[w].stage <= run.stage
  /\ mem[w].exit = "cancel" /\ mem[w].stage = run.stage /\ run.outcome = "RUNNING" =>
       run.cancel
  /\ pc[w] \in InRelease /\ mem[w].exit = "return" => mem[w].stage = Collecting
  /\ pc[w] \in {"verify", "store"} => mem[w].result # "NONE"

(* What it knows of the rows and of Docker.                                *)
KnowledgeInv(w) ==
  /\ mem[w].stage # Provisioning => Recorded
  /\ SucceededBelow(mem[w].stage)
  /\ Recorded /\ env.by = w => pc[w] \notin Building
  /\ pc[w] \in {"provisioned", "clean", "mark"} => Recorded
  /\ pc[w] \in {"verify", "store"} /\ mem[w].result = "SUCCEEDED" /\ Alive =>
       database[Action(w)] > 0
  /\ pc[w] = "remove" /\ mem[w].exit = "return" => results[Action(w)] = "SUCCEEDED"
  /\ pc[w] = "mark" /\ mem[w].cleaned => ~Alive
  /\ pc[w] = "returned" => Done(w)
  /\ pc[w] = "finalizing" /\ mem[w].stage = run.stage /\ run.outcome = "RUNNING" =>
       mem[w].cancel \/ Done(w)
  /\ pc[w] = "failing" /\ mem[w].stage # Provisioning => env.status # "ACTIVE"

SandboxInv ==
  /\ SandboxTypeOK /\ DockerInv /\ RowsInv /\ RunInv /\ MeetInv
  /\ \A w \in Worker : PlaceInv(w) /\ KnowledgeInv(w)

RunGrows ==
  /\ run.stage <= run'.stage
  /\ run.outcome # "RUNNING" => run'.outcome # "RUNNING"
  /\ run.cancel =>
       run'.cancel \/ run.stage < run'.stage \/ run'.outcome # "RUNNING"

(* What no step takes back: a network that is gone does not return to its  *)
(* environment, and the database lives as long as the network.  A request  *)
(* to cancel stays until the run moves.                                    *)
Grows ==
  /\ Recorded => /\ Recorded' /\ env'.by = env.by
                 /\ env.status # "ACTIVE" => env'.status # "ACTIVE"
                 /\ Alive' => /\ Alive
                              /\ \A a \in Actions : database[a] > 0 => database'[a] > 0
  /\ \A a \in Actions : results[a] = "SUCCEEDED" => results'[a] = "SUCCEEDED"
  /\ run' = run \/ RunGrows

(* What every step is shown to do.                                         *)
StepKeeps == SandboxInv' /\ Grows

(* Nobody comes to where a network was found, or a database is started.    *)
Quiet ==
  \A v \in Worker :
    /\ pc'[v] = "create" => pc[v] = "create"
    /\ pc'[v] \in Starting => pc[v] \in Starting

(* What a worker holds, and the type of what it does not.                  *)
Memory == [stage : Stage, key : Keys, exit : Exits,
           result : {"NONE", "SUCCEEDED", "FAILED"}, cleaned : BOOLEAN,
           cancel : BOOLEAN]

SharedTypeOK ==
  /\ run \in [stage : Stage, cancel : BOOLEAN,
              outcome : {"RUNNING", "COMPLETED", "FAILED", "CANCELLED"}]
  /\ owner \in [Keys -> Worker \union {Nobody}]
  /\ env \in [status : {"ABSENT", "ACTIVE", "CLEANED", "CLEANUP_FAILED"},
              by : Worker \union {Nobody}]
  /\ results \in [Actions -> {"NONE", "SUCCEEDED", "FAILED"}]
  /\ docker \subseteq Resource
  /\ anew \subseteq Volumes
  /\ database \in [Actions -> 0 .. 2]
  /\ sweeping \in BOOLEAN

-----------------------------------------------------------------------------

LEMMA TypeParts ==
  SandboxTypeOK <=> SharedTypeOK /\ pc \in [Worker -> Phases] /\ mem \in [Worker -> Memory]
BY DEF SandboxTypeOK, SharedTypeOK, Memory

LEMMA ActionFacts ==
  /\ Len(RunnerActions) \in Nat
  /\ \A i \in 1 .. Len(RunnerActions) : RunnerActions[i] \in Actions
  /\ \A a \in Actions : \E i \in 1 .. Len(RunnerActions) : a = RunnerActions[i]
  /\ \A i, j \in 1 .. Len(RunnerActions) : RunnerActions[i] = RunnerActions[j] => i = j
  /\ "network" \notin Actions /\ "postgres" \notin Actions
BY SandboxAssumption DEF Actions

LEMMA StageFacts ==
  ASSUME NEW stage \in Stage
  PROVE  /\ stage \in Nat
         /\ stage \notin {Provisioning, Collecting} =>
              /\ stage - 1 \in 1 .. Len(RunnerActions)
              /\ ActionOf(stage) = RunnerActions[stage - 1]
              /\ ActionOf(stage) \in Actions
<1>1. stage \in 1 .. Len(RunnerActions) + 2
  BY DEF Stage, Provisioning, Collecting
<1>2. stage \notin {Provisioning, Collecting} => stage - 1 \in 1 .. Len(RunnerActions)
  BY <1>1, ActionFacts DEF Provisioning, Collecting
<1> QED
  BY <1>1, <1>2, ActionFacts DEF ActionOf

LEMMA StagesAre ==
  /\ Provisioning \in Stage /\ Collecting \in Stage
  /\ Provisioning # Collecting
  /\ \A i \in 1 .. Len(RunnerActions) : ~(Provisioning > i + 1) /\ Collecting > i + 1
BY ActionFacts DEF Stage, Provisioning, Collecting

LEMMA ActionOfWorker ==
  ASSUME SandboxTypeOK, NEW w \in Worker
  PROVE  /\ mem[w] \in Memory /\ pc[w] \in Phases /\ mem[w].stage \in Stage
         /\ mem[w].stage \notin {Provisioning, Collecting} => Action(w) \in Actions
<1>1. mem[w] \in Memory /\ pc[w] \in Phases
  BY TypeParts
<1>2. mem[w].stage \in Stage
  BY <1>1 DEF Memory
<1> QED
  BY <1>1, <1>2, StageFacts DEF Action

LEMMA RunStage ==
  /\ SharedTypeOK => run.stage \in Stage
  /\ SharedTypeOK' => run'.stage \in Stage
  /\ SandboxTypeOK => run.stage \in Stage
BY DEF SharedTypeOK, SandboxTypeOK

LEMMA InitSandboxInv ==
  ASSUME SandboxInit
  PROVE  SandboxInv
<1>1. NoMem \in Memory
  BY StagesAre DEF NoMem, Memory, Keys, Exits, Provisioning
<1>2. SandboxTypeOK
  <2>1. SharedTypeOK
    <3>1. NotClaimed \in [Keys -> Worker \union {Nobody}]
      BY DEF NotClaimed
    <3>2. NoAction \in [Actions -> 0 .. 2]
      BY DEF NoAction
    <3>3. run \in [stage : Stage, cancel : BOOLEAN,
                  outcome : {"RUNNING", "COMPLETED", "FAILED", "CANCELLED"}]
      BY StagesAre DEF SandboxInit
    <3> QED
      BY <3>1, <3>2, <3>3 DEF SandboxInit, SharedTypeOK
  <2> QED
    BY <1>1, <2>1, TypeParts DEF SandboxInit, Phases
<1>3. DockerInv /\ RowsInv
  BY DEF SandboxInit, DockerInv, RowsInv, Recorded, Databases, Runners
<1>4. RunInv
  BY StagesAre, ActionFacts
     DEF SandboxInit, RunInv, StagesLeaveResults, DatabaseInOrder, NoAction, Provisioning
<1>5. ASSUME NEW w \in Worker
      PROVE  PlaceInv(w) /\ KnowledgeInv(w)
  <2>1. pc[w] = "idle" /\ mem[w] = NoMem
    BY DEF SandboxInit
  <2>2. PlaceInv(w)
    BY <2>1
       DEF SandboxInit, PlaceInv, InProvision, Building, InExecute, InRelease, NoMem,
           Provisioning
  <2>3. KnowledgeInv(w)
    BY <2>1, StagesAre DEF KnowledgeInv, SucceededBelow, NoMem, Building, Provisioning
  <2> QED
    BY <2>2, <2>3
<1>6. MeetInv
  BY DEF SandboxInit, MeetInv, Around, Runners
<1> QED
  BY <1>2, <1>3, <1>4, <1>5, <1>6 DEF SandboxInv

(* Workers that do not move keep what they know.                           *)
LEMMA Others ==
  ASSUME SandboxInv, Grows, SharedTypeOK', NEW v \in Worker,
         pc'[v] = pc[v], mem'[v] = mem[v],
         Recorded' /\ env'.by = v => Recorded /\ env.by = v
  PROVE  PlaceInv(v)' /\ KnowledgeInv(v)'
<1>1. PlaceInv(v) /\ KnowledgeInv(v) /\ SandboxTypeOK
  BY DEF SandboxInv
<1>2. PlaceInv(v)' /\ (pc[v] = "finalizing" /\ mem[v].stage = run'.stage
                        /\ run'.outcome = "RUNNING" =>
                          mem[v].stage = run.stage /\ run.outcome = "RUNNING")
  <2>1. mem[v].stage \in Nat /\ run.stage \in Nat /\ mem[v].stage <= run.stage
    BY <1>1, ActionOfWorker, RunStage, StageFacts DEF PlaceInv
  <2>2. CASE run' = run
    BY <1>1, <2>2 DEF PlaceInv
  <2>3. CASE RunGrows
    <3>1. run'.stage \in Nat
      BY RunStage, StageFacts
    <3> QED
      BY <1>1, <2>1, <2>3, <3>1 DEF PlaceInv, RunGrows
  <2> QED
    BY <2>2, <2>3 DEF Grows
<1>3. mem[v].stage \notin {Provisioning, Collecting} =>
        Action(v) \in Actions /\ Action(v)' = Action(v)
  BY <1>1, ActionOfWorker DEF Action
<1>4. Done(v) => Done(v)'
  <2>1. mem[v].stage = Collecting => Recorded
    BY <1>1, StagesAre DEF KnowledgeInv
  <2> QED
    BY <1>3, <2>1 DEF Done, Grows
<1>5. SucceededBelow(mem[v].stage)'
  BY <1>1, ActionFacts DEF KnowledgeInv, SucceededBelow, Grows
<1>6. pc[v] \in {"verify", "store", "remove"} =>
        Recorded /\ Action(v) \in Actions /\ Action(v)' = Action(v)
  BY <1>1, <1>3 DEF PlaceInv, KnowledgeInv, InExecute
<1>7. KnowledgeInv(v)'
  BY <1>1, <1>2, <1>4, <1>5, <1>6 DEF KnowledgeInv, Grows
<1> QED
  BY <1>2, <1>7

(* Who found the environment's network keeps to it.                        *)
LEMMA AroundGrows ==
  ASSUME SandboxInv, Grows, SharedTypeOK', Around' => Around
  PROVE  Around' => Recorded' /\ run'.stage > Provisioning
<1>1. Around => Recorded /\ run.stage > Provisioning
  BY DEF SandboxInv, MeetInv
<1>2. run.stage \in Nat /\ run'.stage \in Nat /\ Provisioning \in Nat
  BY RunStage, StageFacts DEF SandboxInv, Provisioning
<1>3. run.stage <= run'.stage
  BY <1>2 DEF Grows, RunGrows
<1> QED
  BY <1>1, <1>2, <1>3 DEF Grows

LEMMA QuietMeets ==
  ASSUME SandboxInv, Grows, SharedTypeOK', Quiet, UNCHANGED docker,
         Recorded => env'.by = env.by
  PROVE  MeetInv'
<1>1. Around' => Around
  BY DEF Around, Runners, Quiet
<1>2. Databases' = Databases /\ (Upcoming' => Upcoming)
  BY DEF Databases, Upcoming, ExistsBy, Quiet
<1>3. Around => Recorded /\ (Alive' <=> Alive)
  BY DEF SandboxInv, MeetInv, Alive, ExistsBy
<1> QED
  BY <1>1, <1>2, <1>3, AroundGrows DEF SandboxInv, MeetInv

LEMMA OneIsQuiet ==
  ASSUME SandboxTypeOK, NEW w \in Worker, NEW place, pc' = [pc EXCEPT ![w] = place],
         place \notin {"postgres", "connect", "boot", "create"}
  PROVE  Quiet
<1>1. \A v \in Worker : pc'[v] = IF v = w THEN place ELSE pc[v]
  BY TypeParts
<1> QED
  BY <1>1 DEF Quiet, Starting

(* What is to be shown of a step of one worker.                            *)
LEMMA StepOfOne ==
  ASSUME SandboxInv, NEW w \in Worker, NEW place \in Phases, NEW held \in Memory,
         pc' = [pc EXCEPT ![w] = place], mem' = [mem EXCEPT ![w] = held],
         SharedTypeOK', Grows, DockerInv', RowsInv', RunInv',
         \/ MeetInv'
         \/ UNCHANGED docker /\ place \notin {"postgres", "connect", "boot", "create"},
         Recorded' /\ env'.by # w => Recorded /\ env.by = env'.by,
         pc'[w] = place /\ mem'[w] = held => PlaceInv(w)' /\ KnowledgeInv(w)'
  PROVE  StepKeeps
<1>1. SandboxTypeOK
  BY DEF SandboxInv
<1>2. SandboxTypeOK'
  <2>1. pc' \in [Worker -> Phases] /\ mem' \in [Worker -> Memory]
    BY <1>1, TypeParts
  <2> QED
    BY <2>1 DEF SandboxTypeOK, SharedTypeOK, Memory
<1>3. /\ pc'[w] = place /\ mem'[w] = held
      /\ \A v \in Worker \ {w} : pc'[v] = pc[v] /\ mem'[v] = mem[v]
  BY <1>1, TypeParts
<1>4. ASSUME NEW v \in Worker
      PROVE  PlaceInv(v)' /\ KnowledgeInv(v)'
  <2>1. CASE v = w
    BY <1>3, <2>1
  <2>2. CASE v # w
    <3>1. Recorded' /\ env'.by = v => Recorded /\ env.by = v
      BY <2>2
    <3> QED
      BY <1>3, <2>2, <3>1, Others
  <2> QED
    BY <2>1, <2>2
<1>5. MeetInv'
  BY <1>1, OneIsQuiet, QuietMeets DEF Grows
<1> QED
  BY <1>2, <1>4, <1>5 DEF SandboxInv, StepKeeps

(* A step that writes nothing but what a worker holds, and the claims.     *)
LEMMA StepInMemory ==
  ASSUME SandboxInv, NEW w \in Worker, NEW place \in Phases, NEW held \in Memory,
         pc' = [pc EXCEPT ![w] = place], mem' = [mem EXCEPT ![w] = held],
         UNCHANGED <<run, env, results, docker, anew, database, sweeping>>,
         owner' \in [Keys -> Worker \union {Nobody}],
         place \in {"postgres", "connect", "boot", "create"} => MeetInv',
         pc'[w] = place /\ mem'[w] = held => PlaceInv(w)' /\ KnowledgeInv(w)'
  PROVE  StepKeeps
<1>1. SharedTypeOK'
  BY TypeParts DEF SandboxInv, SharedTypeOK
<1>2. Grows
  BY DEF Grows, Recorded, Alive, ExistsBy
<1>3. DockerInv' /\ RowsInv' /\ RunInv'
  BY DEF SandboxInv, DockerInv, RowsInv, RunInv, StagesLeaveResults, DatabaseInOrder,
         Recorded, Alive, ExistsBy, Databases, Runners
<1>4. Recorded' /\ env'.by # w => Recorded /\ env.by = env'.by
  BY DEF Recorded
<1> QED
  BY <1>1, <1>2, <1>3, <1>4, StepOfOne

-----------------------------------------------------------------------------
(* Going on, raising and giving up.                                        *)

LEMMA OnlyWorkerIs ==
  OnlyWorker <=> UNCHANGED <<run, owner, env, results, docker, anew, database, sweeping>>
BY DEF OnlyWorker, rows, world

LEMMA GoOnStep ==
  ASSUME SandboxInv, NEW w \in Worker, NEW place \in Phases,
         GoTo(w, place), UNCHANGED mem, OnlyWorker,
         place \in {"postgres", "connect", "boot", "create"} => MeetInv',
         pc'[w] = place => PlaceInv(w)' /\ KnowledgeInv(w)'
  PROVE  StepKeeps
<1>1. mem[w] \in Memory /\ mem' = [mem EXCEPT ![w] = mem[w]]
  BY ActionOfWorker, TypeParts DEF SandboxInv
<1>2. owner' \in [Keys -> Worker \union {Nobody}]
  BY OnlyWorkerIs, TypeParts DEF SandboxInv, SharedTypeOK
<1> QED
  BY <1>1, <1>2, OnlyWorkerIs, StepInMemory DEF GoTo

LEMMA RaiseStep ==
  ASSUME SandboxInv, NEW w \in Worker, NEW exit \in Exits, Raise(w, exit), OnlyWorker,
         exit = "cancel" => run.cancel,
         exit = "return" => mem[w].stage = Collecting
  PROVE  StepKeeps
<1> DEFINE held == [mem[w] EXCEPT !.exit = exit]
<1>1. mem[w] \in Memory /\ PlaceInv(w) /\ KnowledgeInv(w)
  BY ActionOfWorker DEF SandboxInv
<1>2. /\ held \in Memory
      /\ held.stage = mem[w].stage /\ held.exit = exit /\ held.result = mem[w].result
  BY <1>1 DEF Memory
<1>3. /\ pc' = [pc EXCEPT ![w] = "release"] /\ mem' = [mem EXCEPT ![w] = held]
      /\ "release" \in Phases
  BY DEF Raise, GoTo, Phases
<1>4. owner' \in [Keys -> Worker \union {Nobody}]
  BY OnlyWorkerIs, TypeParts DEF SandboxInv, SharedTypeOK
<1> HIDE DEF held
<1>5. ASSUME pc'[w] = "release", mem'[w] = held
      PROVE  PlaceInv(w)' /\ KnowledgeInv(w)'
  <2>1. PlaceInv(w)'
    BY <1>1, <1>2, <1>5, OnlyWorkerIs
       DEF PlaceInv, InProvision, Building, InExecute, InRelease
  <2>2. KnowledgeInv(w)'
    BY <1>1, <1>2, <1>5, OnlyWorkerIs
       DEF KnowledgeInv, SucceededBelow, Recorded, Building
  <2> QED
    BY <2>1, <2>2
<1> QED
  BY <1>2, <1>3, <1>4, <1>5, OnlyWorkerIs, StepInMemory

LEMMA NoMemType ==
  /\ NoMem \in Memory /\ NoMem.stage = Provisioning /\ NoMem.exit = "return"
  /\ NoMem.result = "NONE"
BY StagesAre DEF NoMem, Memory, Keys, Exits, Provisioning

(* A worker without work knows nothing.                                    *)
LEMMA IdleInv ==
  ASSUME NEW w \in Worker, SharedTypeOK', pc'[w] = "idle", mem'[w] = NoMem
  PROVE  PlaceInv(w)' /\ KnowledgeInv(w)'
<1>1. Provisioning <= run'.stage
  BY RunStage DEF Stage, Provisioning, Collecting
<1>2. PlaceInv(w)'
  BY <1>1, NoMemType DEF PlaceInv, InProvision, Building, InExecute, InRelease
<1>3. KnowledgeInv(w)'
  BY NoMemType, StagesAre DEF KnowledgeInv, SucceededBelow, Building
<1> QED
  BY <1>2, <1>3

LEMMA DropStep ==
  ASSUME SandboxInv, NEW w \in Worker, Drop(w), OnlyWorker
  PROVE  StepKeeps
<1>1. owner' \in [Keys -> Worker \union {Nobody}]
  BY OnlyWorkerIs, TypeParts DEF SandboxInv, SharedTypeOK
<1>2. /\ pc' = [pc EXCEPT ![w] = "idle"] /\ mem' = [mem EXCEPT ![w] = NoMem]
      /\ "idle" \in Phases
  BY DEF Drop, GoTo, Phases
<1>3. SharedTypeOK'
  BY OnlyWorkerIs, TypeParts DEF SandboxInv, SharedTypeOK
<1> QED
  BY <1>1, <1>2, <1>3, NoMemType, IdleInv, OnlyWorkerIs, StepInMemory

LEMMA ExitFacts ==
  ASSUME NEW w \in Worker
  PROVE  /\ CheckpointExit(w) \in {"return", "cancel", "lost"}
         /\ CheckpointExit(w) = "lost" <=> ~Holds(w)
         /\ CheckpointExit(w) = "cancel" => run.cancel
BY DEF CheckpointExit

(* A checkpoint inside a handler.                                          *)
LEMMA CheckpointStep ==
  ASSUME SandboxInv, NEW w \in Worker, NEW next \in Phases, Checkpoint(w, next),
         next \in {"postgres", "connect", "boot", "create"} =>
           (GoTo(w, next) /\ Holds(w) /\ UNCHANGED <<run, env, docker>> => MeetInv'),
         pc'[w] = next /\ Holds(w) /\ UNCHANGED <<run, env, results, docker, anew, database, mem>>
           => PlaceInv(w)' /\ KnowledgeInv(w)'
  PROVE  StepKeeps
<1>1. OnlyWorker
  BY OnlyWorkerIs DEF Checkpoint, rows, world
<1>2. CASE CheckpointExit(w) = "return"
  <2>1. GoTo(w, next) /\ UNCHANGED mem /\ Holds(w)
    BY <1>2, ExitFacts DEF Checkpoint
  <2> QED
    BY <1>1, <2>1, GoOnStep, OnlyWorkerIs
<1>3. CASE CheckpointExit(w) # "return"
  <2>1. Raise(w, CheckpointExit(w))
    BY <1>3 DEF Checkpoint
  <2>2. CheckpointExit(w) \in Exits
    BY ExitFacts DEF Exits
  <2> QED
    BY <1>1, <1>3, <2>1, <2>2, ExitFacts, RaiseStep
<1> QED
  BY <1>2, <1>3

-----------------------------------------------------------------------------
(* Delivery.                                                               *)

LEMMA ClaimStep ==
  ASSUME SandboxInv, NEW w \in Worker, Claim(w)
  PROVE  StepKeeps
<1>0. PICK key \in Keys :
        /\ owner' = [owner EXCEPT ![key] = w]
        /\ mem' = [mem EXCEPT ![w] = [NoMem EXCEPT !.stage = run.stage, !.key = key]]
  BY DEF Claim, Keys
<1> DEFINE held == [NoMem EXCEPT !.stage = run.stage, !.key = key]
<1>1. SandboxTypeOK /\ run.stage \in Stage /\ run.stage <= run.stage
  BY StageFacts DEF SandboxInv, SandboxTypeOK
<1>2. key \in Keys
  OBVIOUS
<1>3. /\ held \in Memory /\ held.stage = run.stage /\ held.exit = "return"
      /\ held.result = "NONE"
  BY <1>1, <1>2 DEF NoMem, Memory, Exits
<1>4. /\ pc' = [pc EXCEPT ![w] = "claimed"] /\ mem' = [mem EXCEPT ![w] = held]
      /\ owner' = [owner EXCEPT ![key] = w] /\ "claimed" \in Phases
      /\ UNCHANGED <<run, env, results, docker, anew, database, sweeping>>
  BY <1>0 DEF Claim, GoTo, rows, world, Phases
<1> HIDE DEF held
<1>5. owner' \in [Keys -> Worker \union {Nobody}]
  BY <1>1, <1>2, <1>4 DEF SandboxTypeOK
<1>6. ASSUME pc'[w] = "claimed", mem'[w] = held
      PROVE  PlaceInv(w)' /\ KnowledgeInv(w)'
  <2>1. PlaceInv(w)'
    BY <1>1, <1>3, <1>4, <1>6
       DEF PlaceInv, InProvision, Building, InExecute, InRelease
  <2>2. run.stage # Provisioning => run.stage > Provisioning
    BY <1>1, ActionFacts DEF Stage, Provisioning, Collecting
  <2>3. KnowledgeInv(w)'
    BY <1>3, <1>4, <1>6, <2>2
       DEF SandboxInv, RunInv, StagesLeaveResults, KnowledgeInv, SucceededBelow, Recorded,
           Building
  <2> QED
    BY <2>1, <2>3
<1> QED
  BY <1>3, <1>4, <1>5, <1>6, StepInMemory

LEMMA BeginStep ==
  ASSUME SandboxInv, NEW w \in Worker, Begin(w)
  PROVE  StepKeeps
<1>1. CASE CheckpointExit(w) = "lost"
  BY <1>1, DropStep DEF Begin, OnlyWorker
<1>2. CASE CheckpointExit(w) # "lost"
  <2> DEFINE next == FirstPhase(run.stage)
  <2>1. Checkpoint(w, next) /\ pc[w] = "claimed" /\ Holds(w)
    BY <1>2, ExitFacts DEF Begin
  <2>2. /\ next \in {"lookup", "collect", "require"} /\ mem[w].stage = run.stage
        /\ next = "lookup" => mem[w].stage = Provisioning
        /\ next = "collect" => mem[w].stage = Collecting
        /\ next = "require" => mem[w].stage \notin {Provisioning, Collecting}
    BY <2>1 DEF FirstPhase, Holds
  <2> HIDE DEF next
  <2>3. PlaceInv(w) /\ KnowledgeInv(w)
    BY DEF SandboxInv
  <2>4. ASSUME pc'[w] = next, UNCHANGED <<run, env, results, docker, anew, database, mem>>
        PROVE  PlaceInv(w)' /\ KnowledgeInv(w)'
    <3>1. PlaceInv(w)'
      BY <2>2, <2>3, <2>4 DEF PlaceInv, InProvision, Building, InExecute, InRelease
    <3>2. KnowledgeInv(w)'
      BY <2>2, <2>3, <2>4 DEF KnowledgeInv, SucceededBelow, Recorded, Building
    <3> QED
      BY <3>1, <3>2
  <2>5. next \in Phases
    BY <2>2 DEF Phases
  <2> QED
    BY <2>1, <2>2, <2>4, <2>5, CheckpointStep
<1> QED
  BY <1>1, <1>2

(* finalize may read with the stage done, or with the run to be cancelled. *)
LEMMA ReadToFinalize ==
  ASSUME SandboxInv, NEW w \in Worker, FinalizeRead(w),
         SharedTypeOK', Grows, DockerInv', RowsInv', RunInv', env'.by = env.by,
         UNCHANGED <<run, results, docker>>, Recorded' <=> Recorded, pc[w] # "idle",
         \/ Done(w) /\ UNCHANGED env
         \/ mem[w].exit = "cancel"
  PROVE  StepKeeps
<1> DEFINE held == [mem[w] EXCEPT !.cancel = run.cancel]
<1>1. PlaceInv(w) /\ KnowledgeInv(w) /\ SandboxTypeOK /\ run.cancel \in BOOLEAN
  BY DEF SandboxInv, SandboxTypeOK
<1>2. /\ held \in Memory /\ held.stage = mem[w].stage /\ held.exit = mem[w].exit
      /\ held.cancel = run.cancel
  BY <1>1, ActionOfWorker DEF Memory
<1>3. /\ pc' = [pc EXCEPT ![w] = "finalizing"] /\ mem' = [mem EXCEPT ![w] = held]
      /\ "finalizing" \in Phases
  BY DEF FinalizeRead, GoTo, Phases
<1> HIDE DEF held
<1>4. ASSUME pc'[w] = "finalizing", mem'[w] = held
      PROVE  PlaceInv(w)' /\ KnowledgeInv(w)'
  <2>1. PlaceInv(w)'
    BY <1>1, <1>2, <1>4 DEF PlaceInv, InProvision, Building, InExecute, InRelease
  <2>2. Done(w) /\ UNCHANGED env => Done(w)'
    BY <1>2, <1>4 DEF Done, Recorded, Action
  <2>3. /\ mem[w].stage = run.stage /\ run.outcome = "RUNNING" =>
             held.cancel \/ Done(w)'
    BY <1>1, <1>2, <2>2 DEF PlaceInv
  <2>4. KnowledgeInv(w)'
    BY <1>1, <1>2, <1>4, <2>3 DEF KnowledgeInv, SucceededBelow, Building
  <2> QED
    BY <2>1, <2>4
<1>5. Recorded' /\ env'.by # w => Recorded /\ env.by = env'.by
  OBVIOUS
<1> QED
  BY <1>2, <1>3, <1>4, <1>5, StepOfOne

LEMMA UnchangedKeeps ==
  ASSUME SandboxInv, OnlyWorker
  PROVE  /\ SharedTypeOK' /\ Grows /\ DockerInv' /\ RowsInv' /\ RunInv'
         /\ env'.by = env.by /\ UNCHANGED <<run, env, results>> /\ (Recorded' <=> Recorded)
<1>1. SharedTypeOK'
  BY OnlyWorkerIs, TypeParts DEF SandboxInv, SharedTypeOK
<1>2. Grows
  BY OnlyWorkerIs DEF Grows, Recorded, Alive, ExistsBy
<1>3. DockerInv' /\ RowsInv' /\ RunInv'
  BY OnlyWorkerIs
     DEF SandboxInv, DockerInv, RowsInv, RunInv, StagesLeaveResults, DatabaseInOrder,
         Recorded, Alive, ExistsBy, Databases, Runners
<1> QED
  BY <1>1, <1>2, <1>3, OnlyWorkerIs DEF Recorded

LEMMA ReturnedStep ==
  ASSUME SandboxInv, NEW w \in Worker, Returned(w)
  PROVE  StepKeeps
<1>1. CASE CheckpointExit(w) = "lost"
  BY <1>1, DropStep DEF Returned, OnlyWorker
<1>2. CASE CheckpointExit(w) # "lost"
  <2>1. FinalizeRead(w) /\ OnlyWorker /\ pc[w] = "returned"
    BY <1>2 DEF Returned, OnlyWorker
  <2>2. Done(w)
    BY <2>1 DEF SandboxInv, KnowledgeInv
  <2> QED
    BY <2>1, <2>2, OnlyWorkerIs, ReadToFinalize, UnchangedKeeps
<1> QED
  BY <1>1, <1>2

(* A step that moves the run and leaves rows and Docker alone.             *)
LEMMA MoveStep ==
  ASSUME SandboxInv, NEW w \in Worker, NEW moved, MoveRun(w, moved),
         Holds(w) =>
           /\ moved \in [stage : Stage, cancel : BOOLEAN,
                         outcome : {"RUNNING", "COMPLETED", "FAILED", "CANCELLED"}]
           /\ \/ run.stage < moved.stage
              \/ run.stage = moved.stage /\ moved.outcome # "RUNNING"
           /\ moved.stage > Provisioning => Recorded
           /\ SucceededBelow(moved.stage)
           /\ moved.outcome = "COMPLETED" => SucceededBelow(Collecting)
  PROVE  StepKeeps
<1>1. CASE ~Holds(w)
  BY <1>1, DropStep DEF MoveRun, OnlyWorker
<1>2. CASE Holds(w)
  <2>1. /\ UNCHANGED <<env, results, docker, anew, database, sweeping>>
        /\ run' = moved /\ owner' = NotClaimed
        /\ pc' = [pc EXCEPT ![w] = "idle"] /\ mem' = [mem EXCEPT ![w] = NoMem]
        /\ "idle" \in Phases
    BY <1>2 DEF MoveRun, Drop, GoTo, rows, world, Phases
  <2>2. SharedTypeOK'
    <3>1. owner' \in [Keys -> Worker \union {Nobody}]
      BY <2>1 DEF NotClaimed
    <3> QED
      BY <1>2, <2>1, <3>1, TypeParts DEF SandboxInv, SharedTypeOK
  <2>3. Grows
    <3>1. run.stage \in Nat /\ run'.stage \in Nat /\ run.outcome = "RUNNING"
      BY <1>2, <2>2, RunStage, StageFacts DEF SandboxInv, Holds
    <3>2. RunGrows
      BY <1>2, <2>1, <3>1 DEF RunGrows
    <3> QED
      BY <2>1, <3>2 DEF Grows, Recorded, Alive, ExistsBy
  <2>4. DockerInv' /\ RowsInv'
    BY <2>1 DEF SandboxInv, DockerInv, RowsInv, Recorded, Alive, ExistsBy, Databases, Runners
  <2>5. RunInv'
    <3>1. StagesLeaveResults'
      BY <1>2, <2>1, StagesAre DEF StagesLeaveResults, SucceededBelow, Recorded
    <3>2. DatabaseInOrder'
      BY <2>1 DEF SandboxInv, RunInv, DatabaseInOrder
    <3> QED
      BY <3>1, <3>2 DEF RunInv
  <2>6. Recorded' /\ env'.by # w => Recorded /\ env.by = env'.by
    BY <2>1 DEF Recorded
  <2> QED
    BY <2>1, <2>2, <2>3, <2>4, <2>5, <2>6, NoMemType, IdleInv, StepOfOne
<1> QED
  BY <1>1, <1>2

LEMMA RunType ==
  ASSUME SandboxInv
  PROVE  /\ run \in [stage : Stage, cancel : BOOLEAN,
                     outcome : {"RUNNING", "COMPLETED", "FAILED", "CANCELLED"}]
         /\ run.stage > Provisioning => Recorded
         /\ SucceededBelow(run.stage)
BY DEF SandboxInv, SandboxTypeOK, RunInv, StagesLeaveResults, SucceededBelow, Recorded

LEMMA FailStep ==
  ASSUME SandboxInv, NEW w \in Worker, Fail(w)
  PROVE  StepKeeps
<1> DEFINE moved == [run EXCEPT !.outcome = "FAILED"]
<1>1. MoveRun(w, moved)
  BY DEF Fail
<1>2. /\ moved \in [stage : Stage, cancel : BOOLEAN,
                    outcome : {"RUNNING", "COMPLETED", "FAILED", "CANCELLED"}]
      /\ moved.stage = run.stage /\ moved.outcome = "FAILED"
  BY RunType
<1> HIDE DEF moved
<1> QED
  BY <1>1, <1>2, RunType, MoveStep

LEMMA FinalizeStep ==
  ASSUME SandboxInv, NEW w \in Worker, Finalize(w)
  PROVE  StepKeeps
<1> DEFINE cancelled == [run EXCEPT !.outcome = "CANCELLED"]
           completed == [run EXCEPT !.outcome = "COMPLETED", !.cancel = FALSE]
           onwards == [run EXCEPT !.stage = @ + 1, !.cancel = FALSE]
           moved == IF mem[w].cancel THEN cancelled
                    ELSE IF run.stage = Collecting THEN completed ELSE onwards
<1>1. MoveRun(w, moved) /\ pc[w] = "finalizing"
  BY DEF Finalize
<1>2. /\ cancelled \in [stage : Stage, cancel : BOOLEAN,
                        outcome : {"RUNNING", "COMPLETED", "FAILED", "CANCELLED"}]
      /\ cancelled.stage = run.stage
      /\ cancelled.outcome = "CANCELLED"
  BY RunType
<1>3. /\ completed \in [stage : Stage, cancel : BOOLEAN,
                        outcome : {"RUNNING", "COMPLETED", "FAILED", "CANCELLED"}]
      /\ completed.stage = run.stage /\ completed.outcome = "COMPLETED"
  BY RunType
<1>4. /\ run.stage + 1 \in Stage => onwards \in [stage : Stage, cancel : BOOLEAN,
                        outcome : {"RUNNING", "COMPLETED", "FAILED", "CANCELLED"}]
      /\ onwards.stage = run.stage + 1
      /\ onwards.outcome = run.outcome
  BY RunType
<1> HIDE DEF cancelled, completed, onwards
<1>5. SUFFICES ASSUME Holds(w)
      PROVE /\ moved \in [stage : Stage, cancel : BOOLEAN,
                          outcome : {"RUNNING", "COMPLETED", "FAILED", "CANCELLED"}]
            /\ \/ run.stage < moved.stage
               \/ run.stage = moved.stage /\ moved.outcome # "RUNNING"
            /\ moved.stage > Provisioning => Recorded
            /\ SucceededBelow(moved.stage)
            /\ moved.outcome = "COMPLETED" => SucceededBelow(Collecting)
  <2> HIDE DEF moved
  <2> QED
    BY <1>1, <1>5, MoveStep
<1>6. CASE mem[w].cancel
  BY <1>2, <1>6, RunType
<1>7. CASE ~mem[w].cancel /\ run.stage = Collecting
  BY <1>3, <1>7, RunType
<1>8. CASE ~mem[w].cancel /\ run.stage # Collecting
  <2>1. mem[w].stage = run.stage /\ run.outcome = "RUNNING" /\ Done(w)
    BY <1>1, <1>5, <1>8 DEF Holds, SandboxInv, KnowledgeInv
  <2>2. run.stage \in Stage /\ run.stage \in Nat
    BY RunType, StageFacts
  <2>3. run.stage + 1 \in Stage
    BY <1>8, <2>2, ActionFacts DEF Stage, Provisioning, Collecting
  <2>4. Recorded
    BY <2>1, RunType DEF Done, SandboxInv, KnowledgeInv
  <2>5. SucceededBelow(run.stage + 1)
    <3>1. SUFFICES ASSUME NEW i \in 1 .. Len(RunnerActions), run.stage + 1 > i + 1
                   PROVE  results[RunnerActions[i]] = "SUCCEEDED"
      BY DEF SucceededBelow
    <3>2. i \in Nat /\ i >= 1
      BY ActionFacts
    <3>3. CASE run.stage > i + 1
      BY <3>3, RunType DEF SucceededBelow
    <3>4. CASE run.stage = i + 1
      <4>1. run.stage \notin {Provisioning, Collecting} /\ run.stage - 1 = i
        BY <1>8, <3>2, <3>4 DEF Provisioning
      <4>2. Action(w) = RunnerActions[i]
        BY <2>1, <2>2, <4>1, StageFacts DEF Action
      <4> QED
        BY <2>1, <4>1, <4>2 DEF Done
    <3> QED
      BY <2>2, <3>1, <3>2, <3>3, <3>4
  <2>6. moved = onwards /\ run.stage < onwards.stage
    BY <1>4, <1>8, <2>2
  <2> HIDE DEF moved
  <2> QED
    BY <1>4, <2>1, <2>3, <2>4, <2>5, <2>6
<1> QED
  BY <1>6, <1>7, <1>8

-----------------------------------------------------------------------------
(* Docker.                                                                 *)

(* A clean-up at its end, or a part of it.                                 *)
Removes(cleaned) == (cleaned /\ RemoveTo({})) \/ (~cleaned /\ RemoveSome)

LEMMA CleanupRemoves ==
  ASSUME NEW cleaned \in BOOLEAN, CleanupByLabels(cleaned)
  PROVE  Removes(cleaned)
BY DEF CleanupByLabels, Removes

(* A clean-up takes all, or leaves the database; what it leaves besides    *)
(* networks keeps its network.                                             *)
LEMMA CleanupFacts ==
  ASSUME SandboxInv, NEW cleaned, Removes(cleaned)
  PROVE  /\ docker' \subseteq docker /\ UNCHANGED anew
         /\ cleaned => docker' = {}
         /\ database' \in {database, NoAction}
         /\ \A by : ExistsBy("network", by)' => ExistsBy("network", by) /\ database' = database
         /\ \A r, n \in docker :
              r \in docker' /\ r.kind # "network" /\ n.kind = "network" => n \in docker'
<1>1. CASE RemoveTo({}) /\ cleaned
  BY <1>1 DEF RemoveTo, ExistsBy
<1>2. CASE ~cleaned /\ RemoveSome
  <2>1. PICK left \in Leftovers : RemoveTo(left)
    BY <1>2 DEF RemoveSome
  <2>2. /\ docker' = left /\ left \subseteq docker /\ UNCHANGED anew
        /\ (\E r \in left : r.kind # "network") =>
              \A r \in docker : r.kind = "network" => r \in left
        /\ database' = IF "data" \in anew \/ \E r \in left : r.kind = "network"
                       THEN database ELSE NoAction
    BY <2>1 DEF Leftovers, RemoveTo
  <2> QED
    BY <1>2, <2>2 DEF ExistsBy
<1> QED
  BY <1>1, <1>2 DEF Removes

(* When the environment's network goes, so do all others: it is the only   *)
(* one.  A database is left with the network of its worker, or goes too.   *)
LEMMA CleanupKeeps ==
  ASSUME SandboxInv, NEW cleaned, Removes(cleaned), Quiet,
         UNCHANGED <<run, env, results>>,
         owner' \in [Keys -> Worker \union {Nobody}], sweeping' \in BOOLEAN
  PROVE  SharedTypeOK' /\ Grows /\ DockerInv' /\ RowsInv' /\ RunInv' /\ MeetInv'
<1>1. SharedTypeOK'
  <2>1. NoAction \in [Actions -> 0 .. 2]
    BY DEF NoAction
  <2> QED
    BY <2>1, CleanupFacts DEF SandboxInv, SandboxTypeOK, SharedTypeOK
<1>2. Alive' => Alive /\ database' = database
  BY CleanupFacts DEF Alive, ExistsBy
<1>3. Grows
  BY <1>2 DEF Grows, Recorded
<1>4. DockerInv'
  <2>1. \A r, n \in docker' : r.kind = "network" /\ n.kind = "network" => r.by = n.by
    BY CleanupFacts DEF SandboxInv, DockerInv
  <2>2. ASSUME NEW r \in Databases'
        PROVE  ExistsBy("network", r.by)'
    <3>1. r \in docker' /\ r.kind # "network" /\ r \in Databases
      BY <2>2, CleanupFacts DEF Databases
    <3>2. PICK n \in docker : n.kind = "network" /\ n.by = r.by
      BY <3>1 DEF SandboxInv, DockerInv, ExistsBy
    <3>3. n \in docker'
      BY <3>1, <3>2, CleanupFacts
    <3> QED
      BY <3>2, <3>3 DEF ExistsBy
  <2>3. ASSUME NEW r \in Runners'
        PROVE  /\ Recorded'
               /\ \A i, j \in 1 .. Len(RunnerActions) :
                    r.kind = RunnerActions[j] /\ i < j =>
                      results'[RunnerActions[i]] = "SUCCEEDED"
               /\ r.state = "SUCCEEDED" /\ Alive' => database'[r.kind] > 0
    <3>1. r \in Runners
      BY <2>3, CleanupFacts DEF Runners
    <3> QED
      BY <1>2, <3>1 DEF SandboxInv, DockerInv, Recorded
  <2> QED
    BY <2>1, <2>2, <2>3 DEF DockerInv
<1>5. RowsInv'
  BY <1>2 DEF SandboxInv, RowsInv, Recorded
<1>6. StagesLeaveResults'
  BY DEF SandboxInv, RunInv, StagesLeaveResults
<1>7. DatabaseInOrder'
  <2>1. CASE database' = database
    BY <2>1 DEF SandboxInv, RunInv, DatabaseInOrder
  <2>2. CASE database' = NoAction
    <3>1. \A j \in 1 .. Len(RunnerActions) : ~ (database'[RunnerActions[j]] > 0)
      BY <2>2 DEF NoAction, Actions
    <3> QED
      BY <3>1 DEF DatabaseInOrder
  <2> QED
    BY <2>1, <2>2, CleanupFacts
<1>8. RunInv'
  BY <1>6, <1>7 DEF RunInv
<1>9. MeetInv'
  <2>1. Around' => Around
    BY CleanupFacts DEF Around, Runners, Quiet
  <2>2. Databases' \subseteq Databases /\ (Upcoming' => Upcoming)
    BY CleanupFacts DEF Databases, Upcoming, Quiet
  <2>3. ASSUME Around, ~Alive'
        PROVE  Databases' = {} /\ ~Upcoming'
    <3>1. CASE ~Alive
      BY <2>2, <2>3, <3>1 DEF SandboxInv, MeetInv
    <3>2. CASE Alive
      <4>1. \A by : ~ExistsBy("network", by)'
        BY <2>3, <3>2, CleanupFacts DEF SandboxInv, DockerInv, Alive, ExistsBy
      <4> QED
        BY <1>4, <4>1 DEF DockerInv, Upcoming
    <3> QED
      BY <3>1, <3>2
  <2> QED
    BY <1>1, <1>3, <2>1, <2>3, AroundGrows DEF MeetInv
<1> QED
  BY <1>1, <1>3, <1>4, <1>5, <1>8, <1>9

(* What is created starts no database; a new network is the only one, and  *)
(* belongs to no environment.                                              *)
LEMMA CreateKeeps ==
  ASSUME SandboxInv, NEW new \in Resource, docker' = docker \union {new},
         anew' \subseteq Volumes, Quiet,
         UNCHANGED <<run, owner, env, results, database, sweeping>>,
         new.kind = "network" =>
           /\ ~Exists("network") /\ (Recorded => env.by # new.by)
           /\ pc'[new.by] \notin Starting,
         new.kind # "network" => new.state = "CREATED",
         new.kind \in Actions =>
           /\ Around /\ Recorded
           /\ \A i, j \in 1 .. Len(RunnerActions) :
                new.kind = RunnerActions[j] /\ i < j => results[RunnerActions[i]] = "SUCCEEDED"
  PROVE  SharedTypeOK' /\ Grows /\ DockerInv' /\ RowsInv' /\ RunInv' /\ MeetInv'
<1>1. SharedTypeOK'
  BY TypeParts DEF SandboxInv, SharedTypeOK
<1>2. Recorded => (Alive' <=> Alive)
  BY DEF Alive, ExistsBy
<1>3. Grows
  BY <1>2 DEF Grows, Recorded
<1>4. Databases' = Databases
  BY DEF Databases
<1>5. DockerInv'
  <2>1. \A r, n \in docker' : r.kind = "network" /\ n.kind = "network" => r.by = n.by
    BY DEF SandboxInv, DockerInv, Exists
  <2>2. ASSUME NEW r \in Databases'
        PROVE  ExistsBy("network", r.by)'
    BY <1>4, <2>2 DEF SandboxInv, DockerInv, ExistsBy
  <2>3. ASSUME NEW r \in Runners'
        PROVE  /\ Recorded'
               /\ \A i, j \in 1 .. Len(RunnerActions) :
                    r.kind = RunnerActions[j] /\ i < j =>
                      results'[RunnerActions[i]] = "SUCCEEDED"
               /\ r.state = "SUCCEEDED" /\ Alive' => database'[r.kind] > 0
    <3>1. r.kind \in Actions /\ r \in docker \union {new}
      BY <2>3 DEF Runners
    <3>2. CASE r = new
      BY <3>1, <3>2, ActionFacts DEF Recorded
    <3>3. CASE r \in Runners
      BY <1>2, <3>3 DEF SandboxInv, DockerInv, Recorded
    <3> QED
      BY <3>1, <3>2, <3>3 DEF Runners
  <2> QED
    BY <2>1, <2>2, <2>3 DEF DockerInv
<1>6. RowsInv'
  BY <1>2 DEF SandboxInv, RowsInv, Recorded
<1>7. RunInv'
  BY DEF SandboxInv, RunInv, StagesLeaveResults, DatabaseInOrder
<1>8. MeetInv'
  <2>1. Around' => Around
    BY DEF Around, Runners, Quiet
  <2>2. Upcoming' => Upcoming
    <3>1. ASSUME NEW v \in Worker, pc'[v] \in Starting, ExistsBy("network", v)'
          PROVE  pc[v] \in Starting /\ ExistsBy("network", v)
      BY <3>1 DEF ExistsBy, Quiet
    <3> QED
      BY <3>1 DEF Upcoming
  <2>3. Around => Recorded
    BY DEF SandboxInv, MeetInv
  <2> QED
    BY <1>1, <1>2, <1>3, <1>4, <2>1, <2>2, <2>3, AroundGrows DEF SandboxInv, MeetInv
<1> QED
  BY <1>1, <1>3, <1>5, <1>6, <1>7, <1>8

(* A container is started by the worker that made it.                      *)
LEMMA StartFacts ==
  ASSUME SandboxTypeOK, NEW w \in Worker, NEW kind \in Kinds, StartContainer(w, kind)
  PROVE  /\ docker' \subseteq Resource
         /\ \A r \in docker' : \E o \in docker :
              /\ r.kind = o.kind /\ r.by = o.by
              /\ r = o \/ (r.kind = kind /\ r.by = w /\ r.state = "UP")
         /\ \A o \in docker : \E r \in docker' : r.kind = o.kind /\ r.by = o.by
         /\ \A r \in docker \union docker' :
              r.kind # kind => r \in docker /\ r \in docker'
<1> DEFINE Started(r) == IF r.kind = kind /\ r.by = w THEN [r EXCEPT !.state = "UP"] ELSE r
<1>1. docker' = {Started(r) : r \in docker}
  BY DEF StartContainer
<1>2. ASSUME NEW r \in docker
      PROVE  /\ Started(r) \in Resource /\ Started(r).kind = r.kind /\ Started(r).by = r.by
             /\ Started(r) = r \/ (r.kind = kind /\ r.by = w /\ Started(r).state = "UP")
  BY DEF SandboxTypeOK, Resource
<1> HIDE DEF Started
<1> QED
  BY <1>1, <1>2

(* Who starts a database does so in a network of his own.                  *)
LEMMA StartPostgresKeeps ==
  ASSUME SandboxInv, NEW w \in Worker, pc[w] = "boot", ExistsBy("network", w),
         StartContainer(w, "postgres"), Quiet,
         UNCHANGED <<run, owner, env, results, anew, database, sweeping>>
  PROVE  SharedTypeOK' /\ Grows /\ DockerInv' /\ RowsInv' /\ RunInv' /\ MeetInv'
<1>1. /\ docker' \subseteq Resource
      /\ \A r \in docker' : \E o \in docker :
           /\ r.kind = o.kind /\ r.by = o.by
           /\ r = o \/ (r.kind = "postgres" /\ r.by = w /\ r.state = "UP")
      /\ \A r \in docker \union docker' :
           r.kind # "postgres" => r \in docker /\ r \in docker'
  BY StartFacts DEF SandboxInv, Kinds
<1>2. SharedTypeOK'
  BY <1>1, TypeParts DEF SandboxInv, SharedTypeOK
<1>3. \A by : ExistsBy("network", by)' <=> ExistsBy("network", by)
  BY <1>1 DEF ExistsBy
<1>4. Alive' <=> Alive
  BY <1>3 DEF Alive, ExistsBy
<1>5. Grows
  BY <1>4 DEF Grows, Recorded
<1>6. Runners' = Runners
  BY <1>1, ActionFacts DEF Runners
<1>7. DockerInv'
  <2>1. \A r, n \in docker' : r.kind = "network" /\ n.kind = "network" => r.by = n.by
    BY <1>1 DEF SandboxInv, DockerInv
  <2>2. ASSUME NEW r \in Databases'
        PROVE  ExistsBy("network", r.by)'
    <3>1. r.by = w \/ r \in Databases
      BY <1>1, <2>2 DEF Databases
    <3> QED
      BY <1>3, <3>1 DEF SandboxInv, DockerInv
  <2> QED
    BY <1>4, <1>6, <2>1, <2>2 DEF SandboxInv, DockerInv, Recorded
<1>8. RowsInv' /\ RunInv'
  BY <1>4 DEF SandboxInv, RowsInv, RunInv, StagesLeaveResults, DatabaseInOrder, Recorded
<1>9. MeetInv'
  <2>1. Around' => Around
    BY <1>6 DEF Around, Quiet
  <2>2. Upcoming
    BY DEF Upcoming, Starting
  <2> QED
    BY <1>2, <1>4, <1>5, <2>1, <2>2, AroundGrows DEF SandboxInv, MeetInv
<1> QED
  BY <1>2, <1>5, <1>7, <1>8, <1>9

-----------------------------------------------------------------------------
(* provision.                                                              *)

(* A step of provision that goes on, with nothing new to know.             *)
LEMMA ProvisionGoOn ==
  ASSUME SandboxInv, NEW w \in Worker, NEW place,
         pc[w] \in InProvision,
         place \in Building \union {"undo"} =>
           pc[w] \in Building \/ (pc[w] = "lookup" /\ ~Recorded),
         place \in InProvision \ {"provisioned"} \/ (place \in {"provisioned", "returned"} /\ Recorded),
         pc'[w] = place, UNCHANGED <<run, env, results, docker, anew, database, mem>>
  PROVE  PlaceInv(w)' /\ KnowledgeInv(w)'
<1>1. PlaceInv(w) /\ KnowledgeInv(w)
  BY DEF SandboxInv
<1>2. PlaceInv(w)'
  BY <1>1 DEF PlaceInv, InProvision, Building, InExecute, InRelease
<1>3. mem[w].stage = Provisioning
  BY <1>1 DEF PlaceInv
<1>4. KnowledgeInv(w)'
  BY <1>1, <1>3, StagesAre
     DEF KnowledgeInv, SucceededBelow, Recorded, InProvision, Building, Done
<1> QED
  BY <1>2, <1>4

LEMMA LookupStep ==
  ASSUME SandboxInv, NEW w \in Worker, Lookup(w)
  PROVE  StepKeeps
<1>1. pc[w] = "lookup" /\ OnlyWorker
  BY DEF Lookup
<1>2. env.status \in {"ABSENT", "ACTIVE", "CLEANED", "CLEANUP_FAILED"}
  BY DEF SandboxInv, SandboxTypeOK
<1>3. CASE env.status = "ABSENT"
  <2>1. GoTo(w, "network") /\ UNCHANGED mem
    BY <1>3 DEF Lookup
  <2> QED
    BY <1>1, <1>3, <2>1, GoOnStep, ProvisionGoOn, OnlyWorkerIs
       DEF InProvision, Building, Phases, Recorded
<1>4. CASE env.status = "ACTIVE"
  <2>1. GoTo(w, "provisioned") /\ UNCHANGED mem
    BY <1>4 DEF Lookup
  <2> QED
    BY <1>1, <1>4, <2>1, GoOnStep, ProvisionGoOn, OnlyWorkerIs
       DEF InProvision, Building, Phases, Recorded
<1>5. CASE env.status \in {"CLEANED", "CLEANUP_FAILED"}
  <2>1. Raise(w, "fail")
    BY <1>5 DEF Lookup
  <2> QED
    BY <1>1, <2>1, RaiseStep DEF Exits
<1> QED
  BY <1>2, <1>3, <1>4, <1>5

(* A call of provision, where its effect is shown to keep the invariant.   *)
LEMMA ProvisionCallStep ==
  ASSUME SandboxInv, NEW w \in Worker, pc[w] \in Building,
         NEW next \in {"populated", "connect", "boot", "ready"}, NEW possible, NEW Effect,
         ProvisionCall(w, possible, Effect, next),
         \A place \in {next, "undo"} :
           possible /\ Effect /\ pc' = [pc EXCEPT ![w] = place]
             => SharedTypeOK' /\ Grows /\ DockerInv' /\ RowsInv' /\ RunInv' /\ MeetInv'
  PROVE  StepKeeps
<1>1. /\ UNCHANGED <<run, owner, env, results, database, mem, sweeping>>
      /\ PlaceInv(w) /\ KnowledgeInv(w) /\ SandboxTypeOK
  BY DEF ProvisionCall, rows, SandboxInv
<1>2. CASE \E place \in {next, "undo"} : possible /\ Effect /\ GoTo(w, place)
  <2>1. PICK place \in {next, "undo"} : possible /\ Effect /\ GoTo(w, place)
    BY <1>2
  <2>2. pc' = [pc EXCEPT ![w] = place]
    BY <2>1 DEF GoTo
  <2>3. SharedTypeOK' /\ Grows /\ DockerInv' /\ RowsInv' /\ RunInv' /\ MeetInv'
    BY <2>1, <2>2
  <2>4. ASSUME pc'[w] = place, mem'[w] = mem[w]
        PROVE  PlaceInv(w)' /\ KnowledgeInv(w)'
    <3>1. PlaceInv(w)'
      BY <1>1, <2>4 DEF PlaceInv, InProvision, Building, InExecute, InRelease
    <3>2. KnowledgeInv(w)'
      BY <1>1, <2>4 DEF KnowledgeInv, SucceededBelow, Recorded, Building
    <3> QED
      BY <3>1, <3>2
  <2>5. mem[w] \in Memory /\ mem' = [mem EXCEPT ![w] = mem[w]] /\ place \in Phases
    BY <1>1, ActionOfWorker, TypeParts DEF Phases
  <2>6. Recorded' /\ env'.by # w => Recorded /\ env.by = env'.by
    BY <1>1 DEF Recorded
  <2> QED
    BY <2>2, <2>3, <2>4, <2>5, <2>6, StepOfOne
<1>3. CASE UNCHANGED <<docker, anew>> /\ GoTo(w, "undo")
  BY <1>1, <1>3, GoOnStep, ProvisionGoOn, OnlyWorkerIs DEF InProvision, Building, Phases
<1> QED
  BY <1>2, <1>3 DEF ProvisionCall

LEMMA CreateNetworkStep ==
  ASSUME SandboxInv, NEW w \in Worker, CreateNetwork(w)
  PROVE  StepKeeps
<1> DEFINE Effect == CreateNamed(w, "network", "UP") /\ UNCHANGED anew
           new == [kind |-> "network", by |-> w, state |-> "UP"]
<1>1. /\ pc[w] = "network" /\ pc[w] \in Building
      /\ ProvisionCall(w, ~Exists("network"), Effect, "populated")
      /\ UNCHANGED <<run, owner, env, results, database, sweeping>>
  BY DEF CreateNetwork, ProvisionCall, Building, rows
<1>2. /\ new \in Resource /\ new.kind = "network" /\ new.by = w
      /\ Effect => docker' = docker \union {new} /\ anew' = anew
  BY DEF Resource, Kinds, CreateNamed
<1>3. Recorded => env.by # w
  BY <1>1 DEF SandboxInv, KnowledgeInv
<1>4. SandboxTypeOK /\ anew \subseteq Volumes
  BY DEF SandboxInv, SandboxTypeOK
<1> HIDE DEF Effect, new
<1>5. ASSUME NEW place \in {"populated", "undo"}, ~Exists("network"), Effect,
             pc' = [pc EXCEPT ![w] = place]
      PROVE  SharedTypeOK' /\ Grows /\ DockerInv' /\ RowsInv' /\ RunInv' /\ MeetInv'
  <2>1. Quiet
    BY <1>4, <1>5, OneIsQuiet
  <2>2. pc'[w] \notin Starting
    BY <1>4, <1>5, TypeParts DEF Starting
  <2> QED
    BY <1>1, <1>2, <1>3, <1>4, <1>5, <2>1, <2>2, CreateKeeps, ActionFacts
<1> QED
  BY <1>1, <1>5, ProvisionCallStep

LEMMA CreatePostgresStep ==
  ASSUME SandboxInv, NEW w \in Worker, CreatePostgres(w)
  PROVE  StepKeeps
<1> DEFINE Effect == CreateContainer(w, "postgres", "data")
           new == [kind |-> "postgres", by |-> w, state |-> "CREATED"]
<1>1. /\ pc[w] = "postgres" /\ pc[w] \in Building
      /\ ProvisionCall(w, ~Exists("postgres"), Effect, "connect")
      /\ UNCHANGED <<run, owner, env, results, database, sweeping>>
  BY DEF CreatePostgres, ProvisionCall, Building, rows
<1>2. SandboxTypeOK /\ anew \subseteq Volumes
  BY DEF SandboxInv, SandboxTypeOK
<1>3. /\ new \in Resource /\ new.kind = "postgres" /\ new.state = "CREATED"
      /\ Effect => docker' = docker \union {new} /\ anew' \subseteq Volumes
  BY <1>2 DEF Resource, Kinds, CreateContainer, CreateNamed, Volumes
<1> HIDE DEF Effect, new
<1>4. ASSUME NEW place \in {"connect", "undo"}, Effect, pc' = [pc EXCEPT ![w] = place]
      PROVE  SharedTypeOK' /\ Grows /\ DockerInv' /\ RowsInv' /\ RunInv' /\ MeetInv'
  <2>1. Quiet
    BY <1>1, <1>2, <1>4, TypeParts DEF Quiet, Starting
  <2> QED
    BY <1>1, <1>3, <1>4, <2>1, CreateKeeps, ActionFacts
<1> QED
  BY <1>1, <1>4, ProvisionCallStep

LEMMA ConnectPostgresStep ==
  ASSUME SandboxInv, NEW w \in Worker, ConnectPostgres(w)
  PROVE  StepKeeps
<1> DEFINE possible == ExistsBy("postgres", w) /\ ExistsBy("network", w)
           Effect == UNCHANGED <<docker, anew>>
<1>1. /\ pc[w] = "connect" /\ pc[w] \in Building
      /\ ProvisionCall(w, possible, Effect, "boot")
      /\ UNCHANGED <<run, owner, env, results, database, sweeping>>
  BY DEF ConnectPostgres, ProvisionCall, Building, rows
<1>2. SandboxTypeOK
  BY DEF SandboxInv
<1> HIDE DEF possible
<1>3. ASSUME NEW place \in {"boot", "undo"}, Effect, pc' = [pc EXCEPT ![w] = place]
      PROVE  SharedTypeOK' /\ Grows /\ DockerInv' /\ RowsInv' /\ RunInv' /\ MeetInv'
  <2>1. Quiet
    BY <1>1, <1>2, <1>3, TypeParts DEF Quiet, Starting
  <2>2. OnlyWorker
    BY <1>1, <1>3, OnlyWorkerIs
  <2> QED
    BY <2>1, <2>2, UnchangedKeeps, QuietMeets, OnlyWorkerIs
<1> HIDE DEF Effect
<1> QED
  BY <1>1, <1>3, ProvisionCallStep

LEMMA StartPostgresStep ==
  ASSUME SandboxInv, NEW w \in Worker, StartPostgres(w)
  PROVE  StepKeeps
<1> DEFINE possible == ExistsBy("postgres", w) /\ ExistsBy("network", w)
           Effect == StartContainer(w, "postgres") /\ UNCHANGED anew
<1>1. /\ pc[w] = "boot" /\ pc[w] \in Building
      /\ ProvisionCall(w, possible, Effect, "ready")
      /\ UNCHANGED <<run, owner, env, results, database, sweeping>>
  BY DEF StartPostgres, ProvisionCall, Building, rows
<1>2. SandboxTypeOK
  BY DEF SandboxInv
<1>3. ASSUME NEW place \in {"ready", "undo"}, possible, Effect, pc' = [pc EXCEPT ![w] = place]
      PROVE  SharedTypeOK' /\ Grows /\ DockerInv' /\ RowsInv' /\ RunInv' /\ MeetInv'
  <2>1. Quiet
    BY <1>2, <1>3, OneIsQuiet
  <2> QED
    BY <1>1, <1>3, <2>1, StartPostgresKeeps
<1> HIDE DEF possible, Effect
<1> QED
  BY <1>1, <1>3, ProvisionCallStep

(* While a worker holds its claim on provisioning nobody has found the     *)
(* environment's network.                                                  *)
LEMMA PopulatedStep ==
  ASSUME SandboxInv, NEW w \in Worker, Populated(w)
  PROVE  StepKeeps
<1>1. pc[w] = "populated" /\ Checkpoint(w, "postgres") /\ "postgres" \in Phases
  BY DEF Populated, Phases
<1>2. ASSUME pc'[w] = "postgres", UNCHANGED <<run, env, results, docker, anew, database, mem>>
      PROVE  PlaceInv(w)' /\ KnowledgeInv(w)'
  BY <1>1, <1>2, ProvisionGoOn DEF InProvision, Building
<1>3. ASSUME GoTo(w, "postgres"), Holds(w), UNCHANGED <<run, env, docker>>
      PROVE  MeetInv'
  <2>1. run.stage = Provisioning /\ ~(Provisioning > Provisioning)
    BY <1>1, <1>3 DEF Holds, SandboxInv, PlaceInv, InProvision, Building, Provisioning
  <2>2. ~Around
    BY <2>1 DEF SandboxInv, MeetInv
  <2>3. \A v \in Worker : pc'[v] = "create" => pc[v] = "create"
    BY <1>3, TypeParts DEF GoTo, SandboxInv
  <2> QED
    BY <1>3, <2>2, <2>3 DEF MeetInv, Around, Runners
<1> QED
  BY <1>1, <1>2, <1>3, CheckpointStep

LEMMA WaitReadyStep ==
  ASSUME SandboxInv, NEW w \in Worker, WaitReady(w)
  PROVE  StepKeeps
<1> DEFINE next == IF ExistsBy("postgres", w) THEN "record" ELSE "undo"
<1>1. pc[w] = "ready" /\ next \in {"record", "undo"}
  BY DEF WaitReady
<1>2. CASE Checkpoint(w, next)
  <2> HIDE DEF next
  <2>1. ASSUME pc'[w] = next, UNCHANGED <<run, env, results, docker, anew, database, mem>>
        PROVE  PlaceInv(w)' /\ KnowledgeInv(w)'
    BY <1>1, <2>1, ProvisionGoOn DEF InProvision, Building
  <2>2. next \in Phases
    BY <1>1 DEF Phases
  <2> QED
    BY <1>1, <1>2, <2>1, <2>2, CheckpointStep
<1>3. CASE GoTo(w, "undo") /\ UNCHANGED mem /\ OnlyWorker
  BY <1>1, <1>3, GoOnStep, ProvisionGoOn, OnlyWorkerIs DEF InProvision, Building, Phases
<1> QED
  BY <1>2, <1>3 DEF WaitReady

(* Before the row there are no results and no runners.                     *)
LEMMA RecordEnvironmentStep ==
  ASSUME SandboxInv, NEW w \in Worker, RecordEnvironment(w)
  PROVE  StepKeeps
<1>1. /\ pc[w] = "record" /\ UNCHANGED <<run, owner, results, docker, anew, database, mem, sweeping>>
      /\ PlaceInv(w) /\ KnowledgeInv(w) /\ SandboxTypeOK
  BY DEF RecordEnvironment, world, SandboxInv
<1>2. CASE Recorded
  <2>1. GoTo(w, "undo") /\ UNCHANGED env
    BY <1>2 DEF RecordEnvironment, Recorded
  <2> QED
    BY <1>1, <2>1, GoOnStep, ProvisionGoOn, OnlyWorkerIs DEF InProvision, Building, Phases
<1>3. CASE ~Recorded
  <2>1. env' = [status |-> "ACTIVE", by |-> w] /\ pc' = [pc EXCEPT ![w] = "provisioned"]
    BY <1>3 DEF RecordEnvironment, Recorded, GoTo
  <2>2. Recorded' /\ env'.by = w
    BY <2>1 DEF Recorded
  <2>3. SharedTypeOK'
    BY <1>1, <2>1 DEF SandboxTypeOK, SharedTypeOK
  <2>4. Grows
    BY <1>1, <1>3 DEF Grows
  <2>5. DockerInv'
    BY <1>1, <1>3 DEF SandboxInv, DockerInv, Databases, Runners, ExistsBy
  <2>6. RowsInv'
    BY <1>1, <1>3, <2>2 DEF SandboxInv, RowsInv
  <2>7. RunInv'
    BY <1>1, <1>3, <2>1 DEF SandboxInv, RunInv, StagesLeaveResults, DatabaseInOrder, Recorded
  <2>8. ASSUME pc'[w] = "provisioned", mem'[w] = mem[w]
        PROVE  PlaceInv(w)' /\ KnowledgeInv(w)'
    <3>1. PlaceInv(w)'
      BY <1>1, <2>8 DEF PlaceInv, InProvision, Building, InExecute, InRelease
    <3>2. KnowledgeInv(w)'
      BY <1>1, <2>2, <2>8 DEF KnowledgeInv, SucceededBelow, Building
    <3> QED
      BY <3>1, <3>2
  <2>9. mem[w] \in Memory /\ mem' = [mem EXCEPT ![w] = mem[w]] /\ "provisioned" \in Phases
    BY <1>1, ActionOfWorker, TypeParts DEF Phases
  <2> QED
    BY <1>1, <2>1, <2>2, <2>3, <2>4, <2>5, <2>6, <2>7, <2>8, <2>9, StepOfOne
<1> QED
  BY <1>2, <1>3

LEMMA UndoProvisionStep ==
  ASSUME SandboxInv, NEW w \in Worker, UndoProvision(w)
  PROVE  StepKeeps
<1>1. /\ pc[w] = "undo" /\ UNCHANGED <<run, owner, env, results, sweeping>>
      /\ PlaceInv(w) /\ KnowledgeInv(w) /\ SandboxTypeOK
  BY DEF UndoProvision, rows, SandboxInv
<1>2. PICK cleaned \in BOOLEAN : Removes(cleaned)
  BY CleanupRemoves DEF UndoProvision
<1> DEFINE held == [mem[w] EXCEPT !.exit = "fail"]
<1>3. pc' = [pc EXCEPT ![w] = "release"] /\ mem' = [mem EXCEPT ![w] = held]
  BY DEF UndoProvision, Raise, GoTo
<1>4. held \in Memory /\ held.stage = mem[w].stage /\ held.exit = "fail"
  BY <1>1, ActionOfWorker DEF Memory, Exits
<1> HIDE DEF held
<1>5. SharedTypeOK' /\ Grows /\ DockerInv' /\ RowsInv' /\ RunInv' /\ MeetInv'
  BY <1>1, <1>2, <1>3, CleanupKeeps, OneIsQuiet DEF SandboxTypeOK
<1>6. ASSUME pc'[w] = "release", mem'[w] = held
      PROVE  PlaceInv(w)' /\ KnowledgeInv(w)'
  <2>1. PlaceInv(w)'
    BY <1>1, <1>4, <1>6 DEF PlaceInv, InProvision, Building, InExecute, InRelease
  <2>2. KnowledgeInv(w)'
    BY <1>1, <1>4, <1>6 DEF KnowledgeInv, SucceededBelow, Recorded, Building
  <2> QED
    BY <2>1, <2>2
<1>7. Recorded' /\ env'.by # w => Recorded /\ env.by = env'.by
  BY <1>1 DEF Recorded
<1>8. "release" \in Phases
  BY DEF Phases
<1> QED
  BY <1>3, <1>4, <1>5, <1>6, <1>7, <1>8, StepOfOne

LEMMA ProvisionedStep ==
  ASSUME SandboxInv, NEW w \in Worker, Provisioned(w)
  PROVE  StepKeeps
<1>1. pc[w] = "provisioned" /\ Checkpoint(w, "returned") /\ "returned" \in Phases
  BY DEF Provisioned, Phases
<1>2. Recorded
  BY <1>1 DEF SandboxInv, KnowledgeInv
<1>3. ASSUME pc'[w] = "returned", UNCHANGED <<run, env, results, docker, anew, database, mem>>
      PROVE  PlaceInv(w)' /\ KnowledgeInv(w)'
  BY <1>1, <1>2, <1>3, ProvisionGoOn DEF InProvision, Building
<1> QED
  BY <1>1, <1>3, CheckpointStep

LEMMA ProvisionStep ==
  ASSUME SandboxInv, NEW w \in Worker, Provision(w)
  PROVE  StepKeeps
BY LookupStep, CreateNetworkStep, PopulatedStep, CreatePostgresStep, ConnectPostgresStep,
   StartPostgresStep, WaitReadyStep, RecordEnvironmentStep, UndoProvisionStep,
   ProvisionedStep DEF Provision

-----------------------------------------------------------------------------
(* execute.                                                                *)

LEMMA RequireActiveStep ==
  ASSUME SandboxInv, NEW w \in Worker, RequireActive(w)
  PROVE  StepKeeps
<1>1. pc[w] = "require" /\ OnlyWorker /\ PlaceInv(w) /\ KnowledgeInv(w)
  BY DEF RequireActive, SandboxInv
<1>2. CASE env.status = "ACTIVE"
  <2>1. GoTo(w, "recall") /\ UNCHANGED mem
    BY <1>2 DEF RequireActive
  <2>2. ASSUME pc'[w] = "recall"
        PROVE  PlaceInv(w)' /\ KnowledgeInv(w)'
    <3>1. PlaceInv(w)'
      BY <1>1, <2>1, <2>2, OnlyWorkerIs
         DEF PlaceInv, InProvision, Building, InExecute, InRelease
    <3>2. KnowledgeInv(w)'
      BY <1>1, <2>1, <2>2, OnlyWorkerIs DEF KnowledgeInv, SucceededBelow, Recorded, Building
    <3> QED
      BY <3>1, <3>2
  <2> QED
    BY <1>1, <2>1, <2>2, GoOnStep DEF Phases
<1>3. CASE env.status # "ACTIVE"
  BY <1>1, <1>3, RaiseStep DEF RequireActive, Exits
<1> QED
  BY <1>2, <1>3

LEMMA RecallResultStep ==
  ASSUME SandboxInv, NEW w \in Worker, RecallResult(w)
  PROVE  StepKeeps
<1>1. pc[w] = "recall" /\ OnlyWorker /\ PlaceInv(w) /\ KnowledgeInv(w)
  BY DEF RecallResult, OnlyWorker, SandboxInv
<1>2. mem[w].stage \notin {Provisioning, Collecting}
  BY <1>1 DEF PlaceInv, InExecute
<1>3. Action(w) \in Actions
  BY <1>2, ActionOfWorker DEF SandboxInv
<1>4. results[Action(w)] \in {"NONE", "SUCCEEDED", "FAILED"}
  BY <1>3 DEF SandboxInv, SandboxTypeOK
<1>5. CASE results[Action(w)] = "NONE"
  <2>1. GoTo(w, "launch") /\ UNCHANGED mem
    BY <1>5 DEF RecallResult
  <2>2. ASSUME pc'[w] = "launch"
        PROVE  PlaceInv(w)' /\ KnowledgeInv(w)'
    <3>1. PlaceInv(w)'
      BY <1>1, <2>1, <2>2, OnlyWorkerIs
         DEF PlaceInv, InProvision, Building, InExecute, InRelease
    <3>2. KnowledgeInv(w)'
      BY <1>1, <2>1, <2>2, OnlyWorkerIs DEF KnowledgeInv, SucceededBelow, Recorded, Building
    <3> QED
      BY <3>1, <3>2
  <2> QED
    BY <1>1, <2>1, <2>2, GoOnStep DEF Phases
<1>6. CASE results[Action(w)] = "SUCCEEDED"
  <2>1. GoTo(w, "returned") /\ UNCHANGED mem
    BY <1>6 DEF RecallResult
  <2>2. ASSUME pc'[w] = "returned"
        PROVE  PlaceInv(w)' /\ KnowledgeInv(w)'
    <3>1. PlaceInv(w)'
      BY <1>1, <2>1, <2>2, OnlyWorkerIs
         DEF PlaceInv, InProvision, Building, InExecute, InRelease
    <3>2. KnowledgeInv(w)'
      BY <1>1, <1>2, <1>6, <2>1, <2>2, OnlyWorkerIs
         DEF KnowledgeInv, SucceededBelow, Recorded, Building, Done, Action
    <3> QED
      BY <3>1, <3>2
  <2> QED
    BY <1>1, <2>1, <2>2, GoOnStep DEF Phases
<1>7. CASE results[Action(w)] = "FAILED"
  BY <1>1, <1>7, RaiseStep DEF RecallResult, Exits
<1> QED
  BY <1>4, <1>5, <1>6, <1>7

(* A step that keeps networks and servers, takes no success back and lets  *)
(* no runner succeed without saying so in the database.                    *)
LEMMA DockerKeeps ==
  ASSUME SandboxInv, docker' \subseteq Resource, Quiet,
         \A r \in docker' : \E o \in docker :
           /\ r.kind = o.kind /\ r.by = o.by
           /\ r.state = "SUCCEEDED" => o.state = "SUCCEEDED" \/ database'[r.kind] > 0,
         \A r \in docker \union docker' :
           r.kind \notin Actions => r \in docker /\ r \in docker',
         \A a \in Actions : database[a] > 0 => database'[a] > 0,
         database' \in [Actions -> 0 .. 2], DatabaseInOrder',
         UNCHANGED <<run, env, results, owner, anew, sweeping>>
  PROVE  SharedTypeOK' /\ Grows /\ DockerInv' /\ RowsInv' /\ RunInv' /\ MeetInv'
<1>1. SharedTypeOK'
  BY TypeParts DEF SandboxInv, SharedTypeOK
<1>2. \A by : ExistsBy("network", by)' <=> ExistsBy("network", by)
  BY ActionFacts DEF ExistsBy
<1>3. Alive' <=> Alive
  BY <1>2 DEF Alive, ExistsBy
<1>4. Grows
  BY <1>3 DEF Grows, Recorded
<1>5. Databases' = Databases
  BY ActionFacts DEF Databases
<1>6. DockerInv'
  <2>1. \A r, n \in docker' : r.kind = "network" /\ n.kind = "network" => r.by = n.by
    BY ActionFacts DEF SandboxInv, DockerInv
  <2>2. \A r \in Databases' : ExistsBy("network", r.by)'
    BY <1>2, <1>5 DEF SandboxInv, DockerInv
  <2>3. ASSUME NEW r \in Runners'
        PROVE  /\ Recorded'
               /\ \A i, j \in 1 .. Len(RunnerActions) :
                    r.kind = RunnerActions[j] /\ i < j =>
                      results'[RunnerActions[i]] = "SUCCEEDED"
               /\ r.state = "SUCCEEDED" /\ Alive' => database'[r.kind] > 0
    <3>1. r \in docker' /\ r.kind \in Actions
      BY <2>3 DEF Runners
    <3>2. PICK o \in docker :
            /\ r.kind = o.kind /\ r.by = o.by
            /\ r.state = "SUCCEEDED" => o.state = "SUCCEEDED" \/ database'[r.kind] > 0
      BY <3>1
    <3>3. /\ Recorded
          /\ \A i, j \in 1 .. Len(RunnerActions) :
               o.kind = RunnerActions[j] /\ i < j => results[RunnerActions[i]] = "SUCCEEDED"
          /\ o.state = "SUCCEEDED" /\ Alive => database[o.kind] > 0
      BY <3>1, <3>2 DEF SandboxInv, DockerInv, Runners
    <3> QED
      BY <1>3, <3>1, <3>2, <3>3 DEF Recorded
  <2> QED
    BY <2>1, <2>2, <2>3 DEF DockerInv
<1>7. RowsInv'
  BY <1>3 DEF SandboxInv, RowsInv, Recorded
<1>8. RunInv'
  BY DEF SandboxInv, RunInv, StagesLeaveResults
<1>9. MeetInv'
  <2>1. Around' => Around
    BY DEF Around, Runners, Quiet
  <2>2. Upcoming' => Upcoming
    BY <1>2 DEF Upcoming, Quiet
  <2> QED
    BY <1>1, <1>3, <1>4, <1>5, <2>1, <2>2, AroundGrows DEF SandboxInv, MeetInv
<1> QED
  BY <1>1, <1>4, <1>6, <1>7, <1>8, <1>9

(* The stage of a runner, and the actions before it.                       *)
LEMMA StageOfRunner ==
  ASSUME SandboxInv, NEW w \in Worker, pc[w] \in InExecute
  PROVE  /\ mem[w].stage \notin {Provisioning, Collecting}
         /\ Action(w) \in Actions /\ Action(w) \notin {"network", "postgres"}
         /\ Recorded
         /\ \A i, j \in 1 .. Len(RunnerActions) :
              Action(w) = RunnerActions[j] /\ i < j => results[RunnerActions[i]] = "SUCCEEDED"
<1>1. PlaceInv(w) /\ KnowledgeInv(w)
  BY DEF SandboxInv
<1>2. mem[w].stage \notin {Provisioning, Collecting}
  BY <1>1 DEF PlaceInv
<1>3. Action(w) \in Actions /\ mem[w].stage \in Stage
  BY <1>2, ActionOfWorker DEF SandboxInv
<1>4. Action(w) \notin {"network", "postgres"}
  BY <1>3, ActionFacts
<1>5. Recorded
  BY <1>1, <1>2 DEF KnowledgeInv
<1>6. ASSUME NEW i \in 1 .. Len(RunnerActions), NEW j \in 1 .. Len(RunnerActions),
             Action(w) = RunnerActions[j], i < j
      PROVE  results[RunnerActions[i]] = "SUCCEEDED"
  <2>1. /\ mem[w].stage \in Nat /\ mem[w].stage - 1 \in 1 .. Len(RunnerActions)
        /\ Action(w) = RunnerActions[mem[w].stage - 1]
    BY <1>2, <1>3, StageFacts DEF Action
  <2>2. j = mem[w].stage - 1
    BY <1>6, <2>1, ActionFacts
  <2>3. mem[w].stage > i + 1
    BY <1>6, <2>1, <2>2, ActionFacts
  <2> QED
    BY <1>1, <2>3 DEF KnowledgeInv, SucceededBelow
<1> QED
  BY <1>2, <1>3, <1>4, <1>5, <1>6

(* Who finds the network of the environment is beyond provisioning.        *)
LEMMA FindNetworkStep ==
  ASSUME SandboxInv, NEW w \in Worker, FindNetwork(w)
  PROVE  StepKeeps
<1>1. /\ pc[w] = "launch" /\ pc[w] \in InExecute /\ OnlyWorker
      /\ PlaceInv(w) /\ KnowledgeInv(w)
  BY DEF FindNetwork, InExecute, SandboxInv
<1>2. CASE Raise(w, "fail")
  BY <1>1, <1>2, RaiseStep DEF Exits
<1>3. CASE Alive /\ GoTo(w, "create") /\ UNCHANGED mem
  <2>1. ASSUME pc'[w] = "create"
        PROVE  PlaceInv(w)' /\ KnowledgeInv(w)'
    <3>1. PlaceInv(w)'
      BY <1>1, <1>3, <2>1, OnlyWorkerIs
         DEF PlaceInv, InProvision, Building, InExecute, InRelease
    <3>2. KnowledgeInv(w)'
      BY <1>1, <1>3, <2>1, OnlyWorkerIs DEF KnowledgeInv, SucceededBelow, Recorded, Building
    <3> QED
      BY <3>1, <3>2
  <2>2. Recorded /\ run.stage > Provisioning
    <3>1. Recorded /\ mem[w].stage # Provisioning /\ mem[w].stage \in Stage
      BY <1>1, StageOfRunner, ActionOfWorker DEF SandboxInv
    <3>2. run.stage \in Stage /\ mem[w].stage <= run.stage
      BY <1>1, RunType DEF PlaceInv
    <3> QED
      BY <3>1, <3>2, ActionFacts DEF Stage, Provisioning, Collecting
  <2>3. MeetInv'
    BY <1>1, <1>3, <2>2, OnlyWorkerIs DEF MeetInv, Recorded, Alive, ExistsBy
  <2> QED
    BY <1>1, <1>3, <2>1, <2>3, GoOnStep DEF Phases
<1> QED
  BY <1>2, <1>3 DEF FindNetwork, Alive

LEMMA CreateRunnerStep ==
  ASSUME SandboxInv, NEW w \in Worker, CreateRunner(w)
  PROVE  StepKeeps
<1> DEFINE new == [kind |-> Action(w), by |-> w, state |-> "CREATED"]
<1>1. /\ pc[w] = "create" /\ pc[w] \in InExecute
      /\ PlaceInv(w) /\ KnowledgeInv(w) /\ SandboxTypeOK
      /\ UNCHANGED <<run, owner, env, results, database, sweeping>>
  BY DEF CreateRunner, InExecute, rows, SandboxInv
<1>2. CASE Raise(w, "fail") /\ UNCHANGED <<docker, anew>>
  BY <1>1, <1>2, OnlyWorkerIs, RaiseStep DEF Exits
<1>3. /\ Action(w) \in Actions /\ Recorded
      /\ \A i, j \in 1 .. Len(RunnerActions) :
           Action(w) = RunnerActions[j] /\ i < j => results[RunnerActions[i]] = "SUCCEEDED"
  BY <1>1, StageOfRunner
<1>4. new \in Resource /\ new.kind = Action(w) /\ new.by = w /\ new.state = "CREATED"
  BY <1>3 DEF Resource, Kinds
<1>5. ASSUME NEW place \in {"start", "release"}, NEW held \in Memory,
             CreateContainer(w, Action(w), "snapshot"),
             pc' = [pc EXCEPT ![w] = place], mem' = [mem EXCEPT ![w] = held],
             held.stage = mem[w].stage, held.result = mem[w].result,
             \/ place = "start" /\ held.exit = mem[w].exit
             \/ place = "release" /\ held.exit = "fail"
      PROVE  StepKeeps
  <2>1. docker' = docker \union {new} /\ anew' \subseteq Volumes
    BY <1>1, <1>5 DEF CreateContainer, CreateNamed, Volumes, SandboxTypeOK
  <2> HIDE DEF new
  <2>2. Quiet
    BY <1>1, <1>5, OneIsQuiet
  <2>3. Around
    BY <1>1 DEF Around
  <2>4. SharedTypeOK' /\ Grows /\ DockerInv' /\ RowsInv' /\ RunInv' /\ MeetInv'
    BY <1>1, <1>3, <1>4, <2>1, <2>2, <2>3, ActionFacts, CreateKeeps
  <2>5. ASSUME pc'[w] = place, mem'[w] = held
        PROVE  PlaceInv(w)' /\ KnowledgeInv(w)'
    <3>1. PlaceInv(w)'
      BY <1>1, <1>5, <2>5 DEF PlaceInv, InProvision, Building, InExecute, InRelease
    <3>2. KnowledgeInv(w)'
      BY <1>1, <1>5, <2>5 DEF KnowledgeInv, SucceededBelow, Recorded, Building
    <3> QED
      BY <3>1, <3>2
  <2>6. (Recorded' /\ env'.by # w => Recorded /\ env.by = env'.by) /\ place \in Phases
    BY <1>1 DEF Recorded, Phases
  <2> QED
    BY <1>5, <2>4, <2>5, <2>6, StepOfOne
<1> HIDE DEF new
<1>6. CASE CreateContainer(w, Action(w), "snapshot") /\ GoTo(w, "start") /\ UNCHANGED mem
  <2>1. mem[w] \in Memory /\ mem' = [mem EXCEPT ![w] = mem[w]]
    BY <1>1, <1>6, ActionOfWorker, TypeParts
  <2> QED
    BY <1>5, <1>6, <2>1 DEF GoTo
<1>7. CASE CreateContainer(w, Action(w), "snapshot") /\ Raise(w, "fail")
  <2> DEFINE held == [mem[w] EXCEPT !.exit = "fail"]
  <2>1. /\ held \in Memory /\ held.stage = mem[w].stage /\ held.exit = "fail"
        /\ held.result = mem[w].result
    BY <1>1, ActionOfWorker DEF Memory, Exits
  <2>2. pc' = [pc EXCEPT ![w] = "release"] /\ mem' = [mem EXCEPT ![w] = held]
    BY <1>7 DEF Raise, GoTo
  <2> HIDE DEF held
  <2> QED
    BY <1>5, <1>7, <2>1, <2>2
<1> QED
  BY <1>2, <1>6, <1>7 DEF CreateRunner

(* Leaving the wait: the container is to be removed.                       *)
LEMMA LeaveIs ==
  ASSUME SandboxTypeOK, NEW w \in Worker, NEW exit \in Exits,
         NEW result \in {"NONE", "SUCCEEDED", "FAILED"}, Leave(w, exit, result)
  PROVE  \E held \in Memory :
           /\ pc' = [pc EXCEPT ![w] = "remove"] /\ mem' = [mem EXCEPT ![w] = held]
           /\ held.stage = mem[w].stage /\ held.exit = exit
<1> DEFINE held == [mem[w] EXCEPT !.exit = exit, !.result = result]
<1>1. mem[w] \in Memory /\ mem \in [Worker -> Memory]
  BY ActionOfWorker, TypeParts
<1>2. held \in Memory /\ held.stage = mem[w].stage /\ held.exit = exit
  BY <1>1 DEF Memory
<1>3. mem' = [mem EXCEPT ![w] = held]
  BY <1>1 DEF Leave
<1> QED
  BY <1>2, <1>3 DEF Leave, GoTo

LEMMA LeaveInv ==
  ASSUME SandboxInv, NEW w \in Worker, pc[w] \in InExecute, Grows,
         UNCHANGED <<run, env>>, pc'[w] = "remove", mem'[w].stage = mem[w].stage,
         mem'[w].exit = "cancel" => run.cancel,
         mem'[w].exit = "return" => results'[Action(w)] = "SUCCEEDED"
  PROVE  PlaceInv(w)' /\ KnowledgeInv(w)'
<1>1. PlaceInv(w) /\ KnowledgeInv(w)
  BY DEF SandboxInv
<1>2. PlaceInv(w)'
  BY <1>1 DEF PlaceInv, InProvision, Building, InExecute, InRelease
<1>3. SucceededBelow(mem[w].stage)'
  BY <1>1, ActionFacts DEF KnowledgeInv, SucceededBelow, Grows
<1>4. KnowledgeInv(w)'
  BY <1>1, <1>3 DEF KnowledgeInv, SucceededBelow, Recorded, Building, Action
<1> QED
  BY <1>2, <1>4

(* Leaving it with nothing else done.                                      *)
LEMMA LeaveStep ==
  ASSUME SandboxInv, NEW w \in Worker, pc[w] \in InExecute, NEW exit \in Exits,
         Leave(w, exit, "NONE"), OnlyWorker,
         exit = "cancel" => run.cancel, exit # "return"
  PROVE  StepKeeps
<1>1. PICK held \in Memory :
        /\ pc' = [pc EXCEPT ![w] = "remove"] /\ mem' = [mem EXCEPT ![w] = held]
        /\ held.stage = mem[w].stage /\ held.exit = exit
  BY LeaveIs DEF SandboxInv
<1>2. Grows
  BY OnlyWorkerIs DEF Grows, Recorded, Alive, ExistsBy
<1>3. ASSUME pc'[w] = "remove", mem'[w] = held
      PROVE  PlaceInv(w)' /\ KnowledgeInv(w)'
  BY <1>1, <1>2, <1>3, LeaveInv, OnlyWorkerIs
<1>4. owner' \in [Keys -> Worker \union {Nobody}] /\ "remove" \in Phases
  BY OnlyWorkerIs, TypeParts DEF SandboxInv, SharedTypeOK, Phases
<1> QED
  BY <1>1, <1>3, <1>4, OnlyWorkerIs, StepInMemory

(* A runner is started where it was created, whatever has the name of its  *)
(* network by now.                                                         *)
LEMMA StartRunnerStep ==
  ASSUME SandboxInv, NEW w \in Worker, StartRunner(w)
  PROVE  StepKeeps
<1>1. /\ pc[w] = "start" /\ pc[w] \in InExecute
      /\ PlaceInv(w) /\ KnowledgeInv(w) /\ SandboxTypeOK
      /\ UNCHANGED <<run, owner, env, results, anew, database, sweeping>>
  BY DEF StartRunner, InExecute, rows, SandboxInv
<1>2. CASE UNCHANGED docker /\ Leave(w, "fail", "NONE")
  BY <1>1, <1>2, OnlyWorkerIs, LeaveStep DEF Exits
<1>3. ASSUME NEW place \in {"waiting", "remove"}, NEW held \in Memory,
             StartContainer(w, Action(w)),
             pc' = [pc EXCEPT ![w] = place], mem' = [mem EXCEPT ![w] = held],
             held.stage = mem[w].stage,
             \/ place = "waiting" /\ held = mem[w]
             \/ place = "remove" /\ held.exit = "fail"
      PROVE  StepKeeps
  <2>1. Action(w) \in Actions /\ Action(w) \in Kinds
    BY <1>1, StageOfRunner DEF Kinds
  <2>2. /\ docker' \subseteq Resource
        /\ \A r \in docker' : \E o \in docker :
             /\ r.kind = o.kind /\ r.by = o.by
             /\ r = o \/ (r.kind = Action(w) /\ r.by = w /\ r.state = "UP")
        /\ \A r \in docker \union docker' :
             r.kind # Action(w) => r \in docker /\ r \in docker'
    BY <1>1, <1>3, <2>1, StartFacts
  <2>3. Quiet
    BY <1>1, <1>3, OneIsQuiet
  <2>4. /\ database' \in [Actions -> 0 .. 2] /\ DatabaseInOrder'
        /\ \A a \in Actions : database[a] > 0 => database'[a] > 0
    BY <1>1 DEF SandboxInv, SandboxTypeOK, RunInv, DatabaseInOrder
  <2>5. ASSUME NEW r \in docker'
        PROVE  \E o \in docker :
                 /\ r.kind = o.kind /\ r.by = o.by
                 /\ r.state = "SUCCEEDED" => o.state = "SUCCEEDED" \/ database'[r.kind] > 0
    BY <2>2
  <2>6. SharedTypeOK' /\ Grows /\ DockerInv' /\ RowsInv' /\ RunInv' /\ MeetInv'
    BY <1>1, <2>1, <2>2, <2>3, <2>4, <2>5, DockerKeeps
  <2>7. ASSUME pc'[w] = place, mem'[w] = held
        PROVE  PlaceInv(w)' /\ KnowledgeInv(w)'
    <3>1. CASE place = "waiting"
      <4>1. PlaceInv(w)'
        BY <1>1, <1>3, <2>7, <3>1 DEF PlaceInv, InProvision, Building, InExecute, InRelease
      <4>2. KnowledgeInv(w)'
        BY <1>1, <1>3, <2>7, <3>1 DEF KnowledgeInv, SucceededBelow, Recorded, Building
      <4> QED
        BY <4>1, <4>2
    <3>2. CASE place = "remove"
      BY <1>1, <1>3, <2>6, <2>7, <3>2, LeaveInv
    <3> QED
      BY <3>1, <3>2
  <2>8. (Recorded' /\ env'.by # w => Recorded /\ env.by = env'.by) /\ place \in Phases
    BY <1>1 DEF Recorded, Phases
  <2> QED
    BY <1>3, <2>6, <2>7, <2>8, StepOfOne
<1>4. CASE StartContainer(w, Action(w)) /\ GoTo(w, "waiting") /\ UNCHANGED mem
  <2>1. mem[w] \in Memory /\ mem' = [mem EXCEPT ![w] = mem[w]]
    BY <1>1, <1>4, ActionOfWorker, TypeParts
  <2> QED
    BY <1>3, <1>4, <2>1 DEF GoTo
<1>5. CASE StartContainer(w, Action(w)) /\ Leave(w, "fail", "NONE")
  <2>1. PICK held \in Memory :
          /\ pc' = [pc EXCEPT ![w] = "remove"] /\ mem' = [mem EXCEPT ![w] = held]
          /\ held.stage = mem[w].stage /\ held.exit = "fail"
    BY <1>1, <1>5, LeaveIs DEF Exits
  <2> QED
    BY <1>3, <1>5, <2>1
<1> QED
  BY <1>2, <1>4, <1>5 DEF StartRunner

(* A runner that says it succeeded left its success in the database.       *)
LEMMA RunnerReturnsStep ==
  ASSUME SandboxInv, NEW w \in Worker, RunnerReturns(w)
  PROVE  StepKeeps
<1>1. /\ pc[w] = "waiting" /\ pc[w] \in InExecute /\ OnlyWorker
      /\ PlaceInv(w) /\ KnowledgeInv(w) /\ SandboxTypeOK
  BY DEF RunnerReturns, InExecute, SandboxInv
<1>2. CASE Leave(w, "fail", "NONE")
  BY <1>1, <1>2, LeaveStep DEF Exits
<1>3. ASSUME NEW r \in docker, r.kind = Action(w), r.state \in {"SUCCEEDED", "FAILED"},
             GoTo(w, "verify"), mem' = [mem EXCEPT ![w].result = r.state]
      PROVE  StepKeeps
  <2> DEFINE held == [mem[w] EXCEPT !.result = r.state]
  <2>1. r.state \in {"SUCCEEDED", "FAILED"}
    BY <1>3
  <2>2. /\ held \in Memory /\ held.stage = mem[w].stage /\ held.exit = mem[w].exit
        /\ held.result = r.state
    BY <1>1, <2>1, ActionOfWorker DEF Memory
  <2>3. mem' = [mem EXCEPT ![w] = held] /\ pc' = [pc EXCEPT ![w] = "verify"]
    BY <1>3 DEF GoTo
  <2> HIDE DEF held
  <2>4. r.state = "SUCCEEDED" /\ Alive => database[Action(w)] > 0
    BY <1>1, <1>3, StageOfRunner DEF SandboxInv, DockerInv, Runners
  <2>5. ASSUME pc'[w] = "verify", mem'[w] = held
        PROVE  PlaceInv(w)' /\ KnowledgeInv(w)'
    <3>1. PlaceInv(w)'
      BY <1>1, <2>1, <2>2, <2>5, OnlyWorkerIs
         DEF PlaceInv, InProvision, Building, InExecute, InRelease
    <3>2. KnowledgeInv(w)'
      BY <1>1, <2>2, <2>4, <2>5, OnlyWorkerIs
         DEF KnowledgeInv, SucceededBelow, Recorded, Alive, ExistsBy, Building, Action
    <3> QED
      BY <3>1, <3>2
  <2>6. owner' \in [Keys -> Worker \union {Nobody}] /\ "verify" \in Phases
    BY <1>1, OnlyWorkerIs, TypeParts DEF SharedTypeOK, Phases
  <2> QED
    BY <1>1, <2>2, <2>3, <2>5, <2>6, OnlyWorkerIs, StepInMemory
<1> QED
  BY <1>2, <1>3 DEF RunnerReturns

LEMMA WaitFailsStep ==
  ASSUME SandboxInv, NEW w \in Worker, WaitFails(w)
  PROVE  StepKeeps
<1>1. /\ pc[w] = "waiting" /\ pc[w] \in InExecute /\ Leave(w, "fail", "NONE")
      /\ UNCHANGED <<run, owner, env, results, anew, database, sweeping>> /\ SandboxTypeOK
  BY DEF WaitFails, InExecute, rows, SandboxInv
<1>2. CASE UNCHANGED docker
  BY <1>1, <1>2, OnlyWorkerIs, LeaveStep DEF Exits
<1>3. CASE docker' = {IF r.kind = Action(w) /\ r.by = w /\ r.state = "UP"
                      THEN [r EXCEPT !.state = "FAILED"] ELSE r : r \in docker}
  <2>1. ASSUME NEW r \in docker
        PROVE  LET f == [r EXCEPT !.state = "FAILED"]
               IN  f \in Resource /\ f.kind = r.kind /\ f.by = r.by /\ f.state = "FAILED"
    BY <1>1 DEF SandboxTypeOK, Resource
  <2>2. docker' \subseteq Resource
    BY <1>1, <1>3, <2>1 DEF SandboxTypeOK
  <2>3. ASSUME NEW r \in docker'
        PROVE  \E o \in docker :
                 /\ r.kind = o.kind /\ r.by = o.by
                 /\ r.state = "SUCCEEDED" => o.state = "SUCCEEDED" \/ database'[r.kind] > 0
    BY <1>3, <2>1
  <2>4. /\ \A r \in docker \union docker' :
             r.kind \notin Actions => r \in docker /\ r \in docker'
        /\ Quiet
    <3>1. Action(w) \in Actions
      BY <1>1, StageOfRunner
    <3>2. pc' = [pc EXCEPT ![w] = "remove"]
      BY <1>1 DEF Leave, GoTo
    <3> QED
      BY <1>1, <1>3, <2>1, <3>1, <3>2, OneIsQuiet
  <2>5. /\ database' \in [Actions -> 0 .. 2] /\ DatabaseInOrder'
        /\ \A a \in Actions : database[a] > 0 => database'[a] > 0
    BY <1>1 DEF SandboxInv, SandboxTypeOK, RunInv, DatabaseInOrder
  <2>6. SharedTypeOK' /\ Grows /\ DockerInv' /\ RowsInv' /\ RunInv' /\ MeetInv'
    BY <1>1, <2>2, <2>3, <2>4, <2>5, DockerKeeps
  <2>7. PICK held \in Memory :
          /\ pc' = [pc EXCEPT ![w] = "remove"] /\ mem' = [mem EXCEPT ![w] = held]
          /\ held.stage = mem[w].stage /\ held.exit = "fail"
    BY <1>1, LeaveIs DEF Exits
  <2>8. ASSUME pc'[w] = "remove", mem'[w] = held
        PROVE  PlaceInv(w)' /\ KnowledgeInv(w)'
    BY <1>1, <2>6, <2>7, <2>8, LeaveInv
  <2>9. (Recorded' /\ env'.by # w => Recorded /\ env.by = env'.by) /\ "remove" \in Phases
    BY <1>1 DEF Recorded, Phases
  <2> QED
    BY <2>6, <2>7, <2>8, <2>9, StepOfOne
<1> QED
  BY <1>2, <1>3 DEF WaitFails

LEMMA VerifyClaimStep ==
  ASSUME SandboxInv, NEW w \in Worker, VerifyClaim(w)
  PROVE  StepKeeps
<1>1. /\ pc[w] = "verify" /\ pc[w] \in InExecute /\ OnlyWorker
      /\ PlaceInv(w) /\ KnowledgeInv(w)
  BY DEF VerifyClaim, InExecute, SandboxInv
<1>2. CASE CheckpointExit(w) = "return"
  <2>1. GoTo(w, "store") /\ UNCHANGED mem
    BY <1>2 DEF VerifyClaim
  <2>2. ASSUME pc'[w] = "store"
        PROVE  PlaceInv(w)' /\ KnowledgeInv(w)'
    <3>1. PlaceInv(w)'
      BY <1>1, <2>1, <2>2, OnlyWorkerIs
         DEF PlaceInv, InProvision, Building, InExecute, InRelease
    <3>2. KnowledgeInv(w)'
      BY <1>1, <2>1, <2>2, OnlyWorkerIs
         DEF KnowledgeInv, SucceededBelow, Recorded, Alive, ExistsBy, Building, Action
    <3> QED
      BY <3>1, <3>2
  <2> QED
    BY <1>1, <2>1, <2>2, GoOnStep DEF Phases
<1>3. CASE CheckpointExit(w) # "return"
  <2>1. Leave(w, CheckpointExit(w), "NONE")
    BY <1>3 DEF VerifyClaim
  <2>2. CheckpointExit(w) \in Exits /\ (CheckpointExit(w) = "cancel" => run.cancel)
    BY ExitFacts DEF Exits
  <2> QED
    BY <1>1, <1>3, <2>1, <2>2, LeaveStep
<1> QED
  BY <1>2, <1>3

(* The first result stays, and a success is one of this database.          *)
LEMMA StoreResultStep ==
  ASSUME SandboxInv, NEW w \in Worker, StoreResult(w)
  PROVE  StepKeeps
<1>1. /\ pc[w] = "store" /\ pc[w] \in InExecute /\ PlaceInv(w) /\ KnowledgeInv(w)
      /\ SandboxTypeOK /\ UNCHANGED <<run, owner, env, docker, anew, database, sweeping>>
  BY DEF StoreResult, InExecute, world, SandboxInv
<1>2. CASE Leave(w, "fail", "NONE") /\ UNCHANGED results
  BY <1>1, <1>2, OnlyWorkerIs, LeaveStep DEF Exits
<1>3. CASE /\ results[Action(w)] \in {"NONE", mem[w].result}
           /\ results' = [results EXCEPT ![Action(w)] = mem[w].result]
           /\ Leave(w, ExitWith(mem[w].result), "NONE")
  <2>1. /\ mem[w].result \in {"SUCCEEDED", "FAILED"} /\ Action(w) \in Actions /\ Recorded
    BY <1>1, ActionOfWorker, StageOfRunner DEF Memory, PlaceInv
  <2>2. /\ results' \in [Actions -> {"NONE", "SUCCEEDED", "FAILED"}]
        /\ results'[Action(w)] = mem[w].result
        /\ \A a \in Actions : a # Action(w) => results'[a] = results[a]
    BY <1>1, <1>3, <2>1 DEF SandboxTypeOK
  <2>3. \A a \in Actions : results[a] = "SUCCEEDED" => results'[a] = "SUCCEEDED"
    BY <1>3, <2>2
  <2>4. SharedTypeOK'
    BY <1>1, <2>2 DEF SandboxTypeOK, SharedTypeOK
  <2>5. Alive' <=> Alive
    BY <1>1 DEF Alive, ExistsBy
  <2>6. Grows
    BY <1>1, <2>3, <2>5 DEF Grows, Recorded
  <2>7. DockerInv'
    BY <1>1, <2>3, ActionFacts DEF SandboxInv, DockerInv, Databases, Runners, ExistsBy, Recorded, Alive
  <2>8. RowsInv'
    <3>1. mem[w].result = "SUCCEEDED" /\ Alive => database[Action(w)] > 0
      BY <1>1 DEF KnowledgeInv
    <3> QED
      BY <1>1, <2>1, <2>2, <2>5, <3>1 DEF SandboxInv, RowsInv, Recorded
  <2>9. RunInv'
    BY <1>1, <2>3, ActionFacts DEF SandboxInv, RunInv, StagesLeaveResults, DatabaseInOrder
  <2>10. ExitWith(mem[w].result) \in Exits /\ ExitWith(mem[w].result) # "cancel"
    BY DEF ExitWith, Exits
  <2>11. PICK held \in Memory :
           /\ pc' = [pc EXCEPT ![w] = "remove"] /\ mem' = [mem EXCEPT ![w] = held]
           /\ held.stage = mem[w].stage /\ held.exit = ExitWith(mem[w].result)
    BY <1>1, <1>3, <2>10, LeaveIs
  <2>12. held.exit = "return" => results'[Action(w)] = "SUCCEEDED"
    BY <2>2, <2>11 DEF ExitWith
  <2>13. ASSUME pc'[w] = "remove", mem'[w] = held
         PROVE  PlaceInv(w)' /\ KnowledgeInv(w)'
    BY <1>1, <2>6, <2>10, <2>11, <2>12, <2>13, LeaveInv
  <2>14. (Recorded' /\ env'.by # w => Recorded /\ env.by = env'.by) /\ "remove" \in Phases
    BY <1>1 DEF Recorded, Phases
  <2> QED
    BY <1>1, <2>4, <2>6, <2>7, <2>8, <2>9, <2>11, <2>13, <2>14, StepOfOne
<1> QED
  BY <1>2, <1>3 DEF StoreResult

LEMMA RemoveRunnerStep ==
  ASSUME SandboxInv, NEW w \in Worker, RemoveRunner(w)
  PROVE  StepKeeps
<1> DEFINE own == {r \in docker : r.kind = Action(w) /\ r.by = w}
           place == IF mem[w].exit = "return" THEN "returned" ELSE "release"
<1>1. /\ pc[w] = "remove" /\ pc[w] \in InExecute /\ PlaceInv(w) /\ KnowledgeInv(w)
      /\ SandboxTypeOK /\ UNCHANGED <<run, owner, env, results, anew, database, mem, sweeping>>
      /\ pc' = [pc EXCEPT ![w] = place] /\ docker' \in {docker \ own, docker}
  BY DEF RemoveRunner, InExecute, rows, GoTo, SandboxInv
<1>2. docker' \subseteq docker /\ \A r \in docker : r.kind \notin Actions => r \in docker'
  BY <1>1, StageOfRunner
<1>9. Quiet
  BY <1>1, OneIsQuiet
<1> HIDE DEF own
<1>3. /\ database' \in [Actions -> 0 .. 2] /\ DatabaseInOrder'
      /\ \A a \in Actions : database[a] > 0 => database'[a] > 0
  BY <1>1 DEF SandboxInv, SandboxTypeOK, RunInv, DatabaseInOrder
<1>4. docker' \subseteq Resource
  BY <1>1, <1>2 DEF SandboxTypeOK
<1>5. SharedTypeOK' /\ Grows /\ DockerInv' /\ RowsInv' /\ RunInv' /\ MeetInv'
  BY <1>1, <1>2, <1>3, <1>4, <1>9, DockerKeeps
<1>6. ASSUME pc'[w] = place
      PROVE  PlaceInv(w)' /\ KnowledgeInv(w)'
  <2>1. mem[w].stage \notin {Provisioning, Collecting}
    BY <1>1, StageOfRunner
  <2>2. PlaceInv(w)'
    BY <1>1, <1>6, <2>1 DEF PlaceInv, InProvision, Building, InExecute, InRelease
  <2>3. KnowledgeInv(w)'
    BY <1>1, <1>6, <2>1 DEF KnowledgeInv, SucceededBelow, Recorded, Building, Done, Action
  <2> QED
    BY <2>2, <2>3
<1>7. mem[w] \in Memory /\ mem' = [mem EXCEPT ![w] = mem[w]] /\ place \in Phases
  BY <1>1, ActionOfWorker, TypeParts DEF Phases
<1>8. Recorded' /\ env'.by # w => Recorded /\ env.by = env'.by
  BY <1>1 DEF Recorded
<1> HIDE DEF place
<1> QED
  BY <1>1, <1>5, <1>6, <1>7, <1>8, StepOfOne

LEMMA ExecuteStep ==
  ASSUME SandboxInv, NEW w \in Worker, Execute(w)
  PROVE  StepKeeps
BY RequireActiveStep, RecallResultStep, FindNetworkStep, CreateRunnerStep,
   StartRunnerStep, RunnerReturnsStep, WaitFailsStep, VerifyClaimStep, StoreResultStep, RemoveRunnerStep DEF Execute

-----------------------------------------------------------------------------
(* The last stage, and the release.                                        *)

LEMMA CollectStep ==
  ASSUME SandboxInv, NEW w \in Worker, Collect(w)
  PROVE  StepKeeps
<1>1. OnlyWorker /\ mem[w].stage = Collecting
  BY DEF Collect, OnlyWorker, SandboxInv, PlaceInv
<1>2. CheckpointExit(w) \in Exits /\ (CheckpointExit(w) = "cancel" => run.cancel)
  BY ExitFacts DEF Exits
<1> QED
  BY <1>1, <1>2, RaiseStep DEF Collect, Exits

(* What a worker may do once the environment is not ACTIVE.                *)
LEMMA AfterReleaseStep ==
  ASSUME SandboxInv, NEW w \in Worker, NEW exit \in Exits, AfterRelease(w, exit),
         SharedTypeOK', Grows, DockerInv', RowsInv', RunInv', env'.by = env.by,
         UNCHANGED <<run, results, docker>>, Recorded' <=> Recorded,
         pc[w] \in InRelease, exit \in {mem[w].exit, "fail"},
         Recorded => env'.status # "ACTIVE"
  PROVE  StepKeeps
<1>1. PlaceInv(w) /\ KnowledgeInv(w) /\ SandboxTypeOK
  BY DEF SandboxInv
<1>2. Recorded' /\ env'.by # w => Recorded /\ env.by = env'.by
  OBVIOUS
<1>3. mem[w] \in Memory /\ mem[w].stage \in Stage
  BY <1>1, ActionOfWorker
<1>4. CASE exit = "lost"
  <2>1. pc' = [pc EXCEPT ![w] = "idle"] /\ mem' = [mem EXCEPT ![w] = NoMem]
    BY <1>4 DEF AfterRelease, Drop, GoTo
  <2> QED
    BY <1>2, <2>1, NoMemType, IdleInv, StepOfOne DEF Phases
<1>5. CASE exit = "cancel"
  BY <1>1, <1>5, ReadToFinalize DEF AfterRelease, InRelease
<1>6. CASE exit \notin {"lost", "cancel"}
  <2> DEFINE place == IF exit = "return" THEN "returned" ELSE "failing"
  <2>1. pc' = [pc EXCEPT ![w] = place] /\ mem' = mem
    BY <1>6 DEF AfterRelease, GoTo, Exits
  <2>2. /\ place \in {"returned", "failing"}
        /\ place = "returned" => mem[w].stage = Collecting
    BY <1>1, <1>6 DEF PlaceInv, Exits
  <2> HIDE DEF place
  <2>3. ASSUME pc'[w] = place
        PROVE  PlaceInv(w)' /\ KnowledgeInv(w)'
    <3>1. PlaceInv(w)'
      BY <1>1, <2>1, <2>2, <2>3 DEF PlaceInv, InProvision, Building, InExecute, InRelease
    <3>2. place = "returned" => Done(w)'
      BY <1>1, <2>1, <2>2, StagesAre DEF Done, KnowledgeInv
    <3>3. place = "failing" /\ mem[w].stage # Provisioning => env'.status # "ACTIVE"
      BY <1>1 DEF KnowledgeInv
    <3>4. KnowledgeInv(w)'
      BY <1>1, <2>1, <2>2, <2>3, <3>2, <3>3 DEF KnowledgeInv, SucceededBelow, Building
    <3> QED
      BY <3>1, <3>4
  <2>4. mem' = [mem EXCEPT ![w] = mem[w]] /\ place \in Phases
    BY <1>1, <2>1, <2>2, TypeParts DEF Phases
  <2> QED
    BY <1>2, <1>3, <2>1, <2>2, <2>3, <2>4, StepOfOne
<1> QED
  BY <1>4, <1>5, <1>6

LEMMA ReadEnvironmentStep ==
  ASSUME SandboxInv, NEW w \in Worker, ReadEnvironment(w)
  PROVE  StepKeeps
<1>1. /\ pc[w] = "release" /\ pc[w] \in InRelease /\ OnlyWorker
      /\ PlaceInv(w) /\ KnowledgeInv(w) /\ SandboxTypeOK
  BY DEF ReadEnvironment, InRelease, SandboxInv
<1>2. CASE env.status \in {"ABSENT", "CLEANED"}
  <2>1. AfterRelease(w, mem[w].exit) /\ mem[w].exit \in Exits
    BY <1>1, <1>2, ActionOfWorker DEF ReadEnvironment, Memory
  <2>2. SharedTypeOK'
    BY <1>1, OnlyWorkerIs, TypeParts DEF SharedTypeOK
  <2>3. Grows
    BY <1>1, OnlyWorkerIs DEF Grows, Recorded, Alive, ExistsBy
  <2>4. DockerInv' /\ RowsInv' /\ RunInv'
    BY <1>1, OnlyWorkerIs
       DEF SandboxInv, DockerInv, RowsInv, RunInv, StagesLeaveResults, DatabaseInOrder,
           Recorded, Alive, ExistsBy, Databases, Runners
  <2>5. env'.status # "ACTIVE" /\ env'.by = env.by /\ (Recorded' <=> Recorded)
    BY <1>1, <1>2, OnlyWorkerIs DEF Recorded
  <2> QED
    BY <1>1, <2>1, <2>2, <2>3, <2>4, <2>5, OnlyWorkerIs, AfterReleaseStep
<1>3. CASE env.status \notin {"ABSENT", "CLEANED"}
  <2>1. GoTo(w, "clean") /\ UNCHANGED mem /\ Recorded
    BY <1>3 DEF ReadEnvironment, Recorded
  <2>2. ASSUME pc'[w] = "clean"
        PROVE  PlaceInv(w)' /\ KnowledgeInv(w)'
    <3>1. PlaceInv(w)'
      BY <1>1, <2>1, <2>2, OnlyWorkerIs
         DEF PlaceInv, InProvision, Building, InExecute, InRelease
    <3>2. KnowledgeInv(w)'
      BY <1>1, <2>1, <2>2, OnlyWorkerIs DEF KnowledgeInv, SucceededBelow, Recorded, Building
    <3> QED
      BY <3>1, <3>2
  <2> QED
    BY <1>1, <2>1, <2>2, GoOnStep DEF Phases
<1> QED
  BY <1>2, <1>3

LEMMA CleanEnvironmentStep ==
  ASSUME SandboxInv, NEW w \in Worker, CleanEnvironment(w)
  PROVE  StepKeeps
<1>1. /\ pc[w] = "clean" /\ UNCHANGED <<run, owner, env, results, sweeping>>
      /\ PlaceInv(w) /\ KnowledgeInv(w) /\ SandboxTypeOK
      /\ pc' = [pc EXCEPT ![w] = "mark"]
  BY DEF CleanEnvironment, rows, GoTo, SandboxInv
<1>2. PICK cleaned \in BOOLEAN :
        Removes(cleaned) /\ mem' = [mem EXCEPT ![w].cleaned = cleaned]
  BY CleanupRemoves DEF CleanEnvironment
<1> DEFINE held == [mem[w] EXCEPT !.cleaned = cleaned]
<1>3. mem' = [mem EXCEPT ![w] = held]
  BY <1>2
<1>4. /\ held \in Memory /\ held.stage = mem[w].stage /\ held.exit = mem[w].exit
      /\ held.cleaned = cleaned
  BY <1>1, ActionOfWorker DEF Memory
<1> HIDE DEF held
<1>5. SharedTypeOK' /\ Grows /\ DockerInv' /\ RowsInv' /\ RunInv' /\ MeetInv'
  BY <1>1, <1>2, <1>3, CleanupKeeps, OneIsQuiet DEF SandboxTypeOK
<1>6. cleaned => ~Alive'
  BY <1>2, CleanupFacts DEF Alive, ExistsBy
<1>7. ASSUME pc'[w] = "mark", mem'[w] = held
      PROVE  PlaceInv(w)' /\ KnowledgeInv(w)'
  <2>1. PlaceInv(w)'
    BY <1>1, <1>4, <1>7 DEF PlaceInv, InProvision, Building, InExecute, InRelease
  <2>2. KnowledgeInv(w)'
    BY <1>1, <1>4, <1>6, <1>7 DEF KnowledgeInv, SucceededBelow, Recorded, Building
  <2> QED
    BY <2>1, <2>2
<1>8. (Recorded' /\ env'.by # w => Recorded /\ env.by = env'.by) /\ "mark" \in Phases
  BY <1>1 DEF Recorded, Phases
<1> QED
  BY <1>1, <1>3, <1>4, <1>5, <1>7, <1>8, StepOfOne

(* A step that writes nothing but the status of a recorded environment.    *)
LEMMA StatusKeeps ==
  ASSUME SandboxInv, Recorded, NEW status \in {"CLEANED", "CLEANUP_FAILED"},
         env' = [env EXCEPT !.status = status],
         UNCHANGED <<run, owner, results, docker, anew, database>>, sweeping' \in BOOLEAN
  PROVE  /\ SharedTypeOK' /\ Grows /\ DockerInv' /\ RowsInv' /\ RunInv'
         /\ Recorded' /\ env'.by = env.by /\ env'.status = status
<1>1. env'.by = env.by /\ env'.status = status
  BY DEF SandboxInv, SandboxTypeOK
<1>2. Recorded' /\ (Alive' <=> Alive)
  BY <1>1 DEF Recorded, Alive, ExistsBy
<1>3. SharedTypeOK'
  BY DEF SandboxInv, SandboxTypeOK, SharedTypeOK
<1>4. Grows
  BY <1>1, <1>2 DEF Grows
<1>5. DockerInv'
  BY <1>2 DEF SandboxInv, DockerInv, Databases, Runners, ExistsBy
<1>6. RowsInv'
  BY <1>2 DEF SandboxInv, RowsInv
<1>7. RunInv'
  BY <1>2 DEF SandboxInv, RunInv, StagesLeaveResults, DatabaseInOrder, Recorded
<1> QED
  BY <1>1, <1>2, <1>3, <1>4, <1>5, <1>6, <1>7

LEMMA MarkEnvironmentStep ==
  ASSUME SandboxInv, NEW w \in Worker, MarkEnvironment(w)
  PROVE  StepKeeps
<1> DEFINE status == IF mem[w].cleaned THEN "CLEANED" ELSE "CLEANUP_FAILED"
           exit == IF mem[w].cleaned THEN mem[w].exit ELSE "fail"
<1>1. /\ pc[w] = "mark" /\ env' = [env EXCEPT !.status = status] /\ AfterRelease(w, exit)
      /\ UNCHANGED <<run, owner, results, docker, anew, database, sweeping>>
  BY DEF MarkEnvironment, world
<1>2. /\ Recorded /\ SandboxTypeOK /\ sweeping' \in BOOLEAN
  BY <1>1 DEF SandboxInv, KnowledgeInv, SandboxTypeOK
<1>3. /\ status \in {"CLEANED", "CLEANUP_FAILED"} /\ exit \in {mem[w].exit, "fail"}
      /\ exit \in Exits /\ pc[w] \in InRelease
  BY <1>1, <1>2, ActionOfWorker DEF Memory, Exits, InRelease
<1> HIDE DEF status, exit
<1>4. /\ SharedTypeOK' /\ Grows /\ DockerInv' /\ RowsInv' /\ RunInv'
      /\ Recorded' /\ env'.by = env.by /\ env'.status = status
  BY <1>1, <1>2, <1>3, StatusKeeps
<1>5. env'.status # "ACTIVE"
  BY <1>3, <1>4
<1> QED
  BY <1>1, <1>2, <1>3, <1>4, <1>5, AfterReleaseStep

LEMMA FinalizeRunStep ==
  ASSUME SandboxInv, NEW w \in Worker, FinalizeRun(w)
  PROVE  StepKeeps
BY ReadEnvironmentStep, CleanEnvironmentStep, MarkEnvironmentStep DEF FinalizeRun

LEMMA HandleStep ==
  ASSUME SandboxInv, NEW w \in Worker, Handle(w)
  PROVE  StepKeeps
BY BeginStep, ProvisionStep, ExecuteStep, CollectStep, FinalizeRunStep, ReturnedStep,
   FinalizeStep, FailStep DEF Handle

LEMMA CrashStep ==
  ASSUME SandboxInv, NEW w \in Worker, Crash(w)
  PROVE  StepKeeps
BY DropStep DEF Crash, OnlyWorker

-----------------------------------------------------------------------------
(* The world around the workers.                                           *)

LEMMA StepOfNone ==
  ASSUME SandboxInv, UNCHANGED <<pc, mem>>, env'.by = env.by, Recorded' <=> Recorded,
         SharedTypeOK', Grows, DockerInv', RowsInv', RunInv',
         UNCHANGED docker \/ MeetInv'
  PROVE  StepKeeps
<1>1. SandboxTypeOK'
  BY DEF SandboxInv, SandboxTypeOK, SharedTypeOK
<1>2. ASSUME NEW v \in Worker
      PROVE  PlaceInv(v)' /\ KnowledgeInv(v)'
  BY Others
<1>3. MeetInv'
  BY QuietMeets DEF Quiet
<1> QED
  BY <1>1, <1>2, <1>3 DEF SandboxInv, StepKeeps

(* A runner that succeeds finds all earlier actions in its database.       *)
LEMMA RunnerEndsStep ==
  ASSUME SandboxInv, NEW r \in docker, RunnerEnds(r)
  PROVE  StepKeeps
<1>1. /\ r.kind \in Actions /\ SandboxTypeOK
      /\ UNCHANGED <<run, owner, env, results, anew, pc, mem, sweeping>>
  BY DEF RunnerEnds, rows, SandboxInv
<1>2. PICK state \in {"SUCCEEDED", "FAILED"} :
        /\ state = "SUCCEEDED" => Databases # {}
        /\ docker' = (docker \ {r}) \union {[r EXCEPT !.state = state]}
        /\ database' = IF state = "SUCCEEDED" /\ database[r.kind] < 2
                       THEN [database EXCEPT ![r.kind] = @ + 1] ELSE database
  BY DEF RunnerEnds
<1> DEFINE ended == [r EXCEPT !.state = state]
<1>3. /\ ended \in Resource /\ ended.kind = r.kind /\ ended.by = r.by
      /\ ended.state = state /\ docker' = (docker \ {r}) \union {ended}
  BY <1>1, <1>2 DEF SandboxTypeOK, Resource
<1> HIDE DEF ended
<1>4. database[r.kind] \in 0 .. 2 /\ database \in [Actions -> 0 .. 2]
  BY <1>1 DEF SandboxTypeOK
<1>5. /\ database' \in [Actions -> 0 .. 2]
      /\ state = "SUCCEEDED" => database'[r.kind] > 0
      /\ \A a \in Actions : database[a] > 0 => database'[a] > 0
      /\ \A a \in Actions : a # r.kind => database'[a] = database[a]
  <2>1. CASE state = "SUCCEEDED" /\ database[r.kind] < 2
    <3>1. database[r.kind] + 1 \in 0 .. 2 /\ database[r.kind] + 1 > 0
      BY <1>4, <2>1
    <3> QED
      BY <1>1, <1>2, <1>4, <2>1, <3>1
  <2>2. CASE ~(state = "SUCCEEDED" /\ database[r.kind] < 2)
    <3>1. state = "SUCCEEDED" => database[r.kind] > 0
      BY <1>4, <2>2
    <3> QED
      BY <1>2, <1>4, <2>2, <3>1
  <2> QED
    BY <2>1, <2>2
<1>6. DatabaseInOrder'
  <2>1. SUFFICES ASSUME NEW i \in 1 .. Len(RunnerActions), NEW j \in 1 .. Len(RunnerActions),
                        i < j, database'[RunnerActions[j]] > 0
                 PROVE  database[RunnerActions[i]] > 0
    BY <1>5, ActionFacts DEF DatabaseInOrder
  <2>2. CASE RunnerActions[j] = r.kind /\ state = "SUCCEEDED"
    <3>1. r \in Runners
      BY <1>1 DEF Runners
    <3>2. Recorded /\ Alive
      BY <1>2, <2>2, <3>1 DEF SandboxInv, MeetInv, Around
    <3>3. results[RunnerActions[i]] = "SUCCEEDED"
      BY <2>1, <2>2, <3>1 DEF SandboxInv, DockerInv
    <3> QED
      BY <3>2, <3>3, ActionFacts DEF SandboxInv, RowsInv
  <2>3. CASE RunnerActions[j] # r.kind \/ state # "SUCCEEDED"
    <3>1. database[RunnerActions[j]] > 0
      BY <1>2, <1>5, <2>1, <2>3, ActionFacts
    <3> QED
      BY <2>1, <3>1 DEF SandboxInv, RunInv, DatabaseInOrder
  <2> QED
    BY <2>2, <2>3
<1>7. docker' \subseteq Resource
  BY <1>1, <1>3 DEF SandboxTypeOK
<1>8. ASSUME NEW q \in docker'
      PROVE  \E o \in docker :
               /\ q.kind = o.kind /\ q.by = o.by
               /\ q.state = "SUCCEEDED" => o.state = "SUCCEEDED" \/ database'[q.kind] > 0
  BY <1>3, <1>5
<1>9. /\ \A q \in docker \union docker' :
           q.kind \notin Actions => q \in docker /\ q \in docker'
      /\ Quiet
  BY <1>1, <1>3 DEF Quiet
<1>10. SharedTypeOK' /\ Grows /\ DockerInv' /\ RowsInv' /\ RunInv' /\ MeetInv'
  BY <1>1, <1>5, <1>6, <1>7, <1>8, <1>9, DockerKeeps
<1> QED
  BY <1>1, <1>10, StepOfNone DEF Recorded

(* The run is cancelled, or given up.                                      *)
LEMMA RequestStep ==
  ASSUME SandboxInv, Cancel \/ GiveUp
  PROVE  StepKeeps
<1>1. /\ UNCHANGED <<owner, env, results, docker, anew, database, pc, mem, sweeping>>
      /\ run' \in [stage : Stage, cancel : BOOLEAN,
                   outcome : {"RUNNING", "COMPLETED", "FAILED", "CANCELLED"}]
      /\ run'.stage = run.stage /\ (run.cancel => run'.cancel)
      /\ run.outcome = "RUNNING" /\ run'.outcome # "COMPLETED"
  BY RunType DEF Cancel, GiveUp, rows, world
<1>2. SharedTypeOK'
  BY <1>1, TypeParts DEF SandboxInv, SharedTypeOK
<1>3. Grows
  <2>1. run.stage <= run.stage
    BY RunStage, StageFacts DEF SandboxInv
  <2> QED
    BY <1>1, <2>1 DEF Grows, RunGrows, Recorded, Alive, ExistsBy
<1>4. DockerInv' /\ RowsInv'
  BY <1>1 DEF SandboxInv, DockerInv, RowsInv, Recorded, Alive, ExistsBy, Databases, Runners
<1>5. RunInv'
  BY <1>1 DEF SandboxInv, RunInv, StagesLeaveResults, DatabaseInOrder
<1> QED
  BY <1>1, <1>2, <1>3, <1>4, <1>5, StepOfNone DEF Recorded

LEMMA SweepStep ==
  ASSUME SandboxInv, Sweep
  PROVE  StepKeeps
<1>1. PICK cleaned \in BOOLEAN : Removes(cleaned) /\ sweeping' = cleaned
  BY CleanupRemoves DEF Sweep
<1>2. UNCHANGED <<run, owner, env, results, pc, mem>>
  BY DEF Sweep, rows
<1>3. SharedTypeOK' /\ Grows /\ DockerInv' /\ RowsInv' /\ RunInv' /\ MeetInv'
  BY <1>1, <1>2, CleanupKeeps DEF SandboxInv, SandboxTypeOK, Quiet
<1> QED
  BY <1>2, <1>3, StepOfNone DEF Recorded

LEMMA CleanMidwayStep ==
  ASSUME SandboxInv, CleanMidway
  PROVE  StepKeeps
<1>1. Removes(FALSE)
  BY DEF CleanMidway, Removes
<1>2. UNCHANGED <<run, owner, env, results, pc, mem, sweeping>>
  BY DEF CleanMidway, rows
<1>3. SharedTypeOK' /\ Grows /\ DockerInv' /\ RowsInv' /\ RunInv' /\ MeetInv'
  BY <1>1, <1>2, CleanupKeeps DEF SandboxInv, SandboxTypeOK, Quiet
<1> QED
  BY <1>2, <1>3, StepOfNone DEF Recorded

LEMMA SweepMarkStep ==
  ASSUME SandboxInv, SweepMark
  PROVE  StepKeeps
<1>1. /\ UNCHANGED <<run, owner, results, docker, anew, database, pc, mem>>
      /\ sweeping' \in BOOLEAN
  BY DEF SweepMark, world
<1>2. CASE Recorded
  <2>1. env' = [env EXCEPT !.status = "CLEANED"]
    BY <1>2 DEF SweepMark, Recorded
  <2> QED
    BY <1>1, <1>2, <2>1, StatusKeeps, StepOfNone
<1>3. CASE ~Recorded
  <2>1. env' = env
    BY <1>3 DEF SweepMark, Recorded
  <2>2. SharedTypeOK'
    BY <1>1, <2>1, TypeParts DEF SandboxInv, SharedTypeOK
  <2>3. Grows
    BY <1>1, <2>1 DEF Grows, Recorded, Alive, ExistsBy
  <2>4. DockerInv' /\ RowsInv' /\ RunInv'
    BY <1>1, <2>1
       DEF SandboxInv, DockerInv, RowsInv, RunInv, StagesLeaveResults, DatabaseInOrder,
           Recorded, Alive, ExistsBy, Databases, Runners
  <2> QED
    BY <1>1, <2>1, <2>2, <2>3, <2>4, StepOfNone DEF Recorded
<1> QED
  BY <1>2, <1>3

-----------------------------------------------------------------------------

LEMMA SandboxStep ==
  ASSUME SandboxInv, [SandboxNext]_sandboxVars
  PROVE  StepKeeps
<1>1. CASE SandboxNext
  <2>1. ASSUME NEW w \in Worker, Claim(w) \/ Handle(w) \/ Crash(w)
        PROVE  StepKeeps
    BY <2>1, ClaimStep, HandleStep, CrashStep
  <2>2. ASSUME NEW r \in docker, RunnerEnds(r)
        PROVE  StepKeeps
    BY <2>2, RunnerEndsStep
  <2> QED
    BY <1>1, <2>1, <2>2, RequestStep, CleanMidwayStep, SweepStep, SweepMarkStep
       DEF SandboxNext
<1>2. CASE UNCHANGED sandboxVars
  <2>1. /\ UNCHANGED <<run, owner, env, results, docker, anew, database, pc, mem, sweeping>>
        /\ SharedTypeOK'
    BY <1>2, TypeParts DEF sandboxVars, SandboxInv, SharedTypeOK
  <2>2. Grows
    BY <2>1 DEF Grows, Recorded, Alive, ExistsBy
  <2>3. DockerInv' /\ RowsInv' /\ RunInv'
    BY <2>1
       DEF SandboxInv, DockerInv, RowsInv, RunInv, StagesLeaveResults, DatabaseInOrder,
           Recorded, Alive, ExistsBy, Databases, Runners
  <2> QED
    BY <2>1, <2>2, <2>3, StepOfNone DEF Recorded
<1> QED
  BY <1>1, <1>2

(* The inductive invariant of the sandbox, swept at any moment: see        *)
(* SandboxInv.                                                             *)
THEOREM SandboxInvariant == SandboxSpec => []SandboxInv
<1>1. SandboxInit => SandboxInv
  BY InitSandboxInv
<1>2. SandboxInv /\ [SandboxNext]_sandboxVars => SandboxInv'
  BY SandboxStep DEF StepKeeps
<1> QED
  BY <1>1, <1>2, PTL DEF SandboxSpec

(* Every state is well-formed.                                             *)
THEOREM SandboxTypeCorrect == SandboxSpec => []SandboxTypeOK
<1>1. SandboxInv => SandboxTypeOK
  BY DEF SandboxInv
<1> QED
  BY <1>1, SandboxInvariant, PTL

(* process_run_event: the run leaves a runner stage only with a stored     *)
(* success of its action.                                                  *)
THEOREM StagesAlwaysLeaveResults == SandboxSpec => []StagesLeaveResults
<1>1. SandboxInv => StagesLeaveResults
  BY DEF SandboxInv, RunInv
<1> QED
  BY <1>1, SandboxInvariant, PTL

(* execute: on one database no action succeeds before all earlier ones.    *)
THEOREM DatabaseAlwaysInOrder == SandboxSpec => []DatabaseInOrder
<1>1. SandboxInv => DatabaseInOrder
  BY DEF SandboxInv, RunInv
<1> QED
  BY <1>1, SandboxInvariant, PTL

(* finalize_run, provision and the sweeper: once the network of a recorded *)
(* environment is gone, neither it nor its database comes back.            *)
THEOREM CleanedAlwaysStaysGone == SandboxSpec => CleanedStaysGone
<1> DEFINE Gone == ~ExistsBy("network", env.by)
           Stays == (Gone /\ \A r \in Databases : r.by # env.by)'
<1>1. SandboxInv /\ [SandboxNext]_sandboxVars
        => [env.status # "ABSENT" /\ Gone => Stays]_sandboxVars
  <2>1. SUFFICES ASSUME SandboxInv, [SandboxNext]_sandboxVars, Recorded, ~Alive
                 PROVE  Stays
    BY DEF Recorded, Alive
  <2>2. DockerInv' /\ Grows
    BY <2>1, SandboxStep DEF StepKeeps, SandboxInv
  <2>3. ~Alive'
    BY <2>1, <2>2 DEF Grows
  <2>4. ASSUME NEW r \in Databases'
        PROVE  r.by # env'.by
    BY <2>2, <2>3, <2>4 DEF DockerInv, Alive
  <2> QED
    BY <2>3, <2>4 DEF Alive
<1> QED
  BY <1>1, SandboxInvariant, PTL DEF SandboxSpec, CleanedStaysGone

(* execute: a runner, made by the name of its network some time after that *)
(* network was found by its id, meets no running database but that of the  *)
(* environment.                                                            *)
THEOREM RunnersAlwaysMeetTheirDatabase == SandboxSpec => []RunnersMeetTheirDatabase
<1>1. SandboxInv => RunnersMeetTheirDatabase
  <2>1. SUFFICES ASSUME SandboxInv, Runners # {}, NEW r \in Databases
                 PROVE  r.by = env.by
    BY DEF RunnersMeetTheirDatabase
  <2>2. Alive
    BY <2>1 DEF SandboxInv, MeetInv, Around
  <2>3. ExistsBy("network", r.by)
    BY <2>1 DEF SandboxInv, DockerInv
  <2> QED
    BY <2>1, <2>2, <2>3 DEF SandboxInv, DockerInv, Alive, ExistsBy
<1> QED
  BY <1>1, SandboxInvariant, PTL

-----------------------------------------------------------------------------
(* How a run ends.                                                         *)

(* Only finalize and fail write the outcome, but for RECOVERY_EXHAUSTED.   *)
LEMMA RunKept ==
  ASSUME NEW w \in Worker, Claim(w) \/ Handle(w) \/ Crash(w)
  PROVE  Finalize(w) \/ Fail(w) \/ UNCHANGED run
<1>1. Claim(w) \/ Begin(w) \/ Returned(w) \/ Crash(w) \/ Collect(w) => UNCHANGED run
  BY DEF Claim, Begin, Checkpoint, Returned, Crash, Collect, OnlyWorker
<1>2. Provision(w) => UNCHANGED run
  BY DEF Provision, Lookup, CreateNetwork, CreatePostgres, ConnectPostgres,
         StartPostgres, ProvisionCall, Populated, WaitReady, Checkpoint, RecordEnvironment, UndoProvision, Provisioned, OnlyWorker
<1>3. Execute(w) => UNCHANGED run
  BY DEF Execute, RequireActive, RecallResult, FindNetwork, CreateRunner, StartRunner,
         RunnerReturns, WaitFails, VerifyClaim, StoreResult, RemoveRunner, OnlyWorker
<1>4. FinalizeRun(w) => UNCHANGED run
  BY DEF FinalizeRun, ReadEnvironment, CleanEnvironment, MarkEnvironment, OnlyWorker
<1> QED
  BY <1>1, <1>2, <1>3, <1>4 DEF Handle

(* finalize and fail are fenced, and reached after the release only.       *)
LEMMA MovedByHolder ==
  ASSUME SandboxInv, NEW w \in Worker, Finalize(w) \/ Fail(w),
         run.stage > Provisioning, run.outcome = "RUNNING",
         run'.outcome \in {"COMPLETED", "FAILED"}
  PROVE  env.status # "ACTIVE"
<1>1. Holds(w)
  BY DEF Finalize, Fail, MoveRun
<1>2. mem[w].stage = run.stage /\ mem[w].stage # Provisioning /\ KnowledgeInv(w)
  BY <1>1 DEF Holds, SandboxInv, Provisioning
<1>3. CASE Fail(w)
  BY <1>2, <1>3 DEF Fail, KnowledgeInv
<1>4. CASE Finalize(w)
  <2>1. ~mem[w].cancel /\ run.stage = Collecting /\ pc[w] = "finalizing"
    BY <1>1, <1>4, RunType, StagesAre DEF Finalize, MoveRun
  <2> QED
    BY <1>2, <2>1 DEF KnowledgeInv, Done
<1> QED
  BY <1>3, <1>4

(* finalize_run: a worker that completes a run, or fails it in or after    *)
(* its first runner stage, has released the environment before.            *)
THEOREM AlwaysReleasedBeforeTheEnd == SandboxSpec => ReleasedBeforeTheEnd
<1> DEFINE Ends == /\ run.stage > Provisioning
                   /\ run.outcome = "RUNNING"
                   /\ \/ run'.outcome = "COMPLETED"
                      \/ run'.outcome = "FAILED" /\ \E w \in Worker : pc[w] # pc'[w]
<1>1. SandboxInv /\ [SandboxNext]_sandboxVars => [Ends => env.status # "ACTIVE"]_sandboxVars
  <2>1. SUFFICES ASSUME SandboxInv, SandboxNext, Ends
                 PROVE  env.status # "ACTIVE"
    OBVIOUS
  <2>2. CASE \E w \in Worker : Claim(w) \/ Handle(w) \/ Crash(w)
    <3>1. PICK w \in Worker : Claim(w) \/ Handle(w) \/ Crash(w)
      BY <2>2
    <3>2. Finalize(w) \/ Fail(w)
      BY <2>1, <3>1, RunKept
    <3> QED
      BY <2>1, <3>2, MovedByHolder
  <2>3. CASE \E r \in docker : RunnerEnds(r)
    BY <2>1, <2>3 DEF RunnerEnds
  <2>4. CASE Cancel \/ GiveUp
    BY <2>1, <2>4, RunType DEF Cancel, GiveUp
  <2>5. CASE CleanMidway \/ Sweep \/ SweepMark
    BY <2>1, <2>5 DEF CleanMidway, Sweep, SweepMark
  <2> QED
    BY <2>1, <2>2, <2>3, <2>4, <2>5 DEF SandboxNext
<1> QED
  BY <1>1, SandboxInvariant, PTL DEF SandboxSpec, ReleasedBeforeTheEnd

-----------------------------------------------------------------------------
(* Refinement: a worker claims, works, decides, and moves the run or       *)
(* leaves; all that a handler does in between is work.                     *)

At == [w \in Worker |-> WorkOf(w)]
Moves(w) == pc[w] # "idle" /\ Holds(w)
Movers == {w \in Worker : Moves(w)}

DeliveryStep == [Delivery!DeliveryNext]_(Delivery!deliveryVars)

LEMMA IdleView ==
  ASSUME NEW w \in Worker, pc[w] = "idle"
  PROVE  WorkOf(w) = Delivery!NoWork /\ ~Moves(w)
BY DEF WorkOf, Moves, Delivery!NoWork

LEMMA BusyView ==
  ASSUME SandboxTypeOK, NEW w \in Worker, pc[w] # "idle"
  PROVE  /\ WorkOf(w) = [stage |-> mem[w].stage, key |-> mem[w].key, exit |-> Decision(w)]
         /\ WorkOf(w) # Delivery!NoWork
         /\ WorkOf(w).exit = Decision(w) /\ WorkOf(w).key = mem[w].key
<1>1. WorkOf(w) = [stage |-> mem[w].stage, key |-> mem[w].key, exit |-> Decision(w)]
  BY DEF WorkOf
<1>2. mem[w].stage \in Stage /\ 0 \notin Stage
  BY ActionOfWorker DEF Stage, Provisioning
<1>3. WorkOf(w).stage = mem[w].stage /\ Delivery!NoWork.stage = 0
  BY <1>1 DEF Delivery!NoWork
<1> QED
  BY <1>1, <1>2, <1>3

LEMMA WorkerDelivers ==
  ASSUME NEW w \in Worker,
         \/ Delivery!Start(w, "STAGE") \/ Delivery!Start(w, "CANCELLED")
         \/ Delivery!Move(w) \/ Delivery!Leave(w)
         \/ Delivery!Decide(w, "ONWARDS") \/ Delivery!Decide(w, "CANCELLED")
         \/ Delivery!Decide(w, "FAILED")
  PROVE  DeliveryStep
<1>1. /\ "STAGE" \in Delivery!Keys /\ "CANCELLED" \in Delivery!Keys
      /\ "ONWARDS" \in Delivery!Exits /\ "CANCELLED" \in Delivery!Exits
      /\ "FAILED" \in Delivery!Exits
  BY DEF Delivery!Keys, Delivery!Exits
<1> QED
  BY <1>1 DEF DeliveryStep, Delivery!DeliveryNext

(* What the others see of the step of a worker.                            *)
SeesNoChange(u) == WorkOf(u)' = WorkOf(u) /\ (Moves(u)' <=> Moves(u))

LEMMA Undisturbed ==
  ASSUME NEW u \in Worker, pc'[u] = pc[u], mem'[u] = mem[u], UNCHANGED <<run, owner>>
  PROVE  SeesNoChange(u)
BY DEF SeesNoChange, WorkOf, Decision, Moves, Holds

LEMMA UnseenStep ==
  ASSUME run' = run, \A u \in Worker : SeesNoChange(u)
  PROVE  DeliveryStep
<1>1. At' = At /\ Movers' = Movers
  BY DEF SeesNoChange, At, Movers
<1> QED
  BY <1>1 DEF At, Movers, Moves, DeliveryStep, Delivery!deliveryVars

LEMMA AtChanges ==
  ASSUME NEW w \in Worker, \A u \in Worker \ {w} : WorkOf(u)' = WorkOf(u)
  PROVE  At' = [At EXCEPT ![w] = WorkOf(w)']
BY DEF At

(* What a worker does between its claim and its end.                       *)
Works(w) ==
  /\ pc[w] \notin {"idle", "finalizing", "failing"}
  /\ UNCHANGED <<run, owner>>
  /\ \/ Drop(w)
     \/ \E place \in Phases \ {"idle"}, held \in Memory :
          /\ GoTo(w, place)
          /\ mem' = [mem EXCEPT ![w] = held]
          /\ held.stage = mem[w].stage /\ held.key = mem[w].key
          /\ place = "finalizing" => held.cancel = run.cancel

LEMMA LeavesView ==
  ASSUME SandboxTypeOK, NEW w \in Worker, pc[w] # "idle", Drop(w), UNCHANGED <<run, owner>>
  PROVE  DeliveryStep
<1>1. pc'[w] = "idle" /\ \A u \in Worker \ {w} : pc'[u] = pc[u] /\ mem'[u] = mem[u]
  BY TypeParts DEF Drop, GoTo
<1>2. \A u \in Worker \ {w} : SeesNoChange(u)
  BY <1>1, Undisturbed
<1>3. WorkOf(w)' = Delivery!NoWork /\ ~Moves(w)'
  BY <1>1 DEF WorkOf, Moves, Delivery!NoWork
<1>4. At' = [At EXCEPT ![w] = Delivery!NoWork]
  BY <1>2, <1>3, AtChanges DEF SeesNoChange
<1>5. Movers' = Movers \ {w}
  BY <1>2, <1>3 DEF Movers, SeesNoChange
<1>6. At[w] # Delivery!NoWork
  BY BusyView DEF At
<1>7. Delivery!Leave(w)
  BY <1>4, <1>5, <1>6 DEF At, Movers, Moves, Delivery!Leave
<1> QED
  BY <1>7, WorkerDelivers

LEMMA WorksView ==
  ASSUME SandboxTypeOK, NEW w \in Worker, Works(w)
  PROVE  DeliveryStep
<1>0. CASE Drop(w)
  BY <1>0, LeavesView DEF Works
<1>1. CASE ~Drop(w)
  <2>1. PICK place \in Phases \ {"idle"} : \E held \in Memory :
          /\ GoTo(w, place)
          /\ mem' = [mem EXCEPT ![w] = held]
          /\ held.stage = mem[w].stage /\ held.key = mem[w].key
          /\ place = "finalizing" => held.cancel = run.cancel
    BY <1>1 DEF Works
  <2>2. PICK held \in Memory :
          /\ GoTo(w, place)
          /\ mem' = [mem EXCEPT ![w] = held]
          /\ held.stage = mem[w].stage /\ held.key = mem[w].key
          /\ place = "finalizing" => held.cancel = run.cancel
    BY <2>1
  <2>3. /\ pc'[w] = place /\ mem'[w] = held
        /\ \A u \in Worker \ {w} : pc'[u] = pc[u] /\ mem'[u] = mem[u]
    BY <2>2, TypeParts DEF GoTo
  <2>4. pc[w] # "idle" /\ Decision(w) = "NONE" /\ UNCHANGED <<run, owner>>
    BY DEF Works, Decision
  <2>5. \A u \in Worker \ {w} : SeesNoChange(u)
    BY <2>3, <2>4, Undisturbed
  <2>6. Moves(w)' <=> Moves(w)
    BY <2>1, <2>2, <2>3, <2>4 DEF Moves, Holds
  <2>7. WorkOf(w) = [stage |-> mem[w].stage, key |-> mem[w].key, exit |-> "NONE"]
    BY <2>4, BusyView
  <2>8. WorkOf(w)' = [stage |-> mem[w].stage, key |-> mem[w].key, exit |-> Decision(w)']
    BY <2>1, <2>2, <2>3 DEF WorkOf
  <2>9. CASE place \notin {"finalizing", "failing"}
    <3>1. Decision(w)' = "NONE"
      BY <2>3, <2>9 DEF Decision
    <3>2. SeesNoChange(w)
      BY <2>6, <2>7, <2>8, <3>1 DEF SeesNoChange
    <3> QED
      BY <2>4, <2>5, <3>2, UnseenStep
  <2>10. CASE place \in {"finalizing", "failing"}
    <3> DEFINE exit == IF place = "failing" THEN "FAILED"
                       ELSE IF run.cancel THEN "CANCELLED" ELSE "ONWARDS"
    <3>1. exit \in {IF run.cancel THEN "CANCELLED" ELSE "ONWARDS", "FAILED"}
      OBVIOUS
    <3>2. Decision(w)' = exit
      BY <2>2, <2>3, <2>10 DEF Decision
    <3> HIDE DEF exit
    <3>3. WorkOf(w)' = [WorkOf(w) EXCEPT !.exit = exit]
      BY <2>7, <2>8, <3>2
    <3>4. At[w] = WorkOf(w) /\ At' = [At EXCEPT ![w] = WorkOf(w)']
      BY <2>5, AtChanges DEF At, SeesNoChange
    <3>5. At' = [At EXCEPT ![w].exit = exit]
      BY <3>3, <3>4
    <3>6. Movers' = Movers
      BY <2>5, <2>6 DEF Movers, SeesNoChange
    <3>7. At[w] # Delivery!NoWork /\ At[w].exit = "NONE"
      BY <2>4, <3>4, BusyView
    <3>8. Delivery!Decide(w, exit)
      BY <2>4, <3>1, <3>5, <3>6, <3>7 DEF At, Movers, Moves, Delivery!Decide
    <3> QED
      BY <3>8, WorkerDelivers DEF exit
  <2> QED
    BY <2>9, <2>10
<1> QED
  BY <1>0, <1>1

LEMMA ClaimView ==
  ASSUME SandboxTypeOK, NEW w \in Worker, Claim(w)
  PROVE  DeliveryStep
<1>1. PICK key \in Keys :
        /\ key = "CANCELLED" => run.cancel
        /\ owner' = [owner EXCEPT ![key] = w]
        /\ mem' = [mem EXCEPT ![w] = [NoMem EXCEPT !.stage = run.stage, !.key = key]]
  BY DEF Claim, Keys
<1> DEFINE held == [NoMem EXCEPT !.stage = run.stage, !.key = key]
<1>2. held.stage = run.stage /\ held.key = key
  BY DEF NoMem
<1> HIDE DEF held
<1>3. /\ pc[w] = "idle" /\ pc'[w] = "claimed" /\ mem'[w] = held
      /\ run.outcome = "RUNNING" /\ run' = run
      /\ \A u \in Worker \ {w} : pc'[u] = pc[u] /\ mem'[u] = mem[u]
  BY <1>1, TypeParts DEF Claim, GoTo, held
<1>4. \A k \in Keys : owner'[k] = IF k = key THEN w ELSE owner[k]
  BY <1>1 DEF SandboxTypeOK
<1>5. ASSUME NEW u \in Worker \ {w}
      PROVE  /\ WorkOf(u)' = WorkOf(u)
             /\ Moves(u)' <=> Moves(u) /\ WorkOf(u).key # key
  <2>1. WorkOf(u)' = WorkOf(u)
    BY <1>3 DEF WorkOf, Decision
  <2>2. CASE pc[u] = "idle"
    BY <1>3, <2>1, <2>2 DEF Moves
  <2>3. CASE pc[u] # "idle"
    <3>1. WorkOf(u).key = mem[u].key /\ mem[u].key \in Keys
      BY <2>3, BusyView DEF SandboxTypeOK
    <3> QED
      BY <1>3, <1>4, <2>1, <2>3, <3>1 DEF Moves, Holds
  <2> QED
    BY <2>2, <2>3
<1>6. At' = [At EXCEPT ![w] = [stage |-> run.stage, key |-> key, exit |-> "NONE"]]
  <2>1. WorkOf(w)' = [stage |-> run.stage, key |-> key, exit |-> "NONE"]
    BY <1>2, <1>3 DEF WorkOf, Decision
  <2> QED
    BY <1>5, <2>1, AtChanges
<1>7. Moves(w)' /\ ~Moves(w) /\ At[w] = Delivery!NoWork
  BY <1>2, <1>3, <1>4, IdleView DEF Moves, Holds, At
<1>8. Movers' = {x \in Movers : At[x].key # key} \union {w}
  BY <1>5, <1>7 DEF Movers, At
<1>9. Delivery!Start(w, key)
  BY <1>1, <1>3, <1>6, <1>7, <1>8 DEF At, Movers, Moves, Delivery!Start
<1> QED
  BY <1>9, WorkerDelivers DEF Keys

(* Only who holds the claim moves the run; then nobody does.               *)
LEMMA MoveView ==
  ASSUME SandboxTypeOK, NEW w \in Worker, Finalize(w) \/ Fail(w)
  PROVE  DeliveryStep
<1>1. /\ pc[w] # "idle" /\ Drop(w)
      /\ Holds(w) \/ UNCHANGED <<run, owner>>
  BY DEF Finalize, Fail, MoveRun
<1>2. CASE ~Holds(w)
  BY <1>1, <1>2, LeavesView
<1>3. CASE Holds(w)
  <2>1. pc'[w] = "idle" /\ \A u \in Worker \ {w} : pc'[u] = pc[u] /\ mem'[u] = mem[u]
    BY <1>1, TypeParts DEF Drop, GoTo
  <2>2. owner' = NotClaimed /\ run.outcome = "RUNNING" /\ run.stage \in Stage
        /\ run \in [stage : Stage, cancel : BOOLEAN,
                    outcome : {"RUNNING", "COMPLETED", "FAILED", "CANCELLED"}]
    BY <1>3 DEF Finalize, Fail, MoveRun, Holds, SandboxTypeOK
  <2>3. ASSUME NEW u \in Worker PROVE ~Moves(u)'
    <3>1. CASE u = w
      BY <2>1, <3>1 DEF Moves
    <3>2. CASE u # w
      <4>1. mem'[u].key \in Keys
        BY <2>1, <3>2 DEF SandboxTypeOK
      <4>2. owner'[mem'[u].key] = Nobody
        BY <2>2, <4>1 DEF NotClaimed
      <4> QED
        BY <4>2, NobodyAssumption DEF Moves, Holds
    <3> QED
      BY <3>1, <3>2
  <2>4. Movers' = {} /\ w \in Movers
    BY <1>1, <1>3, <2>3 DEF Movers, Moves
  <2>5. At' = [At EXCEPT ![w] = Delivery!NoWork] /\ At[w] = WorkOf(w)
    <3>1. \A u \in Worker \ {w} : WorkOf(u)' = WorkOf(u)
      BY <2>1 DEF WorkOf, Decision
    <3>2. WorkOf(w)' = Delivery!NoWork
      BY <2>1 DEF WorkOf, Delivery!NoWork
    <3> QED
      BY <3>1, <3>2, AtChanges DEF At
  <2>6. At[w].exit = Decision(w)
    BY <1>1, <2>5, BusyView
  <2>7. CASE Decision(w) = "ONWARDS"
    <3>1. pc[w] = "finalizing" /\ ~mem[w].cancel /\ Finalize(w)
      BY <2>7 DEF Decision, Finalize, Fail
    <3>2. run' = IF run.stage = Collecting
                 THEN [run EXCEPT !.outcome = "COMPLETED", !.cancel = FALSE]
                 ELSE [run EXCEPT !.stage = @ + 1, !.cancel = FALSE]
      BY <1>3, <3>1 DEF Finalize, MoveRun
    <3>3. Delivery!MoveOnwards
      BY <2>2, <3>2 DEF Delivery!MoveOnwards
    <3> QED
      BY <2>4, <2>5, <2>6, <2>7, <3>3, WorkerDelivers DEF At, Movers, Moves, Delivery!Move
  <2>8. CASE Decision(w) # "ONWARDS"
    <3>1. Decision(w) \in {"CANCELLED", "FAILED"}
          /\ run' = [run EXCEPT !.outcome = Decision(w)]
      BY <1>3, <2>8 DEF Decision, Finalize, Fail, MoveRun
    <3>2. Delivery!MoveToEnd(At[w].exit)
      BY <2>2, <2>6, <3>1 DEF Delivery!MoveToEnd
    <3> QED
      BY <2>4, <2>5, <2>6, <3>1, <3>2, WorkerDelivers DEF At, Movers, Moves, Delivery!Move
  <2> QED
    BY <2>7, <2>8
<1> QED
  BY <1>2, <1>3

-----------------------------------------------------------------------------
(* All that a handler does is work.                                        *)

Busy == Phases \ {"idle", "finalizing", "failing"}

LEMMA GoesOn ==
  ASSUME SandboxTypeOK, NEW w \in Worker, NEW place \in Phases \ {"idle", "finalizing"},
         pc[w] \in Busy, UNCHANGED <<run, owner>>, GoTo(w, place), UNCHANGED mem
  PROVE  Works(w)
<1>1. mem[w] \in Memory /\ mem' = [mem EXCEPT ![w] = mem[w]]
  BY TypeParts
<1> QED
  BY <1>1 DEF Works, Busy

LEMMA Raises ==
  ASSUME SandboxTypeOK, NEW w \in Worker, NEW exit \in Exits,
         pc[w] \in Busy, UNCHANGED <<run, owner>>, Raise(w, exit)
  PROVE  Works(w)
<1> DEFINE held == [mem[w] EXCEPT !.exit = exit]
<1>1. /\ held \in Memory /\ held.stage = mem[w].stage /\ held.key = mem[w].key
      /\ mem' = [mem EXCEPT ![w] = held]
  BY TypeParts DEF Memory, Raise
<1>2. GoTo(w, "release") /\ "release" \in Phases \ {"idle"}
  BY DEF Raise, Phases
<1> QED
  BY <1>1, <1>2 DEF Works, Busy

LEMMA Leaves ==
  ASSUME SandboxTypeOK, NEW w \in Worker, NEW exit \in Exits, NEW result,
         result = "NONE", pc[w] \in Busy, UNCHANGED <<run, owner>>, Leave(w, exit, result)
  PROVE  Works(w)
<1> DEFINE held == [mem[w] EXCEPT !.exit = exit, !.result = result]
<1>1. /\ held \in Memory /\ held.stage = mem[w].stage /\ held.key = mem[w].key
      /\ mem' = [mem EXCEPT ![w] = held]
  BY TypeParts DEF Memory, Leave
<1>2. GoTo(w, "remove") /\ "remove" \in Phases \ {"idle"}
  BY DEF Leave, Phases
<1> QED
  BY <1>1, <1>2 DEF Works, Busy

LEMMA ReadsToFinalize ==
  ASSUME SandboxTypeOK, NEW w \in Worker, pc[w] \in Busy, UNCHANGED <<run, owner>>,
         FinalizeRead(w)
  PROVE  Works(w)
<1> DEFINE held == [mem[w] EXCEPT !.cancel = run.cancel]
<1>1. /\ held \in Memory /\ held.stage = mem[w].stage /\ held.key = mem[w].key
      /\ held.cancel = run.cancel /\ mem' = [mem EXCEPT ![w] = held]
  <2>1. run.cancel \in BOOLEAN /\ mem[w] \in Memory
    BY TypeParts DEF SandboxTypeOK
  <2> QED
    BY <2>1 DEF Memory, FinalizeRead
<1>2. GoTo(w, "finalizing") /\ "finalizing" \in Phases \ {"idle"}
  BY DEF FinalizeRead, Phases
<1> QED
  BY <1>1, <1>2 DEF Works, Busy

LEMMA ChecksView ==
  ASSUME SandboxTypeOK, NEW w \in Worker, NEW next \in Phases \ {"idle", "finalizing"},
         pc[w] \in Busy, Checkpoint(w, next)
  PROVE  Works(w)
<1>1. CheckpointExit(w) \in Exits /\ UNCHANGED <<run, owner>>
  BY ExitFacts DEF Exits, Checkpoint
<1> QED
  BY <1>1, GoesOn, Raises DEF Checkpoint

LEMMA ReleasedView ==
  ASSUME SandboxTypeOK, NEW w \in Worker, NEW exit \in Exits, pc[w] \in Busy,
         UNCHANGED <<run, owner>>, AfterRelease(w, exit)
  PROVE  Works(w)
<1>1. CASE exit = "return"
  BY <1>1, GoesOn DEF AfterRelease, Phases
<1>2. CASE exit = "fail"
  BY <1>2, GoesOn DEF AfterRelease, Phases
<1>3. CASE exit = "cancel"
  BY <1>3, ReadsToFinalize DEF AfterRelease
<1>4. CASE exit = "lost"
  BY <1>4 DEF AfterRelease, Works, Busy
<1> QED
  BY <1>1, <1>2, <1>3, <1>4 DEF Exits

LEMMA BeginView ==
  ASSUME SandboxTypeOK, NEW w \in Worker, Begin(w)
  PROVE  Works(w)
<1>1. pc[w] = "claimed" /\ pc[w] \in Busy /\ UNCHANGED <<run, owner>>
  BY DEF Begin, Checkpoint, Busy, Phases
<1>2. FirstPhase(run.stage) \in Phases \ {"idle", "finalizing"}
  BY DEF FirstPhase, Phases
<1> QED
  BY <1>1, <1>2, ChecksView DEF Begin, Works

LEMMA ProvisionView ==
  ASSUME SandboxTypeOK, NEW w \in Worker, Provision(w)
  PROVE  Works(w)
<1> USE DEF Phases, Busy
<1>1. CASE Lookup(w)
  BY <1>1, GoesOn, Raises DEF Lookup, OnlyWorker, Exits
<1>2. ASSUME pc[w] \in Busy, UNCHANGED <<run, owner, mem>>, NEW next \in Busy,
             GoTo(w, next) \/ GoTo(w, "undo")
      PROVE  Works(w)
  BY <1>2, GoesOn
<1>3. CASE CreateNetwork(w)
  BY <1>2, <1>3 DEF CreateNetwork, ProvisionCall
<1>4. CASE Populated(w)
  BY <1>4, ChecksView DEF Populated
<1>5. CASE CreatePostgres(w)
  BY <1>2, <1>5 DEF CreatePostgres, ProvisionCall
<1>10. CASE ConnectPostgres(w)
  BY <1>2, <1>10 DEF ConnectPostgres, ProvisionCall
<1>11. CASE StartPostgres(w)
  BY <1>2, <1>11 DEF StartPostgres, ProvisionCall
<1>6. CASE WaitReady(w)
  <2>1. CASE GoTo(w, "undo") /\ UNCHANGED mem /\ OnlyWorker
    BY <1>6, <2>1, GoesOn DEF WaitReady, OnlyWorker
  <2>2. CASE Checkpoint(w, IF ExistsBy("postgres", w) THEN "record" ELSE "undo")
    <3>1. CASE ExistsBy("postgres", w)
      BY <1>6, <2>2, <3>1, ChecksView DEF WaitReady
    <3>2. CASE ~ExistsBy("postgres", w)
      BY <1>6, <2>2, <3>2, ChecksView DEF WaitReady
    <3> QED
      BY <3>1, <3>2
  <2> QED
    BY <1>6, <2>1, <2>2 DEF WaitReady
<1>7. CASE RecordEnvironment(w)
  BY <1>7, GoesOn DEF RecordEnvironment
<1>8. CASE UndoProvision(w)
  BY <1>8, Raises DEF UndoProvision, Exits
<1>9. CASE Provisioned(w)
  BY <1>9, ChecksView DEF Provisioned
<1> QED
  BY <1>1, <1>3, <1>4, <1>5, <1>6, <1>7, <1>8, <1>9, <1>10, <1>11 DEF Provision

LEMMA ExecuteView ==
  ASSUME SandboxInv, NEW w \in Worker, Execute(w)
  PROVE  Works(w)
<1> USE DEF Phases, Busy, Exits
<1>0. SandboxTypeOK
  BY DEF SandboxInv
<1>1. CASE RequireActive(w)
  BY <1>0, <1>1, GoesOn, Raises DEF RequireActive, OnlyWorker
<1>2. CASE RecallResult(w)
  <2>1. pc[w] = "recall" /\ UNCHANGED <<run, owner>>
    BY <1>2 DEF RecallResult, OnlyWorker
  <2>2. Action(w) \in Actions
    BY <1>0, <2>1, ActionOfWorker DEF SandboxInv, PlaceInv, InExecute
  <2>3. results[Action(w)] \in {"NONE", "SUCCEEDED", "FAILED"}
    BY <1>0, <2>2 DEF SandboxTypeOK
  <2>4. \/ GoTo(w, "launch") /\ UNCHANGED mem
        \/ GoTo(w, "returned") /\ UNCHANGED mem
        \/ Raise(w, "fail")
    BY <1>2, <2>3 DEF RecallResult
  <2> QED
    BY <1>0, <2>1, <2>4, GoesOn, Raises
<1>3. CASE FindNetwork(w)
  BY <1>0, <1>3, GoesOn, Raises DEF FindNetwork, OnlyWorker
<1>9. CASE CreateRunner(w)
  BY <1>0, <1>9, GoesOn, Raises DEF CreateRunner
<1>10. CASE StartRunner(w)
  BY <1>0, <1>10, GoesOn, Leaves DEF StartRunner
<1>4. CASE RunnerReturns(w)
  <2>1. PICK r \in docker :
          /\ r.state \in {"SUCCEEDED", "FAILED"}
          /\ \/ GoTo(w, "verify") /\ mem' = [mem EXCEPT ![w].result = r.state]
             \/ Leave(w, "fail", "NONE")
    BY <1>4 DEF RunnerReturns
  <2>2. pc[w] = "waiting" /\ UNCHANGED <<run, owner>>
    BY <1>4 DEF RunnerReturns, OnlyWorker
  <2>3. CASE Leave(w, "fail", "NONE")
    BY <1>0, <2>2, <2>3, Leaves
  <2>4. CASE GoTo(w, "verify") /\ mem' = [mem EXCEPT ![w].result = r.state]
    <3> DEFINE held == [mem[w] EXCEPT !.result = r.state]
    <3>1. r.state \in {"SUCCEEDED", "FAILED"}
      BY <2>1
    <3>2. mem[w] \in Memory
      BY <1>0, TypeParts
    <3>3. held \in Memory /\ held.stage = mem[w].stage /\ held.key = mem[w].key
      BY <3>1, <3>2 DEF Memory
    <3>4. mem' = [mem EXCEPT ![w] = held]
      BY <2>4
    <3>5. "verify" \in Phases \ {"idle"} /\ "verify" # "finalizing"
      OBVIOUS
    <3> HIDE DEF held, Phases
    <3> QED
      BY <2>2, <2>4, <3>3, <3>4, <3>5 DEF Works
  <2> QED
    BY <2>1, <2>3, <2>4
<1>5. CASE WaitFails(w)
  BY <1>0, <1>5, Leaves DEF WaitFails
<1>6. CASE VerifyClaim(w)
  BY <1>0, <1>6, GoesOn, Leaves, ExitFacts DEF VerifyClaim, OnlyWorker
<1>7. CASE StoreResult(w)
  BY <1>0, <1>7, Leaves DEF StoreResult, ExitWith
<1>8. CASE RemoveRunner(w)
  BY <1>0, <1>8, GoesOn DEF RemoveRunner
<1> QED
  BY <1>1, <1>2, <1>3, <1>4, <1>5, <1>6, <1>7, <1>8, <1>9, <1>10 DEF Execute

LEMMA ReleaseView ==
  ASSUME SandboxTypeOK, NEW w \in Worker,
         Collect(w) \/ FinalizeRun(w) \/ Returned(w)
  PROVE  Works(w)
<1> USE DEF Phases, Busy
<1>0. mem[w].exit \in Exits
  BY DEF SandboxTypeOK
<1>1. CASE Collect(w)
  BY <1>1, ExitFacts, Raises DEF Collect, OnlyWorker, Exits
<1>2. CASE ReadEnvironment(w)
  BY <1>0, <1>2, GoesOn, ReleasedView DEF ReadEnvironment, OnlyWorker
<1>3. CASE CleanEnvironment(w)
  <2>1. PICK cleaned \in BOOLEAN : mem' = [mem EXCEPT ![w].cleaned = cleaned]
    BY <1>3 DEF CleanEnvironment
  <2> DEFINE held == [mem[w] EXCEPT !.cleaned = cleaned]
  <2>2. mem[w] \in Memory
    BY TypeParts
  <2>3. held \in Memory /\ held.stage = mem[w].stage /\ held.key = mem[w].key
    BY <2>2 DEF Memory
  <2>4. mem' = [mem EXCEPT ![w] = held]
    BY <2>1
  <2>5. pc[w] = "clean" /\ GoTo(w, "mark") /\ UNCHANGED <<run, owner>>
    BY <1>3 DEF CleanEnvironment
  <2> HIDE DEF held
  <2> QED
    BY <2>3, <2>4, <2>5 DEF Works
<1>4. CASE MarkEnvironment(w)
  <2>1. (IF mem[w].cleaned THEN mem[w].exit ELSE "fail") \in Exits
    BY <1>0 DEF Exits
  <2> QED
    BY <1>4, <2>1, ReleasedView DEF MarkEnvironment
<1>5. CASE Returned(w)
  BY <1>5, ReadsToFinalize DEF Returned, Works
<1> QED
  BY <1>1, <1>2, <1>3, <1>4, <1>5 DEF FinalizeRun

-----------------------------------------------------------------------------

(* Steps of nobody that leave the run and its claims alone.                *)
LEMMA ElsewhereView ==
  ASSUME UNCHANGED <<run, owner, pc, mem>>
  PROVE  DeliveryStep
BY Undisturbed, UnseenStep

LEMMA RequestView ==
  ASSUME SandboxTypeOK, Cancel \/ GiveUp
  PROVE  DeliveryStep
<1>1. /\ run.outcome = "RUNNING" /\ UNCHANGED <<owner, pc, mem>>
      /\ \/ run' = [run EXCEPT !.cancel = TRUE]
         \/ run' = [run EXCEPT !.outcome = "FAILED"]
      /\ run \in [stage : Stage, cancel : BOOLEAN,
                  outcome : {"RUNNING", "COMPLETED", "FAILED", "CANCELLED"}]
  BY DEF Cancel, GiveUp, SandboxTypeOK
<1>2. At' = At
  BY <1>1 DEF At, WorkOf, Decision
<1>3. CASE run' = [run EXCEPT !.cancel = TRUE]
  <2>1. Movers' = Movers
    BY <1>1, <1>3 DEF Movers, Moves, Holds
  <2>2. Delivery!Ask
    BY <1>1, <1>2, <1>3, <2>1 DEF At, Movers, Moves, Delivery!Ask
  <2> QED
    BY <2>2 DEF DeliveryStep, Delivery!DeliveryNext
<1>4. CASE run' = [run EXCEPT !.outcome = "FAILED"]
  <2>1. Movers' = {}
    BY <1>1, <1>4 DEF Movers, Moves, Holds
  <2>2. Delivery!Exhaust
    BY <1>1, <1>2, <1>4, <2>1 DEF At, Movers, Moves, Delivery!Exhaust
  <2> QED
    BY <2>2 DEF DeliveryStep, Delivery!DeliveryNext
<1> QED
  BY <1>1, <1>3, <1>4

LEMMA NextDelivers ==
  ASSUME SandboxInv, [SandboxNext]_sandboxVars
  PROVE  DeliveryStep
<1>0. SandboxTypeOK
  BY DEF SandboxInv
<1>1. ASSUME NEW w \in Worker, Handle(w) PROVE DeliveryStep
  BY <1>0, <1>1, BeginView, ProvisionView, ExecuteView, ReleaseView, WorksView, MoveView
     DEF Handle
<1>2. ASSUME NEW w \in Worker, Crash(w) PROVE DeliveryStep
  BY <1>0, <1>2, LeavesView DEF Crash
<1>3. ASSUME NEW r \in docker, RunnerEnds(r) PROVE DeliveryStep
  BY <1>3, ElsewhereView DEF RunnerEnds
<1>4. CASE CleanMidway \/ Sweep \/ SweepMark \/ UNCHANGED sandboxVars
  BY <1>4, ElsewhereView DEF CleanMidway, Sweep, SweepMark, sandboxVars
<1> QED
  BY <1>0, <1>1, <1>2, <1>3, <1>4, ClaimView, RequestView DEF SandboxNext

LEMMA InitDelivers ==
  ASSUME SandboxInit
  PROVE  Delivery!DeliveryInit
<1>1. \A w \in Worker : WorkOf(w) = Delivery!NoWork /\ ~Moves(w)
  BY IdleView DEF SandboxInit
<1> QED
  BY <1>1 DEF SandboxInit, Provisioning, Moves, Delivery!DeliveryInit

(* The handlers of the sandbox stages start, decide, move the run and lose *)
(* it as StageDelivery allows and in no other way: between its claim and   *)
(* its end no step of provision, execute or finalize_run touches the run,  *)
(* whatever fails in it and however many workers are at it.                *)
THEOREM SandboxDeliveryRefinement == SandboxSpec => SandboxDelivered
<1>1. SandboxInit => Delivery!DeliveryInit
  BY InitDelivers
<1>2. SandboxInv /\ [SandboxNext]_sandboxVars =>
        [Delivery!DeliveryNext]_(Delivery!deliveryVars)
  BY NextDelivers DEF DeliveryStep
<1> QED
  BY <1>1, <1>2, SandboxInvariant, PTL
     DEF SandboxSpec, SandboxDelivered, Delivery!DeliverySpec
=============================================================================
