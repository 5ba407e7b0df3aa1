------------------------- MODULE StageResultsProofs -------------------------
(***************************************************************************)
(* All results of a run belong to its one snapshot, the run leaves no      *)
(* stage without its result, and repeated executions converge, for any     *)
(* number of workers, files and edits; and the handlers implement          *)
(* StageDelivery.                                                          *)
(***************************************************************************)
EXTENDS StageResults, SequenceTheorems, TLAPS

Touched == \E m, n \in moments : m # n

RepositoryInv == tree \in moments

(* What is published and stored.                                           *)
RowsInv ==
  /\ OneSnapshotForAll
  /\ snapshot # NoSnapshot /\ ~Touched =>
       snapshot.selected = tree /\ snapshot.content = tree

RunInv ==
  /\ run.outcome = "RUNNING" => run.done \in 0 .. 2
  /\ StagesLeaveRows
  /\ RetriesConverge

Complete(pass) == Len(pass) = FileCount

(* How far the passes have come.                                           *)
Progress(w) ==
  /\ pc[w] \in {"claimed", "existing"} =>
       mem[w].select = <<>> /\ mem[w].copy = <<>> /\ mem[w].verify = <<>>
  /\ pc[w] = "select" => ~Complete(mem[w].select) /\ mem[w].copy = <<>>
  /\ pc[w] \in {"select", "selected", "copy"} => mem[w].verify = <<>>
  /\ pc[w] \in {"selected", "copy", "verify", "publish", "save"} =>
       Complete(mem[w].select)
  /\ pc[w] = "selected" => mem[w].copy = <<>>
  /\ pc[w] = "copy" => ~Complete(mem[w].copy)
  /\ pc[w] \in {"verify", "publish", "save"} => Complete(mem[w].copy)
  /\ pc[w] = "verify" => ~Complete(mem[w].verify)
  /\ pc[w] \in {"publish", "save"} => Complete(mem[w].verify)

(* Of a tree that was never edited, every pass read what is there.         *)
ReadFromTree(w) ==
  ~Touched =>
    /\ \A f \in 1 .. Len(mem[w].select) : mem[w].select[f] = tree[f]
    /\ \A f \in 1 .. Len(mem[w].copy) : mem[w].copy[f] = tree[f]
    /\ \A f \in 1 .. Len(mem[w].verify) : mem[w].verify[f] = tree[f]

CollectingInv(w) ==
  /\ Progress(w)
  /\ ReadFromTree(w)
  /\ pc[w] = "save" => mem[w].copy \in artifacts

IsSnapshot(tr) == snapshot # NoSnapshot /\ tr = snapshot.content

DerivingInv(w) ==
  /\ pc[w] \in {"existing", "saved", "save", "publish", "selected"} \union Collecting =>
       mem[w].stage = 0
  /\ pc[w] # "idle" => \A i \in 1 .. mem[w].stage : results[Kinds[i]] # None
  /\ mem[w].source # None => IsSnapshot(mem[w].source)
  /\ mem[w].result # None => IsSnapshot(mem[w].result)
  /\ pc[w] = "saved" => mem[w].source # None
  /\ pc[w] \in {"lookup", "compute"} /\ mem[w].stage = 0 => mem[w].source # None
  /\ pc[w] \in {"computed", "store"} => mem[w].result # None
  /\ pc[w] \in {"returned", "finalizing"} => results[KindOf(w)] # None
  /\ pc[w] = "failing" => Touched

WorkerInv(w) == CollectingInv(w) /\ DerivingInv(w)

StagesInv ==
  /\ TypeOK /\ RepositoryInv /\ RowsInv /\ RunInv
  /\ \A w \in Worker : WorkerInv(w)

(* What no step takes back.                                                *)
Grows ==
  /\ moments \subseteq moments' /\ tree' \in moments'
  /\ artifacts \subseteq artifacts'
  /\ snapshot # NoSnapshot => snapshot' = snapshot
  /\ \A k \in Kind : results[k] # None => results'[k] = results[k]

-----------------------------------------------------------------------------

(* A pass is a sequence of contents, and reading a file makes it longer.   *)
LEMMA PassProperties ==
  ASSUME NEW p \in Pass
  PROVE  /\ Len(p) \in 0 .. FileCount
         /\ p \in [1 .. Len(p) -> Content]
         /\ p \in Seq(Content)
  BY FileAssumption DEF Pass

LEMMA PassAppend ==
  ASSUME NEW p \in Pass, Len(p) # FileCount, NEW c \in Content
  PROVE  /\ Append(p, c) \in Pass
         /\ Len(Append(p, c)) = Len(p) + 1
         /\ \A f \in 1 .. Len(p) : Append(p, c)[f] = p[f]
         /\ Append(p, c)[Len(p) + 1] = c
<1>1. Len(p) \in Nat /\ Len(p) < FileCount
  BY PassProperties, FileAssumption
<1>2. Len(p) + 1 \in 0 .. FileCount
  BY <1>1, FileAssumption
<1>3. p \in Seq(Content)
  BY PassProperties
<1>4. Append(p, c) \in Seq(Content) /\ Len(Append(p, c)) = Len(p) + 1
  BY <1>3
<1>5. Append(p, c) \in [1 .. Len(p) + 1 -> Content]
  BY <1>4, LenProperties
<1>6. Append(p, c) \in Pass
  BY <1>2, <1>5 DEF Pass
<1> QED
  BY <1>3, <1>4, <1>6, AppendProperties

(* The results tell absence from content.                                 *)
LEMMA NoneIsNoTree ==
  ASSUME NEW t \in Tree
  PROVE  t # None
<1>1. 1 \in DOMAIN t
  BY FileAssumption DEF Tree, File
<1>2. DOMAIN None = {}
  BY DEF None
<1> QED
  BY <1>1, <1>2

LEMMA KindsAre ==
  /\ Kinds[1] = "graph" /\ Kinds[2] = "report" /\ Kinds[3] = "plan"
  /\ \A i \in 1 .. 3 : Kinds[i] \in Kind
  BY DEF Kinds, Kind

LEMMA NoSnapshotIsNone ==
  ASSUME NEW s \in Snapshot
  PROVE  s # NoSnapshot
BY NoneIsNoTree DEF Snapshot, NoSnapshot

LEMMA MemType ==
  ASSUME TypeOK, NEW w \in Worker
  PROVE  /\ mem[w] \in [stage : 0 .. 2, select : Pass, copy : Pass,
                         verify : Pass, source : Result, result : Result]
         /\ pc[w] \in Phases
         /\ KindOf(w) \in Kind
         /\ mem[w].stage = 0 => KindOf(w) = "graph"
         /\ mem[w].stage = 1 => KindOf(w) = "report"
         /\ mem[w].stage = 2 => KindOf(w) = "plan"
<1>1. mem[w] \in [stage : 0 .. 2, select : Pass, copy : Pass,
                  verify : Pass, source : Result, result : Result]
  BY DEF TypeOK
<1>2. mem[w].stage \in {0, 1, 2}
  BY <1>1
<1> QED
  BY <1>1, <1>2, KindsAre DEF TypeOK, KindOf, Kind

(* A complete pass is a content of the whole tree.                         *)
LEMMA CompletePass ==
  ASSUME NEW p \in Pass, Complete(p)
  PROVE  p \in Tree
BY PassProperties DEF Complete, Tree, File

(* Whoever finds the tree unedited found it so before, and as it is.       *)
LEMMA UntouchedBefore ==
  ASSUME StagesInv, Grows, ~Touched'
  PROVE  ~Touched /\ tree' = tree
BY DEF Grows, StagesInv, RepositoryInv, Touched

LEMMA InitStagesInv ==
  ASSUME Init
  PROVE  StagesInv
<1>1. <<>> \in Pass /\ Len(<<>>) = 0
  BY FileAssumption DEF Pass
<1>2. tree \in Tree
  BY FileAssumption DEF Init, Tree, Content
<1>3. NoMem \in [stage : 0 .. 2, select : Pass, copy : Pass,
                 verify : Pass, source : Result, result : Result]
  BY <1>1 DEF NoMem, Result
<1>4. TypeOK
  BY <1>2, <1>3 DEF Init, TypeOK, Phases, Result
<1>5. RepositoryInv
  BY <1>2 DEF Init, RepositoryInv
<1>6. RowsInv /\ RunInv
  BY DEF Init, RowsInv, RunInv, OneSnapshotForAll, StagesLeaveRows,
         RetriesConverge, Touched
<1>7. ASSUME NEW w \in Worker
      PROVE  WorkerInv(w)
  <2>1. pc[w] = "idle" /\ mem[w] = NoMem
    BY DEF Init
  <2>2. CollectingInv(w)
    BY <1>1, <2>1 DEF CollectingInv, Progress, ReadFromTree, Touched, NoMem
  <2>3. DerivingInv(w)
    BY <2>1 DEF DerivingInv, NoMem, Collecting
  <2> QED
    BY <2>2, <2>3 DEF WorkerInv
<1> QED
  BY <1>4, <1>5, <1>6, <1>7 DEF StagesInv

(* Workers that do not move keep what they know.                           *)
LEMMA Others ==
  ASSUME StagesInv, TypeOK', Grows, NEW v \in Worker,
         pc'[v] = pc[v], mem'[v] = mem[v]
  PROVE  WorkerInv(v)'
<1>1. TypeOK /\ WorkerInv(v)
  BY DEF StagesInv
<1>2. CollectingInv(v)'
  <2>1. Progress(v)'
    BY <1>1 DEF WorkerInv, CollectingInv, Progress
  <2>2. ReadFromTree(v)'
    <3>1. ReadFromTree(v)
      BY <1>1 DEF WorkerInv, CollectingInv
    <3> QED
      BY <3>1, UntouchedBefore DEF ReadFromTree
  <2> QED
    BY <1>1, <2>1, <2>2 DEF WorkerInv, CollectingInv, Grows
<1>3. DerivingInv(v)'
  <2>1. Touched => Touched'
    BY UntouchedBefore
  <2>2. \A tr : IsSnapshot(tr) => IsSnapshot(tr)'
    BY DEF IsSnapshot, Grows
  <2>3. \A i \in 1 .. mem[v].stage : Kinds[i] \in Kind
    BY <1>1, MemType, KindsAre
  <2>4. KindOf(v)' = KindOf(v) /\ KindOf(v) \in Kind
    BY <1>1, MemType DEF KindOf
  <2>5. \A k \in Kind : results[k] # None => results'[k] # None
    BY DEF Grows
  <2> QED
    BY <1>1, <2>1, <2>2, <2>3, <2>4, <2>5 DEF WorkerInv, DerivingInv
<1> QED
  BY <1>2, <1>3 DEF WorkerInv

(* What is to be shown of a step of one worker.                            *)
LEMMA StepOfOne ==
  ASSUME StagesInv, NEW w \in Worker, TypeOK', Grows,
         RepositoryInv', RowsInv', RunInv', WorkerInv(w)',
         \A v \in Worker \ {w} : pc'[v] = pc[v] /\ mem'[v] = mem[v]
  PROVE  StagesInv'
<1>1. ASSUME NEW v \in Worker PROVE WorkerInv(v)'
  <2>1. CASE v = w
    BY <2>1
  <2>2. CASE v # w
    BY <2>2, Others
  <2> QED
    BY <2>1, <2>2
<1> QED
  BY <1>1 DEF StagesInv

(* A step that writes nothing but what a worker holds, and the claim.      *)
LEMMA StepInMemory ==
  ASSUME StagesInv, NEW w \in Worker, UNCHANGED <<repository, run, artifacts, rows>>,
         TypeOK', WorkerInv(w)',
         \A v \in Worker \ {w} : pc'[v] = pc[v] /\ mem'[v] = mem[v]
  PROVE  StagesInv'
<1>1. UNCHANGED <<tree, moments, run, artifacts, snapshot, results>>
  BY DEF repository, rows
<1>2. Grows
  BY <1>1 DEF Grows, StagesInv, RepositoryInv
<1>3. RepositoryInv' /\ RowsInv' /\ RunInv'
  BY <1>1 DEF StagesInv, RepositoryInv, RowsInv, RunInv, OneSnapshotForAll,
           StagesLeaveRows, RetriesConverge, Touched
<1> QED
  BY <1>2, <1>3, StepOfOne

-----------------------------------------------------------------------------

LEMMA DropStep ==
  ASSUME StagesInv, NEW w \in Worker, Drop(w), OnlyWorker
  PROVE  StagesInv'
<1>1. UNCHANGED <<tree, moments, run, owner, artifacts, snapshot, results>>
  BY DEF OnlyWorker, repository, delivery, rows
<1>2. <<>> \in Pass /\ Len(<<>>) = 0
  BY FileAssumption DEF Pass
<1>3. NoMem \in [stage : 0 .. 2, select : Pass, copy : Pass,
                 verify : Pass, source : Result, result : Result]
  BY <1>2 DEF NoMem, Result
<1>4. TypeOK'
  BY <1>1, <1>3 DEF StagesInv, TypeOK, Drop, GoTo, Phases
<1>5. pc'[w] = "idle" /\ mem'[w] = NoMem
  BY DEF StagesInv, TypeOK, Drop, GoTo
<1>6. CollectingInv(w)'
  BY <1>2, <1>5 DEF CollectingInv, Progress, ReadFromTree, Touched, NoMem
<1>7. DerivingInv(w)'
  BY <1>5 DEF DerivingInv, NoMem, Collecting
<1>8. \A v \in Worker \ {w} : pc'[v] = pc[v] /\ mem'[v] = mem[v]
  BY DEF StagesInv, TypeOK, Drop, GoTo
<1> QED
  BY <1>1, <1>4, <1>6, <1>7, <1>8, StepInMemory DEF WorkerInv, repository, rows

LEMMA ClaimStep ==
  ASSUME StagesInv, NEW w \in Worker, Claim(w)
  PROVE  StagesInv'
<1>1. UNCHANGED <<tree, moments, run, artifacts, snapshot, results>> /\ owner' = w
  BY DEF Claim, repository, rows
<1>2. <<>> \in Pass /\ Len(<<>>) = 0
  BY FileAssumption DEF Pass
<1>3. run.done \in 0 .. 2 /\ \A i \in 1 .. run.done : results[Kinds[i]] # None
  BY DEF Claim, StagesInv, RunInv, StagesLeaveRows
<1> DEFINE new == [NoMem EXCEPT !.stage = run.done]
<1>4. new \in [stage : 0 .. 2, select : Pass, copy : Pass,
               verify : Pass, source : Result, result : Result]
  BY <1>2, <1>3 DEF NoMem, Result
<1>5. /\ new.stage = run.done /\ new.source = None /\ new.result = None
      /\ new.select = <<>> /\ new.copy = <<>> /\ new.verify = <<>>
  BY DEF NoMem
<1>6. mem' = [mem EXCEPT ![w] = new] /\ pc' = [pc EXCEPT ![w] = "claimed"]
  BY DEF Claim, GoTo
<1> HIDE DEF new
<1>7. TypeOK'
  BY <1>1, <1>4, <1>6 DEF StagesInv, TypeOK, Phases
<1>8. pc'[w] = "claimed" /\ mem'[w] = new
  BY <1>6 DEF StagesInv, TypeOK
<1>9. CollectingInv(w)'
  BY <1>2, <1>5, <1>8 DEF CollectingInv, Progress, ReadFromTree, Touched
<1>10. DerivingInv(w)'
  BY <1>1, <1>3, <1>5, <1>8 DEF DerivingInv, Collecting
<1>11. \A v \in Worker \ {w} : pc'[v] = pc[v] /\ mem'[v] = mem[v]
  BY <1>6 DEF StagesInv, TypeOK
<1> QED
  BY <1>1, <1>7, <1>9, <1>10, <1>11, StepInMemory DEF WorkerInv, repository, rows

(* A worker that goes on with what it holds.                               *)
LEMMA GoOnStep ==
  ASSUME StagesInv, NEW w \in Worker, NEW next \in Phases,
         GoTo(w, next), UNCHANGED mem, OnlyWorker,
         pc'[w] = next => Progress(w)' /\ DerivingInv(w)',
         next # "save"
  PROVE  StagesInv'
<1>1. UNCHANGED <<tree, moments, run, owner, artifacts, snapshot, results, mem>>
  BY DEF OnlyWorker, repository, delivery, rows
<1>2. TypeOK'
  BY <1>1 DEF StagesInv, TypeOK, GoTo
<1>3. pc'[w] = next
  BY DEF StagesInv, TypeOK, GoTo
<1>4. ReadFromTree(w)'
  BY <1>1 DEF StagesInv, WorkerInv, CollectingInv, ReadFromTree, Touched
<1>6. WorkerInv(w)'
  BY <1>1, <1>3, <1>4 DEF WorkerInv, CollectingInv
<1>7. \A v \in Worker \ {w} : pc'[v] = pc[v] /\ mem'[v] = mem[v]
  BY <1>1 DEF StagesInv, TypeOK, GoTo
<1> QED
  BY <1>1, <1>2, <1>6, <1>7, StepInMemory DEF repository, rows

LEMMA CheckpointStep ==
  ASSUME StagesInv, NEW w \in Worker, NEW from, NEW next \in Phases,
         Checkpoint(w, from, next),
         Holds(w) /\ pc'[w] = next /\ UNCHANGED <<mem, run, snapshot, results>> =>
           Progress(w)' /\ DerivingInv(w)',
         next # "save"
  PROVE  StagesInv'
<1>1. CASE ~Holds(w)
  BY <1>1, DropStep DEF Checkpoint
<1>2. CASE Holds(w)
  <2>1. GoTo(w, next) /\ UNCHANGED mem /\ OnlyWorker
    BY <1>2 DEF Checkpoint
  <2>2. UNCHANGED <<run, snapshot, results>>
    BY <2>1 DEF OnlyWorker, delivery, rows
  <2> QED
    BY <1>2, <2>1, <2>2, GoOnStep
<1> QED
  BY <1>1, <1>2

LEMMA BeginStep ==
  ASSUME StagesInv, NEW w \in Worker, Begin(w)
  PROVE  StagesInv'
<1> DEFINE next == IF mem[w].stage = 0 THEN "existing" ELSE "lookup"
<1>1. Checkpoint(w, "claimed", next) /\ pc[w] = "claimed"
  BY DEF Begin, Checkpoint
<1>2. next \in Phases /\ next \in {"existing", "lookup"}
  BY DEF Phases
<1>3. next = "existing" <=> mem[w].stage = 0
  OBVIOUS
<1> HIDE DEF next
<1>4. WorkerInv(w)
  BY DEF StagesInv
<1>5. ASSUME pc'[w] = next, UNCHANGED <<mem, run, snapshot, results>>
      PROVE  Progress(w)' /\ DerivingInv(w)'
  <2>1. Progress(w)'
    BY <1>1, <1>2, <1>4, <1>5 DEF WorkerInv, CollectingInv, Progress
  <2>2. DerivingInv(w)'
    BY <1>1, <1>2, <1>3, <1>4, <1>5 DEF WorkerInv, DerivingInv, IsSnapshot, Collecting
  <2> QED
    BY <2>1, <2>2
<1> QED
  BY <1>1, <1>2, <1>5, CheckpointStep

LEMMA SelectedStep ==
  ASSUME StagesInv, NEW w \in Worker, Selected(w)
  PROVE  StagesInv'
<1>1. Checkpoint(w, "selected", "copy") /\ pc[w] = "selected"
  BY DEF Selected, Checkpoint
<1>2. WorkerInv(w)
  BY DEF StagesInv
<1>3. ASSUME pc'[w] = "copy", UNCHANGED <<mem, run, snapshot, results>>
      PROVE  Progress(w)' /\ DerivingInv(w)'
  <2>1. ~Complete(<<>>)
    BY FileAssumption DEF Complete
  <2>2. Progress(w)'
    BY <1>1, <1>2, <1>3, <2>1 DEF WorkerInv, CollectingInv, Progress
  <2>3. DerivingInv(w)'
    BY <1>1, <1>2, <1>3 DEF WorkerInv, DerivingInv, IsSnapshot, Collecting
  <2> QED
    BY <2>2, <2>3
<1> QED
  BY <1>1, <1>2, <1>3, CheckpointStep DEF Phases, Collecting

LEMMA SavedStep ==
  ASSUME StagesInv, NEW w \in Worker, Saved(w)
  PROVE  StagesInv'
<1>1. Checkpoint(w, "saved", "lookup") /\ pc[w] = "saved"
  BY DEF Saved, Checkpoint
<1>2. WorkerInv(w)
  BY DEF StagesInv
<1>3. ASSUME pc'[w] = "lookup", UNCHANGED <<mem, run, snapshot, results>>
      PROVE  Progress(w)' /\ DerivingInv(w)'
  BY <1>1, <1>2, <1>3
     DEF WorkerInv, CollectingInv, Progress, DerivingInv, IsSnapshot, Collecting
<1> QED
  BY <1>1, <1>3, CheckpointStep DEF Phases

LEMMA ComputedStep ==
  ASSUME StagesInv, NEW w \in Worker, Computed(w)
  PROVE  StagesInv'
<1>1. Checkpoint(w, "computed", "store") /\ pc[w] = "computed"
  BY DEF Computed, Checkpoint
<1>2. WorkerInv(w)
  BY DEF StagesInv
<1>3. ASSUME pc'[w] = "store", UNCHANGED <<mem, run, snapshot, results>>
      PROVE  Progress(w)' /\ DerivingInv(w)'
  BY <1>1, <1>2, <1>3
     DEF WorkerInv, CollectingInv, Progress, DerivingInv, IsSnapshot, Collecting
<1> QED
  BY <1>1, <1>3, CheckpointStep DEF Phases

LEMMA ReturnedStep ==
  ASSUME StagesInv, NEW w \in Worker, Returned(w)
  PROVE  StagesInv'
<1>1. Checkpoint(w, "returned", "finalizing") /\ pc[w] = "returned"
  BY DEF Returned, Checkpoint
<1>2. WorkerInv(w)
  BY DEF StagesInv
<1>3. ASSUME pc'[w] = "finalizing", UNCHANGED <<mem, run, snapshot, results>>
      PROVE  Progress(w)' /\ DerivingInv(w)'
  BY <1>1, <1>2, <1>3
     DEF WorkerInv, CollectingInv, Progress, DerivingInv, IsSnapshot, Collecting, KindOf
<1> QED
  BY <1>1, <1>3, CheckpointStep DEF Phases

-----------------------------------------------------------------------------
(* The passes over the files.                                              *)

(* What a pass has after one more file.                                    *)
Reads(pass) == Append(pass, tree[Len(pass) + 1])

LEMMA ReadsOneFile ==
  ASSUME TypeOK, NEW pass \in Pass, ~Complete(pass)
  PROVE  /\ Reads(pass) \in Pass
         /\ (\A f \in 1 .. Len(pass) : pass[f] = tree[f]) =>
              \A f \in 1 .. Len(Reads(pass)) : Reads(pass)[f] = tree[f]
<1>1. Len(pass) \in Nat /\ Len(pass) < FileCount
  BY PassProperties, FileAssumption DEF Complete
<1>2. Len(pass) + 1 \in File
  BY <1>1, FileAssumption DEF File
<1>3. tree[Len(pass) + 1] \in Content
  BY <1>2 DEF TypeOK, Tree
<1>4. /\ Reads(pass) \in Pass
      /\ Len(Reads(pass)) = Len(pass) + 1
      /\ \A f \in 1 .. Len(pass) : Reads(pass)[f] = pass[f]
      /\ Reads(pass)[Len(pass) + 1] = tree[Len(pass) + 1]
  BY <1>1, <1>3, PassAppend DEF Reads, Complete
<1>5. \A f \in 1 .. Len(pass) + 1 : f \in 1 .. Len(pass) \/ f = Len(pass) + 1
  BY <1>1
<1> QED
  BY <1>4, <1>5

LEMMA ReadFileWrites ==
  ASSUME StagesInv, NEW w \in Worker, ReadFile(w)
  PROVE  /\ UNCHANGED <<tree, moments, run, owner, artifacts, snapshot, results>>
         /\ pc[w] = "select" =>
              LET read == Reads(mem[w].select) IN
              /\ mem' = [mem EXCEPT ![w] = [mem[w] EXCEPT !.select = read]]
              /\ pc' = [pc EXCEPT ![w] =
                          IF Len(read) = FileCount THEN "selected" ELSE "select"]
         /\ pc[w] = "copy" =>
              LET read == Reads(mem[w].copy) IN
              /\ mem' = [mem EXCEPT ![w] = [mem[w] EXCEPT !.copy = read]]
              /\ pc' = [pc EXCEPT ![w] =
                          IF Len(read) = FileCount THEN "verify" ELSE "copy"]
         /\ pc[w] = "verify" =>
              LET read == Reads(mem[w].verify) IN
              /\ mem' = [mem EXCEPT ![w] = [mem[w] EXCEPT !.verify = read]]
              /\ pc' = [pc EXCEPT ![w] =
                          IF Len(read) = FileCount THEN "publish" ELSE "verify"]
<1> DEFINE read == Reads(mem[w][pc[w]])
<1>1. /\ mem' = [mem EXCEPT ![w][pc[w]] = read]
      /\ pc' = [pc EXCEPT ![w] = IF Len(read) = FileCount THEN AfterPass[pc[w]]
                                                         ELSE pc[w]]
  BY DEF ReadFile, GoTo, Reads
<1>2. /\ AfterPass["select"] = "selected" /\ AfterPass["copy"] = "verify"
      /\ AfterPass["verify"] = "publish"
  BY DEF AfterPass
<1>3. mem' = [mem EXCEPT ![w] = [mem[w] EXCEPT ![pc[w]] = read]]
  BY <1>1
<1>4. UNCHANGED <<tree, moments, run, owner, artifacts, snapshot, results>>
  BY DEF ReadFile, OnlyWorker, repository, delivery, rows
<1>5. CASE pc[w] = "select"
  BY <1>1, <1>2, <1>3, <1>4, <1>5
<1>6. CASE pc[w] = "copy"
  BY <1>1, <1>2, <1>3, <1>4, <1>6
<1>7. CASE pc[w] = "verify"
  BY <1>1, <1>2, <1>3, <1>4, <1>7
<1> QED
  BY <1>4, <1>5, <1>6, <1>7

(* One more file of the first selection.                                   *)
LEMMA SelectFileStep ==
  ASSUME StagesInv, NEW w \in Worker, ReadFile(w), pc[w] = "select"
  PROVE  StagesInv'
<1> DEFINE read == Reads(mem[w].select)
           next == IF Len(read) = FileCount THEN "selected" ELSE "select"
<1>1. /\ mem' = [mem EXCEPT ![w] = [mem[w] EXCEPT !.select = read]]
      /\ pc' = [pc EXCEPT ![w] = next]
      /\ UNCHANGED <<tree, moments, run, owner, artifacts, snapshot, results>>
  BY ReadFileWrites
<1>2. TypeOK /\ WorkerInv(w) /\ Progress(w) /\ ReadFromTree(w) /\ DerivingInv(w)
  BY DEF StagesInv, WorkerInv, CollectingInv
<1>3. mem[w] \in [stage : 0 .. 2, select : Pass, copy : Pass,
                  verify : Pass, source : Result, result : Result]
  BY <1>2, MemType
<1>4. ~Complete(mem[w].select) /\ mem[w].copy = <<>> /\ mem[w].verify = <<>>
  BY <1>2 DEF Progress
<1>5. /\ read \in Pass
      /\ ~Touched => \A f \in 1 .. Len(read) : read[f] = tree[f]
  BY <1>2, <1>3, <1>4, ReadsOneFile DEF ReadFromTree
<1>6. next \in {"selected", "select"} /\ (next = "selected" <=> Complete(read))
  BY DEF Complete
<1> HIDE DEF read, next
<1>7. TypeOK'
  <2>1. [mem[w] EXCEPT !.select = read] \in
          [stage : 0 .. 2, select : Pass, copy : Pass,
           verify : Pass, source : Result, result : Result]
    BY <1>3, <1>5
  <2> QED
    BY <1>1, <1>2, <1>6, <2>1 DEF TypeOK, Phases, Collecting
<1>8. mem'[w] = [mem[w] EXCEPT !.select = read] /\ pc'[w] = next
  BY <1>1, <1>2 DEF TypeOK
<1>9. /\ mem'[w].select = read /\ mem'[w].copy = mem[w].copy
      /\ mem'[w].verify = mem[w].verify /\ mem'[w].stage = mem[w].stage
      /\ mem'[w].source = mem[w].source /\ mem'[w].result = mem[w].result
  BY <1>3, <1>8
<1>10. Len(<<>>) = 0
  OBVIOUS
<1>11. CollectingInv(w)'
  <2>1. Progress(w)'
    BY <1>4, <1>6, <1>8, <1>9 DEF Progress
  <2>2. ReadFromTree(w)'
    BY <1>1, <1>2, <1>5, <1>9 DEF ReadFromTree, Touched
  <2> QED
    BY <1>1, <1>6, <1>8, <2>1, <2>2 DEF CollectingInv
<1>12. DerivingInv(w)'
  BY <1>1, <1>2, <1>6, <1>8, <1>9 DEF DerivingInv, IsSnapshot, Collecting
<1>13. \A v \in Worker \ {w} : pc'[v] = pc[v] /\ mem'[v] = mem[v]
  BY <1>1, <1>2 DEF TypeOK
<1> QED
  BY <1>1, <1>7, <1>11, <1>12, <1>13, StepInMemory DEF WorkerInv, repository, rows

(* One more file copied.                                                   *)
LEMMA CopyFileStep ==
  ASSUME StagesInv, NEW w \in Worker, ReadFile(w), pc[w] = "copy"
  PROVE  StagesInv'
<1> DEFINE read == Reads(mem[w].copy)
           next == IF Len(read) = FileCount THEN "verify" ELSE "copy"
<1>1. /\ mem' = [mem EXCEPT ![w] = [mem[w] EXCEPT !.copy = read]]
      /\ pc' = [pc EXCEPT ![w] = next]
      /\ UNCHANGED <<tree, moments, run, owner, artifacts, snapshot, results>>
  BY ReadFileWrites
<1>2. TypeOK /\ WorkerInv(w) /\ Progress(w) /\ ReadFromTree(w) /\ DerivingInv(w)
  BY DEF StagesInv, WorkerInv, CollectingInv
<1>3. mem[w] \in [stage : 0 .. 2, select : Pass, copy : Pass,
                  verify : Pass, source : Result, result : Result]
  BY <1>2, MemType
<1>4. Complete(mem[w].select) /\ ~Complete(mem[w].copy) /\ mem[w].verify = <<>>
  BY <1>2 DEF Progress
<1>5. /\ read \in Pass
      /\ ~Touched => \A f \in 1 .. Len(read) : read[f] = tree[f]
  BY <1>2, <1>3, <1>4, ReadsOneFile DEF ReadFromTree
<1>6. next \in {"verify", "copy"} /\ (next = "verify" <=> Complete(read))
  BY DEF Complete
<1> HIDE DEF read, next
<1>8. TypeOK'
  <2>1. [mem[w] EXCEPT !.copy = read] \in
          [stage : 0 .. 2, select : Pass, copy : Pass,
           verify : Pass, source : Result, result : Result]
    BY <1>3, <1>5
  <2> QED
    BY <1>1, <1>2, <1>6, <2>1 DEF TypeOK, Phases, Collecting
<1>9. mem'[w] = [mem[w] EXCEPT !.copy = read] /\ pc'[w] = next
  BY <1>1, <1>2 DEF TypeOK
<1>10. /\ mem'[w].select = mem[w].select /\ mem'[w].copy = read
       /\ mem'[w].verify = mem[w].verify /\ mem'[w].stage = mem[w].stage
       /\ mem'[w].source = mem[w].source /\ mem'[w].result = mem[w].result
  BY <1>3, <1>9
<1>11. Len(<<>>) = 0 /\ ~Complete(<<>>)
  BY FileAssumption DEF Complete
<1>12. CollectingInv(w)'
  <2>1. Progress(w)'
    BY <1>4, <1>6, <1>9, <1>10, <1>11 DEF Progress
  <2>2. ReadFromTree(w)'
    BY <1>1, <1>2, <1>5, <1>10 DEF ReadFromTree, Touched
  <2> QED
    BY <1>1, <1>6, <1>9, <2>1, <2>2 DEF CollectingInv
<1>13. DerivingInv(w)'
  BY <1>1, <1>2, <1>6, <1>9, <1>10 DEF DerivingInv, IsSnapshot, Collecting
<1>14. \A v \in Worker \ {w} : pc'[v] = pc[v] /\ mem'[v] = mem[v]
  BY <1>1, <1>2 DEF TypeOK
<1> QED
  BY <1>1, <1>8, <1>12, <1>13, <1>14, StepInMemory DEF WorkerInv, repository, rows

(* One more file of the second selection.                                  *)
LEMMA VerifyFileStep ==
  ASSUME StagesInv, NEW w \in Worker, ReadFile(w), pc[w] = "verify"
  PROVE  StagesInv'
<1> DEFINE read == Reads(mem[w].verify)
           next == IF Len(read) = FileCount THEN "publish" ELSE "verify"
<1>1. /\ mem' = [mem EXCEPT ![w] = [mem[w] EXCEPT !.verify = read]]
      /\ pc' = [pc EXCEPT ![w] = next]
      /\ UNCHANGED <<tree, moments, run, owner, artifacts, snapshot, results>>
  BY ReadFileWrites
<1>2. TypeOK /\ WorkerInv(w) /\ Progress(w) /\ ReadFromTree(w) /\ DerivingInv(w)
  BY DEF StagesInv, WorkerInv, CollectingInv
<1>3. mem[w] \in [stage : 0 .. 2, select : Pass, copy : Pass,
                  verify : Pass, source : Result, result : Result]
  BY <1>2, MemType
<1>4. Complete(mem[w].select) /\ Complete(mem[w].copy) /\ ~Complete(mem[w].verify)
  BY <1>2 DEF Progress
<1>5. /\ read \in Pass
      /\ ~Touched => \A f \in 1 .. Len(read) : read[f] = tree[f]
  BY <1>2, <1>3, <1>4, ReadsOneFile DEF ReadFromTree
<1>6. next \in {"publish", "verify"} /\ (next = "publish" <=> Complete(read))
  BY DEF Complete
<1> HIDE DEF read, next
<1>8. TypeOK'
  <2>1. [mem[w] EXCEPT !.verify = read] \in
          [stage : 0 .. 2, select : Pass, copy : Pass,
           verify : Pass, source : Result, result : Result]
    BY <1>3, <1>5
  <2> QED
    BY <1>1, <1>2, <1>6, <2>1 DEF TypeOK, Phases, Collecting
<1>9. mem'[w] = [mem[w] EXCEPT !.verify = read] /\ pc'[w] = next
  BY <1>1, <1>2 DEF TypeOK
<1>10. /\ mem'[w].select = mem[w].select /\ mem'[w].copy = mem[w].copy
       /\ mem'[w].verify = read /\ mem'[w].stage = mem[w].stage
       /\ mem'[w].source = mem[w].source /\ mem'[w].result = mem[w].result
  BY <1>3, <1>9
<1>11. CollectingInv(w)'
  <2>1. Progress(w)'
    BY <1>4, <1>6, <1>9, <1>10 DEF Progress
  <2>2. ReadFromTree(w)'
    BY <1>1, <1>2, <1>5, <1>10 DEF ReadFromTree, Touched
  <2> QED
    BY <1>1, <1>6, <1>9, <2>1, <2>2 DEF CollectingInv
<1>12. DerivingInv(w)'
  BY <1>1, <1>2, <1>6, <1>9, <1>10 DEF DerivingInv, IsSnapshot, Collecting
<1>13. \A v \in Worker \ {w} : pc'[v] = pc[v] /\ mem'[v] = mem[v]
  BY <1>1, <1>2 DEF TypeOK
<1> QED
  BY <1>1, <1>8, <1>11, <1>12, <1>13, StepInMemory DEF WorkerInv, repository, rows

-----------------------------------------------------------------------------
(* The snapshot and its row.                                               *)

(* Complete passes over a tree that was never edited are that tree.        *)
LEMMA UntouchedPasses ==
  ASSUME StagesInv, NEW w \in Worker, pc[w] \in {"publish", "save"}, ~Touched
  PROVE  mem[w].select = tree /\ mem[w].copy = tree /\ mem[w].verify = tree
<1>1. TypeOK /\ Progress(w) /\ ReadFromTree(w)
  BY DEF StagesInv, WorkerInv, CollectingInv
<1>2. \A p \in Pass :
        Complete(p) /\ (\A f \in 1 .. Len(p) : p[f] = tree[f]) => p = tree
  BY <1>1, CompletePass DEF TypeOK, Tree, File, Complete
<1> QED
  BY <1>1, <1>2, MemType DEF Progress, ReadFromTree

LEMMA FailingStep ==
  ASSUME StagesInv, NEW w \in Worker, Touched, pc[w] # "idle",
         GoTo(w, "failing"), UNCHANGED mem, OnlyWorker
  PROVE  StagesInv'
<1>1. UNCHANGED <<tree, moments, snapshot, results>>
  BY DEF OnlyWorker, repository, rows
<1>2. WorkerInv(w)
  BY DEF StagesInv
<1>3. ASSUME pc'[w] = "failing"
      PROVE  Progress(w)' /\ DerivingInv(w)'
  BY <1>1, <1>2, <1>3 DEF WorkerInv, Progress, DerivingInv, IsSnapshot, Collecting, Touched
<1> QED
  BY <1>3, GoOnStep DEF Phases

LEMMA ExistingSnapshotStep ==
  ASSUME StagesInv, NEW w \in Worker, ExistingSnapshot(w)
  PROVE  StagesInv'
<1>1. TypeOK /\ WorkerInv(w) /\ pc[w] = "existing" /\ OnlyWorker
  BY DEF ExistingSnapshot, StagesInv
<1>2. CASE snapshot = NoSnapshot
  <2>1. GoTo(w, "select") /\ UNCHANGED mem
    BY <1>2 DEF ExistingSnapshot
  <2>2. ~Complete(<<>>)
    BY FileAssumption DEF Complete
  <2>3. UNCHANGED <<snapshot, results>>
    BY <1>1 DEF OnlyWorker, rows
  <2>4. ASSUME pc'[w] = "select"
        PROVE  Progress(w)' /\ DerivingInv(w)'
    <3>1. Progress(w)'
      BY <1>1, <2>1, <2>2, <2>4 DEF WorkerInv, CollectingInv, Progress
    <3>2. DerivingInv(w)'
      BY <1>1, <2>1, <2>3, <2>4 DEF WorkerInv, DerivingInv, IsSnapshot, Collecting
    <3> QED
      BY <3>1, <3>2
  <2> QED
    BY <1>1, <2>1, <2>4, GoOnStep DEF Phases, Collecting
<1>3. CASE snapshot # NoSnapshot
  <2> DEFINE new == [mem[w] EXCEPT !.source = snapshot.content]
  <2>1. /\ mem' = [mem EXCEPT ![w] = new] /\ pc' = [pc EXCEPT ![w] = "saved"]
        /\ UNCHANGED <<tree, moments, run, owner, artifacts, snapshot, results>>
    BY <1>1, <1>3 DEF ExistingSnapshot, GoTo, OnlyWorker, repository, delivery, rows
  <2>2. snapshot.content \in Tree /\ snapshot.content # None
    BY <1>1, <1>3, NoneIsNoTree DEF TypeOK, Snapshot
  <2>3. new \in [stage : 0 .. 2, select : Pass, copy : Pass,
                 verify : Pass, source : Result, result : Result]
    BY <1>1, <2>2, MemType DEF Result
  <2>4. /\ new.select = mem[w].select /\ new.copy = mem[w].copy
        /\ new.verify = mem[w].verify /\ new.stage = mem[w].stage
        /\ new.source = snapshot.content /\ new.result = mem[w].result
    BY <1>1, MemType
  <2> HIDE DEF new
  <2>5. TypeOK'
    BY <1>1, <2>1, <2>3 DEF TypeOK, Phases
  <2>6. mem'[w] = new /\ pc'[w] = "saved"
    BY <1>1, <2>1 DEF TypeOK
  <2>7. CollectingInv(w)'
    BY <1>1, <2>1, <2>4, <2>6
       DEF WorkerInv, CollectingInv, Progress, ReadFromTree, Touched
  <2>8. DerivingInv(w)'
    BY <1>1, <1>3, <2>1, <2>2, <2>4, <2>6 DEF WorkerInv, DerivingInv, IsSnapshot, Collecting
  <2>9. \A v \in Worker \ {w} : pc'[v] = pc[v] /\ mem'[v] = mem[v]
    BY <1>1, <2>1 DEF TypeOK
  <2> QED
    BY <2>1, <2>5, <2>7, <2>8, <2>9, StepInMemory DEF WorkerInv, repository, rows
<1> QED
  BY <1>2, <1>3

LEMMA PublishStep ==
  ASSUME StagesInv, NEW w \in Worker, Publish(w)
  PROVE  StagesInv'
<1>1. /\ TypeOK /\ WorkerInv(w) /\ pc[w] = "publish"
      /\ UNCHANGED <<tree, moments, run, owner, snapshot, results, mem>>
  BY DEF Publish, StagesInv, repository, delivery, rows
<1>2. Progress(w) /\ ReadFromTree(w) /\ DerivingInv(w)
  BY <1>1 DEF WorkerInv, CollectingInv
<1>3. CASE mem[w].select = mem[w].verify
  <2>1. artifacts' = artifacts \union {mem[w].copy} /\ pc' = [pc EXCEPT ![w] = "save"]
    BY <1>3 DEF Publish, GoTo
  <2>2. mem[w].copy \in Tree
    BY <1>1, <1>2, MemType, CompletePass DEF Progress
  <2>3. TypeOK'
    BY <1>1, <2>1, <2>2 DEF TypeOK, Phases
  <2>4. Grows
    BY <1>1, <2>1 DEF Grows, StagesInv, RepositoryInv
  <2>5. RepositoryInv' /\ RowsInv' /\ RunInv'
    BY <1>1, <2>1, <2>2 DEF StagesInv, RepositoryInv, RowsInv, RunInv, OneSnapshotForAll,
           StagesLeaveRows, RetriesConverge, Touched
  <2>6. pc'[w] = "save" /\ \A v \in Worker \ {w} : pc'[v] = pc[v] /\ mem'[v] = mem[v]
    BY <1>1, <2>1 DEF TypeOK
  <2>7. CollectingInv(w)'
    BY <1>1, <1>2, <2>1, <2>2, <2>6 DEF CollectingInv, Progress, ReadFromTree, Touched
  <2>8. DerivingInv(w)'
    BY <1>1, <1>2, <2>6 DEF DerivingInv, IsSnapshot, Collecting
  <2> QED
    BY <2>3, <2>4, <2>5, <2>6, <2>7, <2>8, StepOfOne DEF WorkerInv
<1>4. CASE mem[w].select # mem[w].verify
  <2>1. GoTo(w, "failing") /\ OnlyWorker
    BY <1>1, <1>4 DEF Publish, OnlyWorker, repository, delivery, rows
  <2>2. Touched
    <3>1. SUFFICES ASSUME ~Touched
                   PROVE  mem[w].select = mem[w].verify
      BY <1>4
    <3> QED
      BY <1>1, <3>1, UntouchedPasses
  <2> QED
    BY <1>1, <2>1, <2>2, FailingStep
<1> QED
  BY <1>3, <1>4

LEMMA SaveSnapshotStep ==
  ASSUME StagesInv, NEW w \in Worker, SaveSnapshot(w)
  PROVE  StagesInv'
<1>1. /\ TypeOK /\ WorkerInv(w) /\ pc[w] = "save"
      /\ UNCHANGED <<tree, moments, run, owner, artifacts, results>>
  BY DEF SaveSnapshot, StagesInv, repository, delivery
<1>2. Progress(w) /\ ReadFromTree(w) /\ DerivingInv(w)
  BY <1>1 DEF WorkerInv, CollectingInv
<1>3. mem[w].copy \in artifacts
  BY <1>1 DEF WorkerInv, CollectingInv
<1>4. mem[w].select \in Tree /\ mem[w].copy \in Tree /\ mem[w].copy # None
  BY <1>1, <1>2, NoneIsNoTree, MemType, CompletePass DEF Progress
<1> DEFINE candidate == [selected |-> mem[w].select, content |-> mem[w].copy]
<1>5. Candidate(w) = candidate /\ candidate \in Snapshot /\ candidate # NoSnapshot
  BY <1>4, NoSnapshotIsNone DEF Candidate, Snapshot
<1>6. candidate.content = mem[w].copy /\ candidate.selected = mem[w].select
  OBVIOUS
<1> HIDE DEF candidate
<1>7. CASE snapshot \in {NoSnapshot, candidate}
  <2> DEFINE new == [mem[w] EXCEPT !.source = candidate.content]
  <2>1. /\ mem' = [mem EXCEPT ![w] = new] /\ pc' = [pc EXCEPT ![w] = "saved"]
        /\ snapshot' = candidate
    BY <1>5, <1>7 DEF SaveSnapshot, GoTo
  <2>2. new \in [stage : 0 .. 2, select : Pass, copy : Pass,
                 verify : Pass, source : Result, result : Result]
    BY <1>1, <1>4, <1>6, MemType DEF Result
  <2>3. /\ new.select = mem[w].select /\ new.copy = mem[w].copy
        /\ new.verify = mem[w].verify /\ new.stage = mem[w].stage
        /\ new.source = mem[w].copy /\ new.result = mem[w].result
    BY <1>1, <1>6, MemType
  <2> HIDE DEF new
  <2>4. TypeOK'
    BY <1>1, <1>5, <2>1, <2>2 DEF TypeOK, Phases
  <2>5. Grows
    BY <1>1, <1>7, <2>1 DEF Grows, StagesInv, RepositoryInv
  <2>6. RepositoryInv' /\ RunInv'
    BY <1>1 DEF StagesInv, RepositoryInv, RunInv, StagesLeaveRows, RetriesConverge
  <2>7. RowsInv'
    <3>1. ~Touched => mem[w].select = tree /\ mem[w].copy = tree
      BY <1>1, UntouchedPasses
    <3> QED
      BY <1>1, <1>3, <1>5, <1>6, <1>7, <2>1, <3>1
         DEF StagesInv, RowsInv, Touched, OneSnapshotForAll
  <2>8. mem'[w] = new /\ pc'[w] = "saved"
    BY <1>1, <2>1 DEF TypeOK
  <2>9. CollectingInv(w)'
    BY <1>1, <1>2, <2>3, <2>8 DEF CollectingInv, Progress, ReadFromTree, Touched
  <2>10. DerivingInv(w)'
    BY <1>1, <1>2, <1>4, <1>5, <1>6, <1>7, <2>1, <2>3, <2>8
       DEF DerivingInv, IsSnapshot, Collecting
  <2>11. \A v \in Worker \ {w} : pc'[v] = pc[v] /\ mem'[v] = mem[v]
    BY <1>1, <2>1 DEF TypeOK
  <2> QED
    BY <2>4, <2>5, <2>6, <2>7, <2>9, <2>10, <2>11, StepOfOne DEF WorkerInv
<1>8. CASE snapshot \notin {NoSnapshot, candidate}
  <2>1. GoTo(w, "failing") /\ UNCHANGED mem /\ OnlyWorker
    BY <1>1, <1>5, <1>8 DEF SaveSnapshot, OnlyWorker, repository, delivery, rows
  <2>2. Touched
    <3>1. SUFFICES ASSUME ~Touched
                   PROVE  snapshot = candidate
      BY <1>8
    <3>2. snapshot \in Snapshot
      BY <1>1, <1>8 DEF TypeOK
    <3>3. snapshot.content = tree /\ snapshot.selected = tree
      BY <1>8, <3>1 DEF StagesInv, RowsInv
    <3>4. candidate.content = tree /\ candidate.selected = tree
      BY <1>1, <1>6, <3>1, UntouchedPasses
    <3> QED
      BY <1>5, <3>2, <3>3, <3>4 DEF Snapshot
  <2> QED
    BY <1>1, <2>1, <2>2, FailingStep
<1> QED
  BY <1>7, <1>8

-----------------------------------------------------------------------------
(* The result of the stage.                                                *)

(* The results of the stages before a worker's own are there.              *)
LEMMA EarlierResults ==
  ASSUME StagesInv, NEW w \in Worker, pc[w] # "idle"
  PROVE  /\ KindOf(w) \in {"report", "plan"} =>
              snapshot # NoSnapshot /\ results["graph"] = snapshot.content
         /\ KindOf(w) = "plan" =>
              snapshot # NoSnapshot /\ results["report"] = snapshot.content
<1>1. \A i \in 1 .. mem[w].stage : results[Kinds[i]] # None
  BY DEF StagesInv, WorkerInv, DerivingInv
<1>2. mem[w].stage \in {0, 1, 2}
  BY MemType DEF StagesInv
<1>3. \A k \in Kind : results[k] # None =>
        snapshot # NoSnapshot /\ results[k] = snapshot.content
  BY DEF StagesInv, RowsInv, Touched, OneSnapshotForAll
<1>4. KindOf(w) = "report" => mem[w].stage = 1
  BY <1>2, MemType DEF StagesInv
<1>5. KindOf(w) = "plan" => mem[w].stage = 2
  BY <1>2, MemType DEF StagesInv
<1> QED
  BY <1>1, <1>3, <1>4, <1>5, KindsAre DEF Kind

LEMMA LookupStep ==
  ASSUME StagesInv, NEW w \in Worker, Lookup(w)
  PROVE  StagesInv'
<1>1. /\ TypeOK /\ WorkerInv(w) /\ pc[w] = "lookup" /\ UNCHANGED mem /\ OnlyWorker
      /\ UNCHANGED <<snapshot, results>>
  BY DEF Lookup, StagesInv, OnlyWorker, rows
<1>2. ~(KindOf(w) = "report" /\ snapshot = NoSnapshot)
  BY <1>1, EarlierResults
<1> DEFINE next == IF results[KindOf(w)] # None THEN "returned" ELSE "compute"
<1>3. GoTo(w, next)
  BY <1>2 DEF Lookup
<1>4. next \in {"returned", "compute"} /\ (next = "returned" => results[KindOf(w)] # None)
  OBVIOUS
<1> HIDE DEF next
<1>5. ASSUME pc'[w] = next
      PROVE  Progress(w)' /\ DerivingInv(w)'
  <2>1. Progress(w)'
    BY <1>1, <1>4, <1>5 DEF Progress
  <2>2. KindOf(w)' = KindOf(w)
    BY <1>1 DEF KindOf
  <2>3. DerivingInv(w)'
    BY <1>1, <1>4, <1>5, <2>2 DEF WorkerInv, DerivingInv, IsSnapshot, Collecting
  <2> QED
    BY <2>1, <2>3
<1>6. next \in Phases
  BY <1>4 DEF Phases
<1> QED
  BY <1>1, <1>3, <1>4, <1>5, <1>6, GoOnStep

(* What a stage computes from is there, and it is the snapshot of the run. *)
LEMMA InputIsSnapshot ==
  ASSUME StagesInv, NEW w \in Worker, pc[w] = "compute"
  PROVE  InputOf(w) # None /\ InputOf(w) \in Tree /\ IsSnapshot(InputOf(w))
<1>1. TypeOK /\ WorkerInv(w) /\ KindOf(w) \in {"graph", "report", "plan"}
  BY MemType DEF StagesInv, Kind
<1>2. snapshot # NoSnapshot =>
        /\ snapshot.content \in Tree /\ snapshot.content # None
        /\ snapshot.content \in artifacts
  BY <1>1, NoneIsNoTree DEF TypeOK, Snapshot, StagesInv, RowsInv, Touched, OneSnapshotForAll
<1>3. CASE KindOf(w) = "graph"
  <2>1. mem[w].stage = 0
    BY <1>1, <1>3, MemType
  <2>2. IsSnapshot(mem[w].source)
    BY <1>1, <2>1 DEF WorkerInv, DerivingInv
  <2> QED
    BY <1>2, <1>3, <2>2 DEF InputOf, IsSnapshot
<1>4. CASE KindOf(w) = "report"
  BY <1>2, <1>4, EarlierResults DEF InputOf, IsSnapshot
<1>5. CASE KindOf(w) = "plan"
  BY <1>2, <1>5, EarlierResults DEF InputOf, IsSnapshot
<1> QED
  BY <1>1, <1>3, <1>4, <1>5

LEMMA ComputeStep ==
  ASSUME StagesInv, NEW w \in Worker, Compute(w)
  PROVE  StagesInv'
<1>1. /\ TypeOK /\ WorkerInv(w) /\ pc[w] = "compute"
      /\ UNCHANGED <<tree, moments, run, owner, artifacts, snapshot, results>>
  BY DEF Compute, StagesInv, OnlyWorker, repository, delivery, rows
<1> DEFINE input == InputOf(w)
           new == [mem[w] EXCEPT !.result = input]
<1>2. input # None /\ input \in Tree /\ IsSnapshot(input)
  BY <1>1, InputIsSnapshot
<1>3. mem' = [mem EXCEPT ![w] = new] /\ pc' = [pc EXCEPT ![w] = "computed"]
  BY <1>2 DEF Compute, GoTo
<1> HIDE DEF input
<1>4. new \in [stage : 0 .. 2, select : Pass, copy : Pass,
               verify : Pass, source : Result, result : Result]
  BY <1>1, <1>2, MemType DEF Result
<1>5. /\ new.select = mem[w].select /\ new.copy = mem[w].copy
      /\ new.verify = mem[w].verify /\ new.stage = mem[w].stage
      /\ new.source = mem[w].source /\ new.result = input
  BY <1>1, MemType
<1> HIDE DEF new
<1>6. TypeOK'
  BY <1>1, <1>3, <1>4 DEF TypeOK, Phases
<1>7. mem'[w] = new /\ pc'[w] = "computed"
  BY <1>1, <1>3 DEF TypeOK
<1>8. CollectingInv(w)'
  BY <1>1, <1>5, <1>7 DEF WorkerInv, CollectingInv, Progress, ReadFromTree, Touched
<1>9. DerivingInv(w)'
  BY <1>1, <1>2, <1>5, <1>7 DEF WorkerInv, DerivingInv, IsSnapshot, Collecting
<1>10. \A v \in Worker \ {w} : pc'[v] = pc[v] /\ mem'[v] = mem[v]
  BY <1>1, <1>3 DEF TypeOK
<1> QED
  BY <1>1, <1>6, <1>8, <1>9, <1>10, StepInMemory DEF WorkerInv, repository, rows

(* A stored result is the same that another worker computed.               *)
LEMMA StoreResultStep ==
  ASSUME StagesInv, NEW w \in Worker, StoreResult(w)
  PROVE  StagesInv'
<1>1. /\ TypeOK /\ WorkerInv(w) /\ pc[w] = "store"
      /\ UNCHANGED <<tree, moments, run, owner, artifacts, snapshot, mem>>
  BY DEF StoreResult, StagesInv, repository, delivery
<1> DEFINE result == mem[w].result
           k == KindOf(w)
<1>2. /\ k \in Kind /\ k' = k /\ result \in Result /\ result # None
      /\ snapshot # NoSnapshot /\ result = snapshot.content
  BY <1>1, MemType DEF WorkerInv, DerivingInv, IsSnapshot, KindOf
<1>3. results[k] \in {None, result}
  BY <1>2 DEF StagesInv, RowsInv, Touched, OneSnapshotForAll
<1>4. results' = [results EXCEPT ![k] = result] /\ pc' = [pc EXCEPT ![w] = "returned"]
  BY <1>3 DEF StoreResult, GoTo
<1> HIDE DEF result, k
<1>5. TypeOK'
  BY <1>1, <1>2, <1>4 DEF TypeOK, Phases
<1>6. results'[k] = result /\ \A j \in Kind : j # k => results'[j] = results[j]
  BY <1>1, <1>2, <1>4 DEF TypeOK
<1>7. Grows
  BY <1>1, <1>3, <1>6 DEF Grows, StagesInv, RepositoryInv
<1>8. RepositoryInv'
  BY <1>1 DEF StagesInv, RepositoryInv
<1>9. RowsInv'
  BY <1>1, <1>2, <1>6 DEF StagesInv, RowsInv, Touched, OneSnapshotForAll
<1>10. RunInv'
  <2>1. run.done \in 0 .. 3
    BY <1>1 DEF TypeOK
  <2>2. \A i \in 1 .. run.done : results'[Kinds[i]] # None
    BY <1>2, <1>6, <2>1, KindsAre DEF StagesInv, RunInv, StagesLeaveRows
  <2> QED
    BY <1>1, <2>2 DEF StagesInv, RunInv, StagesLeaveRows, RetriesConverge
<1>11. pc'[w] = "returned" /\ \A v \in Worker \ {w} : pc'[v] = pc[v] /\ mem'[v] = mem[v]
  BY <1>1, <1>4 DEF TypeOK
<1>12. CollectingInv(w)'
  BY <1>1, <1>11 DEF WorkerInv, CollectingInv, Progress, ReadFromTree, Touched
<1>13. DerivingInv(w)'
  <2>1. \A i \in 1 .. mem[w].stage : Kinds[i] \in Kind
    BY <1>1, MemType, KindsAre
  <2>2. \A i \in 1 .. mem[w].stage : results'[Kinds[i]] # None
    BY <1>1, <1>2, <1>6, <2>1 DEF WorkerInv, DerivingInv
  <2>3. results'[KindOf(w)'] # None
    BY <1>2, <1>6 DEF k
  <2> QED
    BY <1>1, <1>11, <2>2, <2>3 DEF WorkerInv, DerivingInv, IsSnapshot, Collecting
<1> QED
  BY <1>5, <1>7, <1>8, <1>9, <1>10, <1>11, <1>12, <1>13, StepOfOne DEF WorkerInv

-----------------------------------------------------------------------------
(* The run and the repository.                                             *)

LEMMA MoveStep ==
  ASSUME StagesInv, NEW w \in Worker, NEW moved, MoveRun(w, moved),
         Holds(w) =>
           /\ moved \in [done : 0 .. 3, outcome : {"RUNNING", "READY", "FAILED"}]
           /\ moved.outcome = "RUNNING" => moved.done \in 0 .. 2
           /\ \A i \in 1 .. moved.done : results[Kinds[i]] # None
           /\ moved.outcome = "FAILED" => Touched
  PROVE  StagesInv'
<1>1. CASE ~Holds(w)
  BY <1>1, DropStep DEF MoveRun, OnlyWorker
<1>2. CASE Holds(w)
  <2>1. /\ UNCHANGED <<tree, moments, artifacts, snapshot, results>> /\ Drop(w)
        /\ run' = moved /\ owner' = Nobody
    BY <1>2 DEF MoveRun, repository, rows
  <2>2. TypeOK
    BY DEF StagesInv
  <2>3. <<>> \in Pass /\ Len(<<>>) = 0
    BY FileAssumption DEF Pass
  <2>4. NoMem \in [stage : 0 .. 2, select : Pass, copy : Pass,
                   verify : Pass, source : Result, result : Result]
    BY <2>3 DEF NoMem, Result
  <2>5. TypeOK'
    BY <1>2, <2>1, <2>2, <2>4 DEF TypeOK, Drop, GoTo, Phases
  <2>6. Grows
    BY <2>1, <2>2 DEF Grows, StagesInv, RepositoryInv
  <2>7. RepositoryInv' /\ RowsInv'
    BY <2>1 DEF StagesInv, RepositoryInv, RowsInv, Touched, OneSnapshotForAll
  <2>8. RunInv'
    BY <1>2, <2>1 DEF RunInv, StagesLeaveRows, RetriesConverge, Touched
  <2>9. pc'[w] = "idle" /\ mem'[w] = NoMem
    BY <2>1, <2>2 DEF TypeOK, Drop, GoTo
  <2>10. CollectingInv(w)'
    BY <2>3, <2>9 DEF CollectingInv, Progress, ReadFromTree, Touched, NoMem
  <2>11. DerivingInv(w)'
    BY <2>9 DEF DerivingInv, NoMem, Collecting
  <2>12. \A v \in Worker \ {w} : pc'[v] = pc[v] /\ mem'[v] = mem[v]
    BY <2>1, <2>2 DEF TypeOK, Drop, GoTo
  <2> QED
    BY <2>5, <2>6, <2>7, <2>8, <2>10, <2>11, <2>12, StepOfOne DEF WorkerInv
<1> QED
  BY <1>1, <1>2

LEMMA FinalizeStep ==
  ASSUME StagesInv, NEW w \in Worker, Finalize(w)
  PROVE  StagesInv'
<1> DEFINE moved == [done |-> run.done + 1,
                     outcome |-> IF run.done = 2 THEN "READY" ELSE "RUNNING"]
<1>1. MoveRun(w, moved) /\ pc[w] = "finalizing"
  BY DEF Finalize
<1>2. SUFFICES ASSUME Holds(w)
      PROVE /\ moved \in [done : 0 .. 3, outcome : {"RUNNING", "READY", "FAILED"}]
            /\ moved.outcome = "RUNNING" => moved.done \in 0 .. 2
            /\ \A i \in 1 .. moved.done : results[Kinds[i]] # None
            /\ moved.outcome = "FAILED" => Touched
  <2> HIDE DEF moved
  <2> QED
    BY <1>1, <1>2, MoveStep
<1>3. run.done \in {0, 1, 2} /\ run.done = mem[w].stage
  BY <1>2 DEF Holds, StagesInv, RunInv
<1>4. \A i \in 1 .. run.done : results[Kinds[i]] # None
  BY DEF StagesInv, RunInv, StagesLeaveRows
<1>5. results[Kinds[run.done + 1]] # None
  BY <1>1, <1>3 DEF StagesInv, WorkerInv, DerivingInv, KindOf
<1> QED
  BY <1>3, <1>4, <1>5

LEMMA FailStep ==
  ASSUME StagesInv, NEW w \in Worker, Fail(w)
  PROVE  StagesInv'
<1> DEFINE moved == [run EXCEPT !.outcome = "FAILED"]
<1>1. MoveRun(w, moved) /\ pc[w] = "failing"
  BY DEF Fail
<1>2. run \in [done : 0 .. 3, outcome : {"RUNNING", "READY", "FAILED"}]
  BY DEF StagesInv, TypeOK
<1>3. /\ moved \in [done : 0 .. 3, outcome : {"RUNNING", "READY", "FAILED"}]
      /\ moved.done = run.done /\ moved.outcome = "FAILED"
  BY <1>2
<1>4. Touched /\ \A i \in 1 .. run.done : results[Kinds[i]] # None
  BY <1>1 DEF StagesInv, WorkerInv, DerivingInv, RunInv, StagesLeaveRows
<1> HIDE DEF moved
<1> QED
  BY <1>1, <1>3, <1>4, MoveStep

LEMMA EditStep ==
  ASSUME StagesInv, NEW f \in File, Edit(f)
  PROVE  StagesInv'
<1>1. /\ TypeOK /\ moments' = moments \union {tree'}
      /\ UNCHANGED <<run, owner, artifacts, snapshot, results, pc, mem>>
  BY DEF Edit, StagesInv, delivery, rows
<1>2. PICK c \in Content \ {tree[f]} : tree' = [tree EXCEPT ![f] = c]
  BY DEF Edit
<1>3. tree' \in Tree /\ tree' # tree
  BY <1>1, <1>2 DEF TypeOK, Tree
<1>4. tree \in moments
  BY DEF StagesInv, RepositoryInv
<1>5. Touched'
  BY <1>1, <1>3, <1>4 DEF Touched
<1>6. TypeOK'
  BY <1>1, <1>3 DEF TypeOK
<1>7. Grows
  BY <1>1 DEF Grows
<1>8. RepositoryInv'
  BY <1>1 DEF RepositoryInv
<1>9. RowsInv'
  BY <1>1, <1>5 DEF StagesInv, RowsInv, OneSnapshotForAll
<1>10. RunInv'
  BY <1>1, <1>5 DEF StagesInv, RunInv, StagesLeaveRows, RetriesConverge, Touched
<1>11. \A v \in Worker : WorkerInv(v)'
  BY <1>1, <1>6, <1>7, Others
<1> QED
  BY <1>6, <1>8, <1>9, <1>10, <1>11 DEF StagesInv

-----------------------------------------------------------------------------

LEMMA ReadFileStep ==
  ASSUME StagesInv, NEW w \in Worker, ReadFile(w)
  PROVE  StagesInv'
<1>1. pc[w] \in {"select", "copy", "verify"}
  BY DEF ReadFile, Collecting
<1> QED
  BY <1>1, SelectFileStep, CopyFileStep, VerifyFileStep

LEMMA WorkStep ==
  ASSUME StagesInv, NEW w \in Worker, Work(w)
  PROVE  StagesInv'
<1>1. CASE TakeSnapshot(w)
  BY <1>1, ExistingSnapshotStep, ReadFileStep, SelectedStep, PublishStep, SaveSnapshotStep,
     SavedStep DEF TakeSnapshot
<1>2. CASE DeriveResult(w)
  BY <1>2, LookupStep, ComputeStep, ComputedStep, StoreResultStep DEF DeriveResult
<1>3. CASE Crash(w)
  BY <1>3, DropStep DEF Crash
<1> QED
  BY <1>1, <1>2, <1>3, ClaimStep, BeginStep, ReturnedStep, FinalizeStep, FailStep DEF Work

LEMMA StagesStep ==
  ASSUME StagesInv, [Next]_vars
  PROVE  StagesInv'
<1>1. CASE Next
  BY <1>1, WorkStep, EditStep DEF Next
<1>2. CASE UNCHANGED vars
  <2>1. UNCHANGED <<tree, moments, run, owner, artifacts, snapshot, results, pc, mem>>
    BY <1>2 DEF vars, repository, delivery, rows
  <2>2. TypeOK'
    BY <2>1 DEF StagesInv, TypeOK
  <2>3. Grows
    BY <2>1 DEF Grows, StagesInv, RepositoryInv
  <2>4. RepositoryInv' /\ RowsInv' /\ RunInv'
    BY <2>1 DEF StagesInv, RepositoryInv, RowsInv, RunInv, OneSnapshotForAll,
           StagesLeaveRows, RetriesConverge, Touched
  <2>5. \A v \in Worker : WorkerInv(v)'
    BY <2>1, <2>2, <2>3, Others
  <2> QED
    BY <2>2, <2>4, <2>5 DEF StagesInv
<1> QED
  BY <1>1, <1>2

-----------------------------------------------------------------------------

(* The inductive invariant: it holds in every state of every behaviour.    *)
THEOREM StagesInvariant ==
  Spec => []StagesInv
<1>1. Init => StagesInv
  BY InitStagesInv
<1>2. StagesInv /\ [Next]_vars => StagesInv'
  BY StagesStep
<1> QED
  BY <1>1, <1>2, PTL DEF Spec

(* Graph, report and plan of a run belong to its one snapshot.             *)
THEOREM AlwaysOneSnapshotForAll ==
  Spec => []OneSnapshotForAll
<1>1. StagesInv => OneSnapshotForAll
  BY DEF StagesInv, RowsInv
<1> QED
  BY <1>1, StagesInvariant, PTL

(* The run leaves no stage without the stage's result.                     *)
THEOREM StagesAlwaysLeaveRows ==
  Spec => []StagesLeaveRows
<1>1. StagesInv => StagesLeaveRows
  BY DEF StagesInv, RunInv
<1> QED
  BY <1>1, StagesInvariant, PTL

(* While the repository was never edited, no execution of a stage, first   *)
(* or repeated, fails the run.                                             *)
THEOREM RetriesAlwaysConverge ==
  Spec => []RetriesConverge
<1>1. StagesInv => RetriesConverge
  BY DEF StagesInv, RunInv
<1> QED
  BY <1>1, StagesInvariant, PTL

(* Every variable keeps its type; each worker's passes stay within the     *)
(* files of the snapshot.                                                  *)
THEOREM StagesTypeCorrect ==
  Spec => []TypeOK
<1>1. StagesInv => TypeOK
  BY DEF StagesInv
<1> QED
  BY <1>1, StagesInvariant, PTL

-----------------------------------------------------------------------------
(* Refinement: a worker claims, works, decides, and moves the run or       *)
(* leaves; all that a handler does in between is work.                     *)

At == [w \in Worker |-> WorkOf(w)]
Moves(w) == pc[w] # "idle" /\ Holds(w)
Movers == {w \in Worker : Moves(w)}
StageOfRun == IF run.outcome = "READY" THEN 3 ELSE run.done + 1
Fate == IF run.outcome = "READY" THEN "COMPLETED" ELSE run.outcome

DeliveryStep == [ResultsDelivery!DeliveryNext]_(ResultsDelivery!deliveryVars)

LEMMA IdleView ==
  ASSUME NEW w \in Worker, pc[w] = "idle"
  PROVE  WorkOf(w) = ResultsDelivery!NoWork /\ ~Moves(w)
BY DEF WorkOf, Moves, ResultsDelivery!NoWork

LEMMA BusyView ==
  ASSUME TypeOK, NEW w \in Worker, pc[w] # "idle"
  PROVE  /\ WorkOf(w) = [stage |-> mem[w].stage + 1, key |-> "STAGE", exit |-> Decision(w)]
         /\ WorkOf(w) # ResultsDelivery!NoWork
         /\ WorkOf(w).exit = Decision(w) /\ WorkOf(w).key = "STAGE"
<1>1. WorkOf(w) = [stage |-> mem[w].stage + 1, key |-> "STAGE", exit |-> Decision(w)]
  BY DEF WorkOf
<1>2. mem[w].stage \in 0 .. 2
  BY DEF TypeOK
<1>3. WorkOf(w).stage = mem[w].stage + 1 /\ ResultsDelivery!NoWork.stage = 0
  BY <1>1 DEF ResultsDelivery!NoWork
<1>4. mem[w].stage + 1 # 0
  BY <1>2
<1> QED
  BY <1>1, <1>3, <1>4

LEMMA WorkerDelivers ==
  ASSUME NEW w \in Worker,
         \/ ResultsDelivery!Start(w, "STAGE")
         \/ ResultsDelivery!Move(w) \/ ResultsDelivery!Leave(w)
         \/ ResultsDelivery!Decide(w, "ONWARDS") \/ ResultsDelivery!Decide(w, "FAILED")
  PROVE  DeliveryStep
<1>1. /\ "STAGE" \in ResultsDelivery!Keys
      /\ "ONWARDS" \in ResultsDelivery!Exits /\ "FAILED" \in ResultsDelivery!Exits
  BY DEF ResultsDelivery!Keys, ResultsDelivery!Exits
<1> QED
  BY <1>1 DEF DeliveryStep, ResultsDelivery!DeliveryNext

(* What is seen of the workers that a step of one leaves as they are.      *)
SeesNoChange(u) == WorkOf(u)' = WorkOf(u) /\ (Moves(u)' <=> Moves(u))

LEMMA Undisturbed ==
  ASSUME NEW u \in Worker, pc'[u] = pc[u], mem'[u] = mem[u], UNCHANGED delivery
  PROVE  SeesNoChange(u)
BY DEF SeesNoChange, WorkOf, Decision, Moves, Holds, delivery

LEMMA UnseenStep ==
  ASSUME UNCHANGED delivery, \A u \in Worker : SeesNoChange(u)
  PROVE  DeliveryStep
<1>1. At' = At /\ Movers' = Movers /\ run' = run
  BY DEF SeesNoChange, At, Movers, delivery
<1> QED
  BY <1>1 DEF At, Movers, Moves, DeliveryStep, ResultsDelivery!deliveryVars

LEMMA AtChanges ==
  ASSUME NEW w \in Worker, \A u \in Worker \ {w} : WorkOf(u)' = WorkOf(u)
  PROVE  At' = [At EXCEPT ![w] = WorkOf(w)']
BY DEF At

(* What a worker does between its claim and its end.                       *)
Works(w) ==
  /\ pc[w] \notin {"idle", "finalizing", "failing"}
  /\ UNCHANGED delivery
  /\ \/ Drop(w)
     \/ /\ pc'[w] # "idle" /\ mem'[w].stage = mem[w].stage
        /\ \A u \in Worker \ {w} : pc'[u] = pc[u] /\ mem'[u] = mem[u]

LEMMA Dropped ==
  ASSUME TypeOK, NEW w \in Worker, Drop(w)
  PROVE  /\ pc'[w] = "idle"
         /\ \A u \in Worker \ {w} : pc'[u] = pc[u] /\ mem'[u] = mem[u]
BY DEF TypeOK, Drop, GoTo

LEMMA LeavesView ==
  ASSUME TypeOK, NEW w \in Worker, pc[w] # "idle", Drop(w), UNCHANGED delivery
  PROVE  DeliveryStep
<1>1. pc'[w] = "idle" /\ \A u \in Worker \ {w} : SeesNoChange(u)
  BY Dropped, Undisturbed
<1>2. WorkOf(w)' = ResultsDelivery!NoWork /\ ~Moves(w)'
  BY <1>1 DEF WorkOf, Moves, ResultsDelivery!NoWork
<1>3. At' = [At EXCEPT ![w] = ResultsDelivery!NoWork]
  BY <1>1, <1>2, AtChanges DEF SeesNoChange
<1>4. Movers' = Movers \ {w}
  BY <1>1, <1>2 DEF Movers, SeesNoChange
<1>5. At[w] # ResultsDelivery!NoWork /\ run' = run
  BY BusyView DEF At, delivery
<1>6. ResultsDelivery!Leave(w)
  BY <1>3, <1>4, <1>5 DEF At, Movers, Moves, ResultsDelivery!Leave
<1> QED
  BY <1>6, WorkerDelivers

LEMMA WorksView ==
  ASSUME TypeOK, NEW w \in Worker, Works(w)
  PROVE  DeliveryStep
<1>1. pc[w] # "idle" /\ Decision(w) = "NONE" /\ run' = run /\ owner' = owner
  BY DEF Works, Decision, delivery
<1>2. CASE Drop(w)
  BY <1>1, <1>2, LeavesView DEF Works
<1>3. CASE ~Drop(w)
  <2>1. /\ pc'[w] # "idle" /\ mem'[w].stage = mem[w].stage
        /\ \A u \in Worker \ {w} : SeesNoChange(u)
    BY <1>3, Undisturbed DEF Works
  <2>2. Moves(w)' <=> Moves(w)
    BY <1>1, <2>1 DEF Moves, Holds
  <2>3. WorkOf(w) = [stage |-> mem[w].stage + 1, key |-> "STAGE", exit |-> "NONE"]
    BY <1>1, BusyView
  <2>4. WorkOf(w)' = [stage |-> mem[w].stage + 1, key |-> "STAGE", exit |-> Decision(w)']
    BY <2>1 DEF WorkOf
  <2>5. CASE pc'[w] \notin {"finalizing", "failing"}
    <3>1. Decision(w)' = "NONE"
      BY <2>5 DEF Decision
    <3>2. SeesNoChange(w)
      BY <2>2, <2>3, <2>4, <3>1 DEF SeesNoChange
    <3> QED
      BY <1>1, <2>1, <3>2, UnseenStep DEF delivery
  <2>6. CASE pc'[w] \in {"finalizing", "failing"}
    <3>1. PICK exit \in {"ONWARDS", "FAILED"} : Decision(w)' = exit
      BY <2>6 DEF Decision
    <3>2. WorkOf(w)' = [WorkOf(w) EXCEPT !.exit = exit]
      BY <2>3, <2>4, <3>1
    <3>3. At[w] = WorkOf(w) /\ At' = [At EXCEPT ![w] = WorkOf(w)']
      BY <2>1, AtChanges DEF At, SeesNoChange
    <3>4. At' = [At EXCEPT ![w].exit = exit]
      BY <3>2, <3>3
    <3>5. Movers' = Movers
      BY <2>1, <2>2 DEF Movers, SeesNoChange
    <3>6. At[w] # ResultsDelivery!NoWork /\ At[w].exit = "NONE"
      BY <1>1, <3>3, BusyView
    <3>7. ResultsDelivery!Decide(w, exit)
      BY <1>1, <3>1, <3>4, <3>5, <3>6 DEF At, Movers, Moves, ResultsDelivery!Decide
    <3> QED
      BY <3>1, <3>7, WorkerDelivers
  <2> QED
    BY <2>5, <2>6
<1> QED
  BY <1>2, <1>3

LEMMA ClaimView ==
  ASSUME TypeOK, NEW w \in Worker, Claim(w)
  PROVE  DeliveryStep
<1> DEFINE held == [NoMem EXCEPT !.stage = run.done]
<1>1. held.stage = run.done
  BY DEF NoMem
<1>2. mem' = [mem EXCEPT ![w] = held]
  BY DEF Claim
<1> HIDE DEF held
<1>3. /\ pc[w] = "idle" /\ pc'[w] = "claimed" /\ mem'[w] = held
      /\ run.outcome = "RUNNING" /\ run' = run /\ owner' = w
      /\ \A u \in Worker \ {w} : pc'[u] = pc[u] /\ mem'[u] = mem[u]
  BY <1>2 DEF Claim, GoTo, TypeOK
<1>4. ASSUME NEW u \in Worker \ {w}
      PROVE  WorkOf(u)' = WorkOf(u) /\ ~Moves(u)'
  BY <1>3 DEF WorkOf, Decision, Moves, Holds
<1>5. WorkOf(w)' = [stage |-> run.done + 1, key |-> "STAGE", exit |-> "NONE"]
  BY <1>1, <1>3 DEF WorkOf, Decision
<1>6. At' = [At EXCEPT ![w] = [stage |-> StageOfRun, key |-> "STAGE", exit |-> "NONE"]]
  BY <1>3, <1>4, <1>5, AtChanges DEF StageOfRun
<1>7. Moves(w)' /\ At[w] = ResultsDelivery!NoWork
  BY <1>1, <1>3, IdleView DEF Moves, Holds, At
<1>8. Movers' = {x \in Movers : At[x].key # "STAGE"} \union {w}
  <2>1. ASSUME NEW x \in Movers PROVE At[x].key = "STAGE"
    BY BusyView DEF Movers, Moves, At
  <2> QED
    BY <1>4, <1>7, <2>1 DEF Movers
<1>9. ResultsDelivery!Start(w, "STAGE")
  BY <1>3, <1>6, <1>7, <1>8
     DEF At, Movers, Moves, StageOfRun, ResultsDelivery!Start
<1> QED
  BY <1>9, WorkerDelivers

(* Only who holds the claim moves the run; then nobody does.               *)
LEMMA MoveView ==
  ASSUME TypeOK, NEW w \in Worker, Finalize(w) \/ Fail(w)
  PROVE  DeliveryStep
<1>1. pc[w] # "idle" /\ Drop(w) /\ (Holds(w) \/ UNCHANGED delivery)
  BY DEF Finalize, Fail, MoveRun
<1>2. CASE ~Holds(w)
  BY <1>1, <1>2, LeavesView
<1>3. CASE Holds(w)
  <2>1. /\ owner' = Nobody /\ run.outcome = "RUNNING" /\ run.done = mem[w].stage
        /\ run.done \in 0 .. 2
    BY <1>3 DEF Finalize, Fail, MoveRun, Holds, TypeOK
  <2>2. pc'[w] = "idle" /\ \A u \in Worker \ {w} : pc'[u] = pc[u] /\ mem'[u] = mem[u]
    BY <1>1, Dropped
  <2>3. Movers' = {} /\ w \in Movers
    BY <1>1, <1>3, <2>1, NobodyAssumption DEF Movers, Moves, Holds
  <2>4. At' = [At EXCEPT ![w] = ResultsDelivery!NoWork] /\ At[w] = WorkOf(w)
    <3>1. \A u \in Worker \ {w} : WorkOf(u)' = WorkOf(u)
      BY <2>2 DEF WorkOf, Decision
    <3>2. WorkOf(w)' = ResultsDelivery!NoWork
      BY <2>2 DEF WorkOf, ResultsDelivery!NoWork
    <3> QED
      BY <3>1, <3>2, AtChanges DEF At
  <2>5. At[w].exit = Decision(w)
    BY <1>1, <2>4, BusyView
  <2>6. StageOfRun = run.done + 1 /\ Fate = "RUNNING"
    BY <2>1 DEF StageOfRun, Fate
  <2>7. CASE pc[w] = "finalizing"
    <3>1. run' = [done |-> run.done + 1,
                  outcome |-> IF run.done = 2 THEN "READY" ELSE "RUNNING"]
      BY <1>3, <2>7 DEF Finalize, Fail, MoveRun
    <3>2. ResultsDelivery!MoveOnwards
      <4>1. CASE run.done = 2
        <5>1. StageOfRun = 3 /\ StageOfRun' = 3 /\ Fate' = "COMPLETED"
          BY <2>6, <3>1, <4>1 DEF StageOfRun, Fate
        <5> QED
          BY <5>1 DEF StageOfRun, Fate, ResultsDelivery!MoveOnwards
      <4>2. CASE run.done # 2
        <5>1. StageOfRun # 3 /\ StageOfRun' = StageOfRun + 1 /\ Fate' = Fate
          BY <2>1, <2>6, <3>1, <4>2 DEF StageOfRun, Fate
        <5> QED
          BY <5>1 DEF StageOfRun, Fate, ResultsDelivery!MoveOnwards
      <4> QED
        BY <4>1, <4>2
    <3>3. Decision(w) = "ONWARDS"
      BY <2>7 DEF Decision
    <3> QED
      BY <2>3, <2>4, <2>5, <3>2, <3>3, WorkerDelivers
         DEF At, Movers, Moves, ResultsDelivery!Move
  <2>8. CASE pc[w] = "failing"
    <3>1. run'.outcome = "FAILED" /\ run'.done = run.done
      BY <1>3, <2>8 DEF Finalize, Fail, MoveRun, TypeOK
    <3>2. Decision(w) = "FAILED"
      BY <2>8 DEF Decision
    <3>3. StageOfRun' = StageOfRun /\ Fate' = "FAILED"
      BY <2>6, <3>1 DEF StageOfRun, Fate
    <3>4. ResultsDelivery!MoveToEnd(At[w].exit)
      BY <2>5, <3>2, <3>3 DEF StageOfRun, Fate, ResultsDelivery!MoveToEnd
    <3> QED
      BY <2>3, <2>4, <2>5, <3>2, <3>4, WorkerDelivers
         DEF At, Movers, Moves, ResultsDelivery!Move
  <2> QED
    BY <2>7, <2>8 DEF Finalize, Fail
<1> QED
  BY <1>2, <1>3

-----------------------------------------------------------------------------
(* All that a handler does is work.                                        *)

LEMMA GoesOn ==
  ASSUME TypeOK, NEW w \in Worker, NEW place \in Phases \ {"idle"},
         pc[w] \notin {"idle", "finalizing", "failing"}, UNCHANGED delivery,
         GoTo(w, place),
         mem'[w].stage = mem[w].stage, \A u \in Worker \ {w} : mem'[u] = mem[u]
  PROVE  Works(w)
<1>1. pc'[w] = place /\ \A u \in Worker \ {w} : pc'[u] = pc[u]
  BY DEF GoTo, TypeOK
<1> QED
  BY <1>1 DEF Works

LEMMA ChecksView ==
  ASSUME TypeOK, NEW w \in Worker, NEW from, NEW next \in Phases \ {"idle"},
         from \notin {"idle", "finalizing", "failing"}, Checkpoint(w, from, next)
  PROVE  Works(w)
<1>1. CASE Drop(w)
  BY <1>1 DEF Checkpoint, OnlyWorker, Works
<1>2. CASE ~Drop(w)
  BY <1>2, GoesOn DEF Checkpoint, OnlyWorker
<1> QED
  BY <1>1, <1>2

(* The steps of a worker that keep in memory what is none of its stage.    *)
LEMMA Writes ==
  ASSUME TypeOK, NEW w \in Worker, NEW a,
         \/ mem' = mem
         \/ mem' = [mem EXCEPT ![w] = [mem[w] EXCEPT !.select = a]]
         \/ mem' = [mem EXCEPT ![w] = [mem[w] EXCEPT !.copy = a]]
         \/ mem' = [mem EXCEPT ![w] = [mem[w] EXCEPT !.verify = a]]
         \/ mem' = [mem EXCEPT ![w].source = a]
         \/ mem' = [mem EXCEPT ![w].result = a]
  PROVE  mem'[w].stage = mem[w].stage /\ \A u \in Worker \ {w} : mem'[u] = mem[u]
<1> DEFINE Held == [stage : 0 .. 2, select : Pass, copy : Pass, verify : Pass,
                    source : Result, result : Result]
<1>1. mem \in [Worker -> Held]
  BY DEF TypeOK
<1>2. CASE mem' = [mem EXCEPT ![w] = [mem[w] EXCEPT !.select = a]]
  BY <1>1, <1>2
<1>3. CASE mem' = [mem EXCEPT ![w] = [mem[w] EXCEPT !.copy = a]]
  BY <1>1, <1>3
<1>4. CASE mem' = [mem EXCEPT ![w] = [mem[w] EXCEPT !.verify = a]]
  BY <1>1, <1>4
<1>5. CASE mem' = [mem EXCEPT ![w].source = a]
  BY <1>1, <1>5
<1>6. CASE mem' = [mem EXCEPT ![w].result = a]
  BY <1>1, <1>6
<1> QED
  BY <1>2, <1>3, <1>4, <1>5, <1>6

LEMMA SnapshotView ==
  ASSUME StagesInv, NEW w \in Worker, TakeSnapshot(w)
  PROVE  Works(w)
<1>0. TypeOK
  BY DEF StagesInv
<1>1. CASE ExistingSnapshot(w)
  BY <1>0, <1>1, Writes, GoesOn DEF ExistingSnapshot, OnlyWorker, Phases, Collecting
<1>2. CASE ReadFile(w)
  <2>1. pc[w] \in Collecting /\ UNCHANGED delivery
    BY <1>2 DEF ReadFile, OnlyWorker
  <2>2. mem'[w].stage = mem[w].stage /\ \A u \in Worker \ {w} : mem'[u] = mem[u]
    BY <1>0, <1>2, <2>1, ReadFileWrites, Writes DEF Collecting
  <2>3. PICK place \in {"select", "selected", "copy", "verify", "publish"} :
          GoTo(w, place)
    BY <1>2, <2>1, ReadFileWrites DEF Collecting, GoTo
  <2> QED
    BY <1>0, <2>1, <2>2, <2>3, GoesOn DEF Phases, Collecting
<1>3. CASE Selected(w)
  BY <1>0, <1>3, ChecksView DEF Selected, Phases, Collecting
<1>4. CASE Publish(w)
  BY <1>0, <1>4, GoesOn DEF Publish, Phases, Collecting
<1>5. CASE SaveSnapshot(w)
  <2>1. /\ UNCHANGED delivery /\ pc[w] = "save"
        /\ \/ \E a : mem' = [mem EXCEPT ![w].source = a]
           \/ mem' = mem
        /\ GoTo(w, "saved") \/ GoTo(w, "failing")
    BY <1>5 DEF SaveSnapshot
  <2>2. mem'[w].stage = mem[w].stage /\ \A u \in Worker \ {w} : mem'[u] = mem[u]
    BY <1>0, <2>1, Writes
  <2> QED
    BY <1>0, <2>1, <2>2, GoesOn DEF Phases, Collecting
<1>6. CASE Saved(w)
  BY <1>0, <1>6, ChecksView DEF Saved, Phases, Collecting
<1> QED
  BY <1>1, <1>2, <1>3, <1>4, <1>5, <1>6 DEF TakeSnapshot

LEMMA ResultView ==
  ASSUME TypeOK, NEW w \in Worker, Begin(w) \/ DeriveResult(w) \/ Returned(w)
  PROVE  Works(w)
<1>1. CASE Begin(w)
  <2>1. (IF mem[w].stage = 0 THEN "existing" ELSE "lookup") \in Phases \ {"idle"}
    BY DEF Phases, Collecting
  <2> QED
    BY <1>1, <2>1, ChecksView DEF Begin
<1>2. CASE Lookup(w)
  <2>1. PICK place \in {"returned", "failing", "compute"} : GoTo(w, place)
    BY <1>2 DEF Lookup
  <2> QED
    BY <1>2, <2>1, GoesOn DEF Lookup, OnlyWorker, Phases, Collecting
<1>3. CASE Compute(w)
  <2>1. PICK place \in {"failing", "computed"} : GoTo(w, place)
    BY <1>3 DEF Compute
  <2> QED
    BY <1>3, <2>1, Writes, GoesOn DEF Compute, OnlyWorker, Phases, Collecting
<1>4. CASE Computed(w)
  BY <1>4, ChecksView DEF Computed, Phases, Collecting
<1>5. CASE StoreResult(w)
  BY <1>5, GoesOn DEF StoreResult, Phases, Collecting
<1>6. CASE Returned(w)
  BY <1>6, ChecksView DEF Returned, Phases, Collecting
<1> QED
  BY <1>1, <1>2, <1>3, <1>4, <1>5, <1>6 DEF DeriveResult

-----------------------------------------------------------------------------

LEMMA NextDelivers ==
  ASSUME StagesInv, [Next]_vars
  PROVE  DeliveryStep
<1>0. TypeOK
  BY DEF StagesInv
<1>1. ASSUME NEW w \in Worker, Work(w) PROVE DeliveryStep
  <2>1. CASE Crash(w)
    BY <1>0, <2>1, LeavesView DEF Crash, OnlyWorker
  <2> QED
    BY <1>0, <1>1, <2>1, ClaimView, SnapshotView, ResultView, WorksView, MoveView
       DEF Work
<1>2. CASE (\E f \in File : Edit(f)) \/ UNCHANGED vars
  <2>1. UNCHANGED <<delivery, pc, mem>>
    BY <1>2 DEF Edit, vars
  <2> QED
    BY <2>1, Undisturbed, UnseenStep
<1> QED
  BY <1>1, <1>2 DEF Next

LEMMA InitDelivers ==
  ASSUME Init
  PROVE  ResultsDelivery!DeliveryInit
<1>1. \A w \in Worker : WorkOf(w) = ResultsDelivery!NoWork /\ ~Moves(w)
  BY IdleView DEF Init
<1> QED
  BY <1>1 DEF Init, Moves, ResultsDelivery!DeliveryInit

(* The handlers that keep one result each start, decide, move the run and  *)
(* lose it as StageDelivery allows and in no other way, while the          *)
(* repository is edited and other workers are at the same stage.           *)
THEOREM ResultsDeliveryRefinement == Spec => ResultsDelivered
<1>1. Init => ResultsDelivery!DeliveryInit
  BY InitDelivers
<1>2. StagesInv /\ [Next]_vars =>
        [ResultsDelivery!DeliveryNext]_(ResultsDelivery!deliveryVars)
  BY NextDelivers DEF DeliveryStep
<1> QED
  BY <1>1, <1>2, StagesInvariant, PTL
     DEF Spec, ResultsDelivered, ResultsDelivery!DeliverySpec
=============================================================================
