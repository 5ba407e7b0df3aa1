------------------------- MODULE RunExecutionProofs -------------------------
(***************************************************************************)
(* Proofs about RunExecution, for any number of workers, any main path and *)
(* any bounds.  Inv is the inductive invariant: the type, one conjunct     *)
(* for each relation the properties need between the run row, its events,  *)
(* its step rows and what the workers remember of their claims.            *)
(* CurrentInv adds what DeliveryRefinement needs: that what a row or a     *)
(* worker was claimed for fits the run, as long as the run is still there. *)
(***************************************************************************)
EXTENDS RunExecution, SequenceTheorems, TLAPS

(* An unfinished run has a next stage on the main path.                    *)
StateInv ==
  /\ ~Terminal(run.state) =>
       run.version < PathLength /\ run.state = MainStatePath[run.version]
  /\ run.state = "COMPLETED" => run.version = PathLength

(* A running row still names the target it was claimed for; a finished one *)
(* produced the version after the one it was claimed at.  Only the         *)
(* reconciler writes its own row, and it ends the run with it.             *)
RowInv ==
  /\ \A k \in StepKeys :
       /\ steps[k].status = "RUNNING" => k # "RECOVERY" /\ steps[k].to = k
       /\ steps[k].status \in FinishedStatuses =>
            /\ steps[k].resulting = steps[k].expected + 1
            /\ steps[k].resulting \in 2 .. run.version
            /\ steps[k].to \in RunState
            /\ steps[k].resulting = run.version => steps[k].to = run.state
  /\ steps["RECOVERY"].status # "ABSENT" => Terminal(run.state)

ProducerInv ==
  /\ \A n \in 2 .. run.version : \E k \in StepKeys : Produced(k, n)
  /\ \A j, k \in StepKeys :
       /\ steps[j].status \in FinishedStatuses
       /\ steps[k].status \in FinishedStatuses
       /\ steps[j].resulting = steps[k].resulting
       => j = k

(* A worker remembers the version its row was inserted for; no two workers *)
(* hold the same token of a row.                                           *)
ClaimInv ==
  /\ \A w \in Worker :
       /\ pc[w] # "idle" => claim[w].key \in ClaimKeys
       /\ Claimed(w) => /\ steps[claim[w].key].status # "ABSENT"
                        /\ claim[w].version = steps[claim[w].key].expected
  /\ \A w1, w2 \in Worker :
       Claimed(w1) /\ Claimed(w2) /\ claim[w1].key = claim[w2].key
         /\ claim[w1].token = claim[w2].token => w1 = w2

Inv ==
  /\ TypeOK
  /\ StateInv /\ OneEventPerVersion
  /\ RowInv /\ ProducerInv
  /\ ClaimInv

-----------------------------------------------------------------------------
(* Facts about the main path.                                              *)

(* The main path is a function into RunState, without repetition.          *)
LEMMA PathFacts ==
  /\ PathLength \in Nat /\ PathLength >= 2
  /\ Version # {} /\ Version \subseteq Nat /\ 1 \in Version
  /\ \A i \in Version : MainStatePath[i] \in RunState
  /\ \A i, j \in Version : MainStatePath[i] = MainStatePath[j] => i = j
  /\ MainStatePath[PathLength] = "COMPLETED"
BY PathAssumption DEF PathLength, Version, RunState, MainStates

(* No state of the main path but the last is terminal.                     *)
LEMMA StagesAreOpen ==
  \A i \in 1 .. PathLength - 1 :
    ~Terminal(MainStatePath[i]) /\ MainStatePath[i] \in OpenStates
<1> SUFFICES ASSUME NEW i \in 1 .. PathLength - 1
             PROVE  ~Terminal(MainStatePath[i]) /\ MainStatePath[i] \in OpenStates
  OBVIOUS
<1>1. i \in Version /\ PathLength \in Version /\ i # PathLength
  BY PathFacts DEF Version
<1>2. MainStatePath[i] # "COMPLETED"
  BY <1>1, PathFacts
<1>3. MainStatePath[i] \notin OutsidePath
  BY <1>1, PathAssumption DEF PathLength, Version
<1> QED
  BY <1>1, <1>2, <1>3, PathFacts
     DEF Terminal, TerminalStates, OpenStates, OutsidePath

(* The keys of the cancellation and of the recovery are no stage's key.    *)
LEMMA KeyFacts ==
  /\ \A k \in StageKeys : \E i \in 2 .. PathLength : k = MainStatePath[i]
  /\ StageKeys \intersect (OutsidePath \union {"RECOVERY", "NONE"}) = {}
  /\ StageKeys \subseteq RunState
  /\ ClaimKeys \subseteq RunState
  /\ "RECOVERY" \notin ClaimKeys
  /\ ClaimKeys \subseteq StepKeys /\ "RECOVERY" \in StepKeys
<1>1. \A k \in StageKeys : \E i \in 2 .. PathLength : k = MainStatePath[i]
  BY DEF StageKeys
<1>2. \A i \in 2 .. PathLength :
        i \in Version /\ MainStatePath[i] \notin OutsidePath \union {"RECOVERY", "NONE"}
  BY PathFacts, PathAssumption DEF PathLength, Version
<1>3. StageKeys \intersect (OutsidePath \union {"RECOVERY", "NONE"}) = {}
  BY <1>1, <1>2
<1>4. StageKeys \subseteq RunState
  BY <1>1, <1>2, PathFacts
<1>5. ClaimKeys \subseteq RunState
  BY <1>4 DEF ClaimKeys, RunState, OutsidePath
<1> QED
  BY <1>1, <1>3, <1>4, <1>5 DEF ClaimKeys, StepKeys, OutsidePath

(* A finished run makes no transition (AuditRun.transition refuses).       *)
LEMMA TerminalIsFinal ==
  ASSUME NEW state, Terminal(state)
  PROVE  \A target : ~CanTransition(state, target)
<1>1. \A next : ~IsNextMainState(state, next)
  BY StagesAreOpen DEF IsNextMainState
<1>2. state # MainStatePath[PathLength - 1] /\ state # "AWAITING_APPROVAL"
  <2>1. PathLength - 1 \in 1 .. PathLength - 1
    BY PathFacts
  <2> QED
    BY <2>1, StagesAreOpen DEF Terminal, TerminalStates
<1> QED
  BY <1>1, <1>2 DEF CanTransition, IsApprovalEdge

(* From a stage of the main path a claimed target is the next stage or the *)
(* cancellation.                                                           *)
LEMMA ClaimedTransition ==
  ASSUME NEW v \in 1 .. PathLength - 1, NEW target \in ClaimKeys,
         CanTransition(MainStatePath[v], target)
  PROVE  \/ target = MainStatePath[v + 1]
         \/ target = "CANCELLED"
<1>1. CASE IsNextMainState(MainStatePath[v], target)
  <2>1. PICK i \in 1 .. PathLength - 1 :
          MainStatePath[i] = MainStatePath[v] /\ MainStatePath[i + 1] = target
    BY <1>1 DEF IsNextMainState
  <2>2. i = v
    BY <2>1, PathFacts DEF Version
  <2> QED
    BY <2>1, <2>2
<1>2. CASE target \in {"AWAITING_APPROVAL", "APPROVED", "REJECTED", "FAILED"}
  BY <1>2, KeyFacts DEF ClaimKeys, OutsidePath
<1> QED
  BY <1>1, <1>2 DEF CanTransition, IsApprovalEdge

-----------------------------------------------------------------------------
(* Type correctness.                                                       *)

(* The initial state is well typed.                                        *)
LEMMA InitTypeOK == Init => TypeOK
<1> SUFFICES ASSUME Init PROVE TypeOK
  OBVIOUS
<1>1. run \in [state : RunState, version : Version, cancel : BOOLEAN]
  BY PathFacts DEF Init
<1>2. steps \in [StepKeys -> Rows] /\ inserted \in Nat
  BY DEF Init, NoRow, Rows
<1>3. events \in [Version -> Events]
  <2>1. MainStatePath[1] \in OpenStates /\ 0 \in 0 .. MaxAttempts
    BY PathFacts, StagesAreOpen, BoundAssumption
  <2>2. NewEvent(MainStatePath[1]) \in Events /\ NoEvent \in Events
    BY <2>1 DEF NewEvent, NoEvent, Events
  <2> QED
    BY <2>2 DEF Init
<1>4. broker \subseteq Version /\ recon \in {0} \union Version
  BY DEF Init
<1>5. pc \in [Worker -> Phases] /\ claim \in [Worker -> Claims]
  BY DEF Init, Phases, NoClaim, Claims
<1> QED
  BY <1>1, <1>2, <1>3, <1>4, <1>5 DEF TypeOK

(* The fields of what TypeOK says.                                         *)
LEMMA Fields ==
  ASSUME TypeOK
  PROVE  /\ run.state \in RunState /\ run.version \in Version
         /\ run.cancel \in BOOLEAN
         /\ \A k \in StepKeys : steps[k] \in Rows
         /\ \A v \in Version : events[v] \in Events
         /\ \A w \in Worker : claim[w] \in Claims /\ pc[w] \in Phases
         /\ \A w \in Worker : pc[w] # "idle" => claim[w].key \in StepKeys \union {"NONE"}
BY DEF TypeOK, Claims

(* Renewing or ending a lease changes no other field of the row.           *)
LEMMA LeasedRow ==
  ASSUME NEW row \in Rows, NEW b \in BOOLEAN
  PROVE  LET new == [row EXCEPT !.leased = b] IN
         /\ new \in Rows
         /\ new.status = row.status /\ new.to = row.to
         /\ new.expected = row.expected /\ new.resulting = row.resulting
         /\ new.token = row.token
BY DEF Rows

(* A reclaimed row has its new token and otherwise what it had.            *)
LEMMA ReclaimedRow ==
  ASSUME NEW row \in Rows, NEW t \in Token
  PROVE  LET new == [row EXCEPT !.token = t, !.leased = TRUE] IN
         /\ new \in Rows
         /\ new.status = row.status /\ new.to = row.to
         /\ new.expected = row.expected /\ new.resulting = row.resulting
         /\ new.token = t
BY DEF Rows

(* What complete and fail leave of a row.                                  *)
LEMMA FinishedRowFacts ==
  ASSUME NEW row \in Rows, NEW status \in FinishedStatuses,
         NEW state \in RunState, NEW n \in Nat
  PROVE  LET new == FinishedRow(row, status, state, n) IN
         /\ new \in Rows
         /\ new.status = status /\ new.to = state /\ new.resulting = n
         /\ new.expected = row.expected /\ new.token = row.token
BY DEF Rows, FinishedRow

(* An attempt counted stays within the bound.                              *)
LEMMA AttemptedType ==
  \A n \in 0 .. MaxAttempts : Attempted(n) \in 0 .. MaxAttempts
BY BoundAssumption DEF Attempted

(* Dropping a delivery or going to a phase keeps the types of a worker.    *)
LEMMA DropType ==
  ASSUME TypeOK, NEW w \in Worker, Drop(w)
  PROVE  pc' \in [Worker -> Phases] /\ claim' \in [Worker -> Claims]
<1>1. "idle" \in Phases /\ NoClaim \in Claims
  BY DEF Phases, NoClaim, Claims
<1> QED
  BY <1>1 DEF Drop, TypeOK

(* Going to a phase keeps the type of pc.                                  *)
LEMMA GoToType ==
  ASSUME TypeOK, NEW w \in Worker, NEW phase \in Phases, GoTo(w, phase)
  PROVE  pc' \in [Worker -> Phases]
BY DEF GoTo, TypeOK

(* Taking a claim keeps the type of the workers' copies.                   *)
LEMMA TakeClaimType ==
  ASSUME TypeOK, NEW w \in Worker, NEW row \in Rows, TakeClaim(w, row)
  PROVE  claim' \in [Worker -> Claims]
<1> DEFINE taken == [claim[w] EXCEPT !.version = row.expected, !.token = row.token]
<1>1. claim \in [Worker -> Claims] /\ claim[w] \in Claims
  BY DEF TypeOK
<1>2. row.expected \in Nat /\ row.token \in Token \union {NoToken}
  BY DEF Rows
<1>3. taken \in Claims
  BY <1>1, <1>2 DEF Claims
<1>4. claim' = [claim EXCEPT ![w] = taken]
  BY <1>1 DEF TakeClaim
<1> HIDE DEF taken
<1> QED
  BY <1>1, <1>3, <1>4

(* Every action of a worker before it writes the outcome keeps the types.  *)
LEMMA ClaimingTypeOK ==
  ASSUME TypeOK, ClaimInv, NEW w \in Worker,
         \/ \E v \in Version : ReadRun(w, v)
         \/ ClaimNewStep(w) \/ ReclaimStep(w) \/ ClaimRefused(w)
  PROVE  TypeOK'
<1>1. ASSUME NEW v \in Version, ReadRun(w, v) PROVE TypeOK'
  <2>1. PICK target \in ClaimKeys :
          claim' = [claim EXCEPT ![w] = [version |-> v, key |-> target,
                                         token |-> NoToken,
                                         cancel |-> run.cancel]]
    BY <1>1 DEF ReadRun
  <2>2. claim' \in [Worker -> Claims]
    BY <2>1, PathFacts, KeyFacts DEF TypeOK, Claims
  <2>3. pc' \in [Worker -> Phases]
    BY <1>1 DEF ReadRun, GoTo, TypeOK, Phases
  <2> QED
    BY <1>1, <2>2, <2>3 DEF ReadRun, TypeOK, runVars
<1>2. CASE ClaimNewStep(w)
  <2>1. claim[w].key \in ClaimKeys /\ claim[w].version \in Nat
    BY <1>2 DEF ClaimNewStep, ClaimInv, TypeOK, Claims
  <2>2. PICK row \in Rows : TakeClaim(w, row)
    <3>1. \A t \in Token :
            [status |-> "RUNNING", to |-> claim[w].key,
             expected |-> claim[w].version, resulting |-> 0,
             token |-> t, leased |-> TRUE, started |-> inserted + 1] \in Rows
      BY <2>1, KeyFacts DEF Rows, TypeOK
    <3> QED
      BY <1>2, <3>1 DEF ClaimNewStep, FreshTokens
  <2>3. steps' \in [StepKeys -> Rows]
    BY <2>2 DEF TakeClaim, TypeOK
  <2>4. claim' \in [Worker -> Claims]
    BY <2>2, TakeClaimType
  <2>5. pc' \in [Worker -> Phases]
    BY <2>2 DEF TakeClaim, GoTo, TypeOK, Phases
  <2> QED
    BY <1>2, <2>3, <2>4, <2>5 DEF ClaimNewStep, TypeOK
<1>3. CASE ReclaimStep(w)
  <2>1. claim[w].key \in StepKeys
    BY <1>3, KeyFacts DEF ReclaimStep, ClaimInv
  <2>2. PICK row \in Rows : TakeClaim(w, row)
    <3>1. steps[claim[w].key] \in Rows
      BY <2>1 DEF TypeOK
    <3>2. \A t \in Token :
            [steps[claim[w].key] EXCEPT !.token = t, !.leased = TRUE] \in Rows
      BY <3>1, ReclaimedRow
    <3> QED
      BY <1>3, <3>2 DEF ReclaimStep, FreshTokens
  <2>3. steps' \in [StepKeys -> Rows]
    BY <2>2 DEF TakeClaim, TypeOK
  <2>4. claim' \in [Worker -> Claims]
    BY <2>2, TakeClaimType
  <2>5. pc' \in [Worker -> Phases]
    BY <2>2 DEF TakeClaim, GoTo, TypeOK, Phases
  <2> QED
    BY <1>3, <2>3, <2>4, <2>5 DEF ReclaimStep, TypeOK
<1>4. CASE ClaimRefused(w)
  BY <1>4, DropType DEF ClaimRefused, TypeOK, runVars
<1> QED
  BY <1>1, <1>2, <1>3, <1>4

(* A checkpoint or the read before a write.                                *)
LEMMA CheckpointTypeOK ==
  ASSUME TypeOK, ClaimInv, NEW w \in Worker, NEW next \in Phases,
         NEW cancelled \in SUBSET Phases,
         pc[w] # "idle", Checkpoint(w, next, cancelled)
  PROVE  TypeOK'
<1>1. CASE ~Holds(w)
  <2>1. Drop(w) /\ UNCHANGED <<runVars, broker, recon>>
    BY <1>1 DEF Checkpoint
  <2> QED
    BY <2>1, DropType DEF TypeOK, runVars
<1>2. CASE Holds(w)
  <2>1. claim[w].key \in StepKeys
    BY KeyFacts DEF ClaimInv
  <2>2. steps' = [steps EXCEPT ![claim[w].key].leased = TRUE]
    BY <1>2 DEF Checkpoint
  <2>3. steps' \in [StepKeys -> Rows]
    <3>1. [steps[claim[w].key] EXCEPT !.leased = TRUE] \in Rows
      BY <2>1, LeasedRow DEF TypeOK
    <3> QED
      BY <2>2, <3>1 DEF TypeOK
  <2>4. pc' \in [Worker -> Phases] /\ claim' \in [Worker -> Claims]
    <3>1. CASE Drop(w)
      BY <3>1, DropType
    <3>2. ASSUME NEW phase \in IF run.cancel THEN cancelled ELSE {next},
                 GoTo(w, phase), claim' = claim
          PROVE  pc' \in [Worker -> Phases] /\ claim' \in [Worker -> Claims]
      BY <3>2, GoToType DEF TypeOK
    <3> QED
      BY <1>2, <3>1, <3>2 DEF Checkpoint
  <2> QED
    BY <1>2, <2>3, <2>4 DEF Checkpoint, TypeOK
<1> QED
  BY <1>1, <1>2

(* The reads of a stage and the ways its delivery ends without a write.    *)
LEMMA ExecutingTypeOK ==
  ASSUME TypeOK, ClaimInv, NEW w \in Worker,
         \/ Begin(w) \/ Beat(w) \/ HandlerReturns(w) \/ HandlerFails(w)
         \/ FinalizeRead(w) \/ FailRead(w) \/ WriteLost(w) \/ Crash(w)
  PROVE  TypeOK'
<1>1. CASE Begin(w) \/ Beat(w) \/ HandlerReturns(w)
  <2>1. PICK next \in Phases, cancelled \in SUBSET Phases :
          pc[w] # "idle" /\ Checkpoint(w, next, cancelled)
    BY <1>1 DEF Begin, Beat, HandlerReturns, CleanedUp, Phases
  <2> QED
    BY <2>1, CheckpointTypeOK
<1>2. CASE HandlerFails(w)
  BY <1>2 DEF HandlerFails, GoTo, Phases, TypeOK, runVars
<1>3. CASE FinalizeRead(w) \/ FailRead(w)
  <2>1. PICK from \in Phases, to \in Phases : ReadForWrite(w, from, to)
    BY <1>3 DEF FinalizeRead, FailRead, Phases
  <2>2. pc' \in [Worker -> Phases]
    BY <2>1, DropType, GoToType DEF ReadForWrite
  <2>3. claim' \in [Worker -> Claims]
    <3>1. CASE claim' = [claim EXCEPT ![w].cancel = run.cancel]
      BY <3>1 DEF Claims, TypeOK
    <3> QED
      BY <2>1, <3>1, DropType DEF ReadForWrite
  <2> QED
    BY <2>1, <2>2, <2>3 DEF ReadForWrite, TypeOK, runVars
<1>4. CASE WriteLost(w) \/ Crash(w)
  BY <1>4, DropType DEF WriteLost, Crash, TypeOK, runVars
<1> QED
  BY <1>1, <1>2, <1>3, <1>4

(* Cancellation, delivery, leases and the reconciler's lock.               *)
LEMMA SurroundingsTypeOK ==
  ASSUME TypeOK,
         \/ \E k \in StepKeys : LeaseExpires(k)
         \/ Cancel \/ Deliver
         \/ \E v \in Version : ReconcileLock(v)
         \/ ReconcileReopen \/ ReconcileReleases
  PROVE  TypeOK'
<1>1. ASSUME NEW k \in StepKeys, LeaseExpires(k) PROVE TypeOK'
  <2>1. [steps[k] EXCEPT !.leased = FALSE] \in Rows
    BY LeasedRow DEF TypeOK
  <2> QED
    BY <1>1, <2>1 DEF LeaseExpires, TypeOK
<1>2. ASSUME NEW v \in Version, NEW b \in BOOLEAN,
             events' = [events EXCEPT ![v].published = b]
      PROVE  events' \in [Version -> Events]
  BY <1>2 DEF TypeOK, Events
<1>3. ASSUME NEW v \in Version, NEW b \in BOOLEAN,
             events' = [events EXCEPT ![v].published = b,
                                      ![v].attempts = Attempted(@)]
      PROVE  events' \in [Version -> Events]
  <2> DEFINE tried == [events[v] EXCEPT !.published = b, !.attempts = Attempted(@)]
  <2>1. events \in [Version -> Events] /\ events[v] \in Events
    BY DEF TypeOK
  <2>2. Attempted(events[v].attempts) \in 0 .. MaxAttempts
    BY <2>1, AttemptedType DEF Events
  <2>3. tried \in Events
    BY <2>1, <2>2 DEF Events
  <2>4. events' = [events EXCEPT ![v] = tried]
    BY <1>3, <2>1 DEF Events
  <2> HIDE DEF tried
  <2> QED
    BY <2>1, <2>3, <2>4
<1>4. ASSUME NEW v \in Version, events' = [events EXCEPT ![v].attempts = Attempted(@)]
      PROVE  events' \in [Version -> Events]
  <2>1. Attempted(events[v].attempts) \in 0 .. MaxAttempts
    BY AttemptedType DEF TypeOK, Events
  <2> QED
    BY <1>4, <2>1 DEF TypeOK, Events
<1>5. CASE Cancel
  <2>1. events' \in [Version -> Events]
    BY <1>2, <1>5 DEF Cancel, WakeCurrent, TypeOK
  <2>2. run' \in [state : RunState, version : Version, cancel : BOOLEAN]
    BY <1>5 DEF Cancel, TypeOK
  <2> QED
    BY <1>5, <2>1, <2>2 DEF Cancel, TypeOK
<1>6. ASSUME NEW v \in Version,
             Dispatch(v) \/ DispatchUncommitted(v) \/ DispatchFails(v)
      PROVE  TypeOK'
  <2>1. events' \in [Version -> Events]
    BY <1>3, <1>4, <1>6
       DEF Dispatch, DispatchUncommitted, DispatchFails, Publish, TypeOK, runVars
  <2> QED
    BY <1>6, <2>1
       DEF Dispatch, DispatchUncommitted, DispatchFails, Publish, TypeOK, runVars
<1>7. ASSUME NEW v \in Version, ReconcileLock(v) PROVE TypeOK'
  BY <1>7 DEF ReconcileLock, TypeOK, runVars
<1>8. CASE ReconcileReopen
  <2>1. events' \in [Version -> Events]
    BY <1>2, <1>8 DEF ReconcileReopen, TypeOK
  <2> QED
    BY <1>8, <2>1 DEF ReconcileReopen, TypeOK
<1>9. CASE ReconcileReleases
  BY <1>9 DEF ReconcileReleases, TypeOK, runVars
<1> QED
  BY <1>1, <1>5, <1>6, <1>7, <1>8, <1>9 DEF Deliver

-----------------------------------------------------------------------------
(* The three writes that move a run: finalize, fail and the reconciler's.  *)
(* All of them finish one row of an unfinished run at its current version  *)
(* and give the run the next version and the state the row names.          *)

Moves(state) ==
  /\ ~Terminal(run.state)
  /\ run.version < PathLength
  /\ state \in RunState
  /\ state = MainStatePath[run.version + 1] \/ state \in {"CANCELLED", "FAILED"}
  /\ run'.state = state
  /\ run'.version = run.version + 1
  /\ run' \in [state : RunState, version : Version, cancel : BOOLEAN]

Commits(k, row) ==
  /\ Moves(row.to)
  /\ row \in Rows
  /\ row.status \in FinishedStatuses
  /\ row.expected = run.version
  /\ row.resulting = run.version + 1
  /\ steps[k].status \notin FinishedStatuses
  /\ k = "RECOVERY" => Terminal(row.to)
  /\ k # "RECOVERY" => /\ row.expected = steps[k].expected
                       /\ row.token = steps[k].token
  /\ steps' = [steps EXCEPT ![k] = row]

(* A worker that writes owns a running row of the current version.         *)
LEMMA WriterFacts ==
  ASSUME Inv, NEW w \in Worker, pc[w] \in {"finalize_write", "fail_write"},
         Holds(w), run.version = claim[w].version
  PROVE  /\ claim[w].key \in ClaimKeys
         /\ claim[w].key \in StepKeys /\ claim[w].key # "RECOVERY"
         /\ steps[claim[w].key] \in Rows
         /\ steps[claim[w].key].status = "RUNNING"
         /\ steps[claim[w].key].to = claim[w].key
         /\ steps[claim[w].key].expected = run.version
         /\ run.version \in Nat /\ claim[w].cancel \in BOOLEAN
<1>1. claim[w].key \in ClaimKeys /\ Claimed(w)
  BY DEF Inv, ClaimInv, Claimed
<1>2. claim[w].key \in StepKeys /\ claim[w].key # "RECOVERY"
  BY <1>1, KeyFacts
<1>3. steps[claim[w].key].status = "RUNNING"
  BY DEF Holds
<1>4. steps[claim[w].key].to = claim[w].key
  BY <1>2, <1>3 DEF Inv, RowInv
<1>5. steps[claim[w].key].expected = run.version
  BY <1>1 DEF Inv, ClaimInv
<1>6. /\ steps[claim[w].key] \in Rows
      /\ run.version \in Nat /\ claim[w].cancel \in BOOLEAN
  BY <1>2, PathFacts DEF Inv, TypeOK, Claims
<1> QED
  BY <1>1, <1>2, <1>3, <1>4, <1>5, <1>6

(* A run that can make any transition is unfinished and on the main path.  *)
LEMMA MovesFromStage ==
  ASSUME Inv, NEW target, CanTransition(run.state, target)
  PROVE  /\ ~Terminal(run.state)
         /\ run.version \in 1 .. PathLength - 1
         /\ run.state = MainStatePath[run.version]
<1>1. ~Terminal(run.state)
  BY TerminalIsFinal
<1>2. run.version < PathLength /\ run.state = MainStatePath[run.version]
  BY <1>1 DEF Inv, StateInv
<1> QED
  BY <1>1, <1>2, PathFacts DEF Inv, TypeOK, Version

(* Saving the run at its version, to a state it may take, moves it.        *)
LEMMA SaveMoves ==
  ASSUME NEW state \in RunState, NEW cancel \in BOOLEAN,
         ~Terminal(run.state), run.version \in 1 .. PathLength - 1,
         state = MainStatePath[run.version + 1] \/ state \in {"CANCELLED", "FAILED"},
         run' = [state |-> state, version |-> run.version + 1, cancel |-> cancel]
  PROVE  Moves(state)
<1>1. run.version + 1 \in Version /\ run.version < PathLength
  BY PathFacts DEF Version
<1>2. run'.state = state /\ run'.version = run.version + 1
  OBVIOUS
<1>3. run' \in [state : RunState, version : Version, cancel : BOOLEAN]
  BY <1>1
<1> QED
  BY <1>1, <1>2, <1>3 DEF Moves

(* finalize commits the claimed row with the state it chose.               *)
LEMMA FinalizeCommits ==
  ASSUME Inv, NEW w \in Worker, Finalize(w)
  PROVE  \E row \in Rows : /\ Commits(claim[w].key, row)
                           /\ row.to = FinalState(w)
<1>1. /\ pc[w] = "finalize_write" /\ Holds(w)
      /\ CanTransition(run.state, FinalState(w))
      /\ run.version = claim[w].version
      /\ run' = [state |-> FinalState(w), version |-> run.version + 1,
                 cancel |-> claim[w].cancel]
  BY DEF Finalize, SaveRun
<1>2. PICK status \in FinishedStatuses :
        steps' = [steps EXCEPT ![claim[w].key] =
                    FinishedRow(steps[claim[w].key], status, FinalState(w),
                                run.version + 1)]
  <2>1. (IF FinalState(w) = "CANCELLED" THEN "CANCELLED" ELSE "SUCCEEDED")
          \in FinishedStatuses
    BY DEF FinishedStatuses
  <2> QED
    BY <1>1, <2>1 DEF Finalize
<1>3. FinalState(w) \in ClaimKeys /\ FinalState(w) \in RunState
  BY <1>1, WriterFacts, KeyFacts DEF FinalState, ClaimKeys
<1>4. /\ ~Terminal(run.state) /\ run.version \in 1 .. PathLength - 1
      /\ run.state = MainStatePath[run.version]
  BY <1>1, MovesFromStage
<1>5. FinalState(w) = MainStatePath[run.version + 1] \/ FinalState(w) = "CANCELLED"
  BY <1>1, <1>3, <1>4, ClaimedTransition
<1>6. Moves(FinalState(w))
  BY <1>1, <1>3, <1>4, <1>5, WriterFacts, SaveMoves
<1> DEFINE row == FinishedRow(steps[claim[w].key], status, FinalState(w),
                              run.version + 1)
<1>7. /\ row \in Rows
      /\ row.status \in FinishedStatuses /\ row.to = FinalState(w)
      /\ row.resulting = run.version + 1
      /\ row.expected = run.version
      /\ row.expected = steps[claim[w].key].expected
      /\ row.token = steps[claim[w].key].token
  <2>1. run.version + 1 \in Nat
    BY <1>1, WriterFacts
  <2> QED
    BY <1>1, <1>3, <2>1, WriterFacts, FinishedRowFacts
<1>8. steps[claim[w].key].status \notin FinishedStatuses /\ claim[w].key # "RECOVERY"
  BY <1>1, WriterFacts DEF FinishedStatuses
<1>9. steps' = [steps EXCEPT ![claim[w].key] = row]
  BY <1>2
<1> HIDE DEF row
<1> QED
  BY <1>6, <1>7, <1>8, <1>9 DEF Commits

(* fail commits the claimed row as FAILED.                                 *)
LEMMA FailCommits ==
  ASSUME Inv, NEW w \in Worker, Fail(w)
  PROVE  \E row \in Rows : Commits(claim[w].key, row) /\ row.to = "FAILED"
<1>1. /\ pc[w] = "fail_write" /\ Holds(w)
      /\ CanTransition(run.state, "FAILED")
      /\ run.version = claim[w].version
      /\ run' = [state |-> "FAILED", version |-> run.version + 1,
                 cancel |-> claim[w].cancel]
      /\ steps' = [steps EXCEPT ![claim[w].key] =
                     FinishedRow(steps[claim[w].key], "FAILED", "FAILED",
                                 run.version + 1)]
  BY DEF Fail, SaveRun
<1>2. /\ ~Terminal(run.state) /\ run.version \in 1 .. PathLength - 1
  BY <1>1, MovesFromStage
<1>3. "FAILED" \in FinishedStatuses /\ "FAILED" \in RunState
  BY DEF FinishedStatuses, RunState, OutsidePath
<1>4. Moves("FAILED")
  BY <1>1, <1>2, <1>3, WriterFacts, SaveMoves
<1> DEFINE row == FinishedRow(steps[claim[w].key], "FAILED", "FAILED",
                              run.version + 1)
<1>5. /\ row \in Rows
      /\ row.status \in FinishedStatuses /\ row.to = "FAILED"
      /\ row.resulting = run.version + 1
      /\ row.expected = run.version
      /\ row.expected = steps[claim[w].key].expected
      /\ row.token = steps[claim[w].key].token
  <2>1. run.version + 1 \in Nat
    BY <1>1, WriterFacts
  <2> QED
    BY <1>1, <1>3, <2>1, WriterFacts, FinishedRowFacts
<1>6. steps[claim[w].key].status \notin FinishedStatuses /\ claim[w].key # "RECOVERY"
  BY <1>1, WriterFacts DEF FinishedStatuses
<1>7. steps' = [steps EXCEPT ![claim[w].key] = row]
  BY <1>1
<1> HIDE DEF row
<1> QED
  BY <1>4, <1>5, <1>6, <1>7 DEF Commits

(* RECOVERY_EXHAUSTED commits the reconciler's row as FAILED.              *)
LEMMA RecoveryCommits ==
  ASSUME Inv, ReconcileGivesUp
  PROVE  \E row \in Rows : Commits("RECOVERY", row) /\ row.to = "FAILED"
<1> DEFINE row == [status |-> "FAILED", to |-> "FAILED", expected |-> recon,
                   resulting |-> recon + 1, token |-> NoToken, leased |-> FALSE,
                   started |-> inserted + 1]
<1>1. /\ CanTransition(run.state, "FAILED")
      /\ run.version = recon
      /\ run' = [state |-> "FAILED", version |-> run.version + 1,
                 cancel |-> run.cancel]
      /\ steps' = [steps EXCEPT !["RECOVERY"] = row]
  BY DEF ReconcileGivesUp, SaveRun
<1>2. /\ ~Terminal(run.state) /\ run.version \in 1 .. PathLength - 1
  BY <1>1, MovesFromStage
<1>3. "FAILED" \in FinishedStatuses /\ "FAILED" \in RunState /\ Terminal("FAILED")
  BY DEF FinishedStatuses, RunState, OutsidePath, Terminal, TerminalStates
<1>4. Moves("FAILED")
  BY <1>1, <1>2, <1>3, SaveMoves DEF Inv, TypeOK
<1>5. recon \in Nat /\ inserted + 1 \in Nat /\ recon + 1 \in Nat
  BY <1>1, <1>2, PathFacts DEF Inv, TypeOK
<1>6. row \in Rows
  BY <1>3, <1>5 DEF Rows
<1>7. steps["RECOVERY"].status \notin FinishedStatuses
  BY <1>2 DEF Inv, RowInv, FinishedStatuses
<1>8. /\ row.status \in FinishedStatuses /\ row.to = "FAILED"
      /\ row.resulting = run.version + 1 /\ row.expected = run.version
  BY <1>1, <1>3
<1> HIDE DEF row
<1> QED
  BY <1>1, <1>3, <1>4, <1>6, <1>7, <1>8 DEF Commits

(* The three writes keep the types.                                        *)
LEMMA CommitType ==
  ASSUME Inv, NEW k \in StepKeys, NEW row \in Rows, Commits(k, row)
  PROVE  /\ run' \in [state : RunState, version : Version, cancel : BOOLEAN]
         /\ steps' \in [StepKeys -> Rows]
BY DEF Commits, Moves, Inv, TypeOK

(* So do the whole actions that write.                                     *)
LEMMA WritesTypeOK ==
  ASSUME Inv,
         \/ \E w \in Worker : Finalize(w) \/ Fail(w)
         \/ ReconcileGivesUp
  PROVE  TypeOK'
<1>1. ASSUME NEW w \in Worker, Finalize(w) PROVE TypeOK'
  <2>1. PICK row \in Rows : Commits(claim[w].key, row) /\ row.to = FinalState(w)
    BY <1>1, FinalizeCommits
  <2>2. claim[w].key \in StepKeys
    BY <1>1, WriterFacts DEF Finalize, SaveRun
  <2>3. FinalState(w) \in RunState
    BY <2>1 DEF Commits, Moves
  <2>4. events' \in [Version -> Events]
    <3>1. CASE Terminal(FinalState(w))
      BY <1>1, <3>1 DEF Finalize, AddNextEvent, Inv, TypeOK
    <3>2. CASE ~Terminal(FinalState(w))
      <4>1. FinalState(w) \in OpenStates /\ 0 \in 0 .. MaxAttempts
        BY <2>3, <3>2, BoundAssumption DEF OpenStates, Terminal
      <4>2. NewEvent(FinalState(w)) \in Events
        BY <4>1 DEF NewEvent, Events
      <4>3. events' = [events EXCEPT ![claim[w].version + 1] = NewEvent(FinalState(w))]
        BY <1>1, <3>2 DEF Finalize, AddNextEvent
      <4> QED
        BY <4>2, <4>3 DEF Inv, TypeOK
    <3> QED
      BY <3>1, <3>2
  <2>5. pc' \in [Worker -> Phases] /\ claim' \in [Worker -> Claims]
    BY <1>1, DropType DEF Finalize, Inv
  <2> QED
    BY <1>1, <2>1, <2>2, <2>4, <2>5, CommitType DEF Finalize, Inv, TypeOK
<1>2. ASSUME NEW w \in Worker, Fail(w) PROVE TypeOK'
  <2>1. PICK row \in Rows : Commits(claim[w].key, row)
    BY <1>2, FailCommits
  <2>2. claim[w].key \in StepKeys
    BY <1>2, WriterFacts DEF Fail, SaveRun
  <2>3. pc' \in [Worker -> Phases] /\ claim' \in [Worker -> Claims]
    BY <1>2, DropType DEF Fail, Inv
  <2> QED
    BY <1>2, <2>1, <2>2, <2>3, CommitType DEF Fail, Inv, TypeOK
<1>3. CASE ReconcileGivesUp
  <2>1. PICK row \in Rows : Commits("RECOVERY", row)
    BY <1>3, RecoveryCommits
  <2>2. inserted' \in Nat
    BY <1>3 DEF ReconcileGivesUp, Inv, TypeOK
  <2> QED
    BY <1>3, <2>1, <2>2, CommitType, KeyFacts DEF ReconcileGivesUp, Inv, TypeOK
<1> QED
  BY <1>1, <1>2, <1>3

(* Every step keeps the types.                                             *)
LEMMA NextTypeOK ==
  ASSUME Inv, [Next]_vars
  PROVE  TypeOK'
<1>1. TypeOK /\ ClaimInv
  BY DEF Inv
<1>2. ASSUME NEW w \in Worker, Work(w) \/ Crash(w) PROVE TypeOK'
  BY <1>1, <1>2, ClaimingTypeOK, ExecutingTypeOK, WritesTypeOK DEF Work
<1>3. CASE \E k \in StepKeys : LeaseExpires(k)
  BY <1>1, <1>3, SurroundingsTypeOK
<1>4. CASE Cancel \/ Deliver
  BY <1>1, <1>4, SurroundingsTypeOK
<1>5. CASE Reconcile
  BY <1>1, <1>5, SurroundingsTypeOK, WritesTypeOK DEF Reconcile
<1>6. CASE UNCHANGED vars
  BY <1>1, <1>6 DEF vars, TypeOK
<1> QED
  BY <1>2, <1>3, <1>4, <1>5, <1>6 DEF Next

-----------------------------------------------------------------------------
(* What a step does to the run and its rows.                               *)

KeepsRun == run'.state = run.state /\ run'.version = run.version

KeepsRow(k) ==
  /\ steps'[k].status = steps[k].status /\ steps'[k].to = steps[k].to
  /\ steps'[k].expected = steps[k].expected
  /\ steps'[k].resulting = steps[k].resulting

KeepsRows == \A k \in StepKeys : KeepsRow(k)

(* Unchanged rows are kept, and so are rows whose lease alone changed.     *)
LEMMA SameRowsKept ==
  ASSUME TypeOK, steps' = steps
  PROVE  KeepsRows
BY DEF KeepsRows, KeepsRow, TypeOK, Rows

(* A changed lease keeps what matters of every row.                        *)
LEMMA LeasedRowsKept ==
  ASSUME TypeOK, NEW key \in StepKeys, NEW b \in BOOLEAN,
         steps' = [steps EXCEPT ![key].leased = b]
  PROVE  KeepsRows
<1>1. ASSUME NEW k \in StepKeys PROVE KeepsRow(k)
  <2>1. steps[k] \in Rows
    BY DEF TypeOK
  <2>2. CASE k = key
    <3>1. steps'[k] = [steps[k] EXCEPT !.leased = b]
      BY <2>2 DEF TypeOK
    <3> QED
      BY <2>1, <3>1, LeasedRow DEF KeepsRow
  <2>3. CASE k # key
    BY <2>1, <2>3 DEF KeepsRow, TypeOK
  <2> QED
    BY <2>2, <2>3
<1> QED
  BY <1>1 DEF KeepsRows

(* A reclaim keeps all but the token and the lease.                        *)
LEMMA ReclaimedRowsKept ==
  ASSUME Inv, NEW w \in Worker, ReclaimStep(w)
  PROVE  KeepsRows
<1>1. claim[w].key \in StepKeys
  BY KeyFacts DEF ReclaimStep, Inv, ClaimInv
<1>2. ASSUME NEW k \in StepKeys PROVE KeepsRow(k)
  <2>1. steps[k] \in Rows
    BY DEF Inv, TypeOK
  <2>2. CASE k = claim[w].key
    <3>1. PICK t \in Token :
            steps'[k] = [steps[k] EXCEPT !.token = t, !.leased = TRUE]
      BY <1>1, <2>2 DEF ReclaimStep, FreshTokens, TakeClaim, Inv, TypeOK
    <3>2. /\ steps'[k].status = steps[k].status /\ steps'[k].to = steps[k].to
          /\ steps'[k].expected = steps[k].expected
          /\ steps'[k].resulting = steps[k].resulting
      BY <2>1, <3>1 DEF Rows
    <3> QED
      BY <3>2 DEF KeepsRow
  <2>3. CASE k # claim[w].key
    BY <2>1, <2>3 DEF KeepsRow, ReclaimStep, TakeClaim, Inv, TypeOK
  <2> QED
    BY <2>2, <2>3
<1> QED
  BY <1>2 DEF KeepsRows

(* A checkpoint keeps the run and what matters of its rows.                *)
LEMMA CheckpointKeeps ==
  ASSUME Inv, NEW w \in Worker, NEW next, NEW cancelled, pc[w] # "idle",
         Checkpoint(w, next, cancelled)
  PROVE  KeepsRun /\ KeepsRows
<1>1. run' = run
  BY DEF Checkpoint, runVars
<1>2. claim[w].key \in StepKeys
  BY KeyFacts DEF Inv, ClaimInv
<1>3. CASE steps' = steps
  BY <1>1, <1>3, SameRowsKept DEF KeepsRun, Inv
<1>4. CASE steps' = [steps EXCEPT ![claim[w].key].leased = TRUE]
  BY <1>1, <1>2, <1>4, LeasedRowsKept DEF KeepsRun, Inv
<1> QED
  BY <1>3, <1>4 DEF Checkpoint, runVars

(* A step inserts a row, commits a version, or keeps all that matters.     *)
LEMMA StepCases ==
  ASSUME Inv, [Next]_vars
  PROVE  \/ KeepsRun /\ KeepsRows
         \/ \E w \in Worker : ClaimNewStep(w)
         \/ \E k \in StepKeys, row \in Rows : Commits(k, row)
<1> DEFINE Goal == \/ KeepsRun /\ KeepsRows
                   \/ \E w \in Worker : ClaimNewStep(w)
                   \/ \E k \in StepKeys, row \in Rows : Commits(k, row)
<1>1. ASSUME run' = run, steps' = steps PROVE Goal
  BY <1>1, SameRowsKept DEF KeepsRun, Inv
<1>2. ASSUME NEW w \in Worker, Work(w) \/ Crash(w) PROVE Goal
  <2>1. CASE \/ \E v \in Version : ReadRun(w, v)
             \/ ClaimRefused(w) \/ HandlerFails(w) \/ WriteLost(w) \/ Crash(w)
             \/ FinalizeRead(w) \/ FailRead(w)
    BY <1>1, <2>1 DEF ReadRun, ClaimRefused, HandlerFails, WriteLost, Crash,
                      FinalizeRead, FailRead, ReadForWrite, runVars
  <2>2. CASE ClaimNewStep(w)
    BY <2>2
  <2>3. CASE ReclaimStep(w)
    BY <2>3, ReclaimedRowsKept DEF ReclaimStep, KeepsRun
  <2>4. CASE Begin(w) \/ Beat(w) \/ HandlerReturns(w)
    BY <2>4, CheckpointKeeps DEF Begin, Beat, HandlerReturns
  <2>5. CASE Finalize(w)
    BY <2>5, FinalizeCommits, WriterFacts DEF Finalize, SaveRun
  <2>6. CASE Fail(w)
    BY <2>6, FailCommits, WriterFacts DEF Fail, SaveRun
  <2> QED
    BY <1>2, <2>1, <2>2, <2>3, <2>4, <2>5, <2>6 DEF Work
<1>3. ASSUME NEW k \in StepKeys, LeaseExpires(k) PROVE Goal
  BY <1>3, LeasedRowsKept DEF LeaseExpires, KeepsRun, Inv
<1>4. CASE Cancel
  BY <1>4, SameRowsKept DEF Cancel, KeepsRun, Inv, TypeOK
<1>5. CASE Deliver
  BY <1>1, <1>5 DEF Deliver, Dispatch, DispatchUncommitted, DispatchFails, Publish,
                    runVars
<1>6. CASE Reconcile
  <2>1. CASE ReconcileGivesUp
    BY <2>1, RecoveryCommits, KeyFacts
  <2> QED
    BY <1>1, <1>6, <2>1 DEF Reconcile, ReconcileLock, ReconcileReopen,
                            ReconcileReleases, runVars
<1>7. CASE UNCHANGED vars
  BY <1>1, <1>7 DEF vars
<1> QED
  BY <1>2, <1>3, <1>4, <1>5, <1>6, <1>7 DEF Next

-----------------------------------------------------------------------------
(* The conjuncts of Inv about the run and its rows.                        *)

(* The state of the run follows its version.                               *)
LEMMA NextStateInv ==
  ASSUME Inv, [Next]_vars
  PROVE  StateInv'
<1>1. CASE KeepsRun
  BY <1>1 DEF KeepsRun, Inv, StateInv
<1>2. ASSUME NEW k \in StepKeys, NEW row \in Rows, Commits(k, row)
      PROVE  StateInv'
  <2>1. /\ run'.version = run.version + 1 /\ run'.state = row.to
        /\ run.version \in Nat /\ run.version < PathLength /\ PathLength \in Nat
        /\ run'.version \in Version
        /\ \/ row.to = MainStatePath[run'.version]
           \/ row.to \in {"CANCELLED", "FAILED"}
    BY <1>2, PathFacts DEF Commits, Moves, Inv, TypeOK
  <2>2. CASE row.to \in {"CANCELLED", "FAILED"}
    BY <2>1, <2>2 DEF StateInv, Terminal, TerminalStates
  <2>3. CASE row.to = MainStatePath[run'.version]
    <3>1. run'.version = PathLength => Terminal(row.to)
      BY <2>3, PathFacts DEF Terminal, TerminalStates
    <3>2. row.to = "COMPLETED" => run'.version = PathLength
      <4>1. PathLength \in Version
        BY PathFacts DEF Version
      <4> QED
        BY <2>1, <2>3, <4>1, PathFacts
    <3> QED
      BY <2>1, <2>3, <3>1, <3>2, PathFacts DEF StateInv, Version, Terminal
  <2> QED
    BY <2>1, <2>2, <2>3
<1>3. ASSUME NEW w \in Worker, ClaimNewStep(w) PROVE KeepsRun
  BY <1>3 DEF ClaimNewStep, KeepsRun
<1> QED
  BY <1>1, <1>2, <1>3, StepCases

(* A claimed row is new and running, and every other row is as it was.     *)
LEMMA ClaimNewStepFacts ==
  ASSUME Inv, NEW w \in Worker, ClaimNewStep(w)
  PROVE  /\ KeepsRun
         /\ claim[w].key \in ClaimKeys /\ claim[w].key \in StepKeys
         /\ steps[claim[w].key].status = "ABSENT"
         /\ steps'[claim[w].key].status = "RUNNING"
         /\ steps'[claim[w].key].to = claim[w].key
         /\ steps'[claim[w].key].expected = claim[w].version
         /\ \A k \in StepKeys : k # claim[w].key => steps'[k] = steps[k]
<1>1. claim[w].key \in ClaimKeys /\ claim[w].key \in StepKeys
  BY KeyFacts DEF ClaimNewStep, Inv, ClaimInv
<1>2. PICK t \in Token : steps' = [steps EXCEPT ![claim[w].key] =
                  [status |-> "RUNNING", to |-> claim[w].key,
                   expected |-> claim[w].version, resulting |-> 0,
                   token |-> t, leased |-> TRUE, started |-> inserted + 1]]
  BY DEF ClaimNewStep, FreshTokens, TakeClaim
<1>3. steps \in [StepKeys -> Rows]
  BY DEF Inv, TypeOK
<1>4. steps'[claim[w].key] =
        [status |-> "RUNNING", to |-> claim[w].key,
         expected |-> claim[w].version, resulting |-> 0,
         token |-> t, leased |-> TRUE, started |-> inserted + 1]
  BY <1>1, <1>2, <1>3
<1>5. \A k \in StepKeys : k # claim[w].key => steps'[k] = steps[k]
  BY <1>2, <1>3
<1>6. KeepsRun /\ steps[claim[w].key].status = "ABSENT"
  BY DEF ClaimNewStep, KeepsRun
<1> QED
  BY <1>1, <1>4, <1>5, <1>6

(* The finished row is the commit's and every other row is as it was.      *)
LEMMA CommitFacts ==
  ASSUME Inv, NEW k \in StepKeys, NEW row \in Rows, Commits(k, row)
  PROVE  /\ steps'[k] = row
         /\ \A j \in StepKeys : j # k => steps'[j] = steps[j]
         /\ run.version \in Nat /\ run.version >= 1
         /\ run'.version = run.version + 1
         /\ row.resulting = run'.version
         /\ \A j \in StepKeys : steps[j].status \in FinishedStatuses =>
              steps[j].resulting \in 2 .. run.version
BY PathFacts DEF Commits, Moves, Inv, TypeOK, RowInv, Version

(* Rows say what they produced.                                            *)
LEMMA NextRowInv ==
  ASSUME Inv, [Next]_vars
  PROVE  RowInv'
<1>1. CASE KeepsRun /\ KeepsRows
  BY <1>1, KeyFacts DEF KeepsRun, KeepsRows, KeepsRow, Inv, RowInv
<1>2. ASSUME NEW w \in Worker, ClaimNewStep(w) PROVE RowInv'
  BY <1>2, ClaimNewStepFacts, KeyFacts
     DEF KeepsRun, Inv, RowInv, FinishedStatuses
<1>3. ASSUME NEW k \in StepKeys, NEW row \in Rows, Commits(k, row)
      PROVE  RowInv'
  <2>1. ASSUME NEW j \in StepKeys
        PROVE  /\ steps'[j].status = "RUNNING" => j # "RECOVERY" /\ steps'[j].to = j
               /\ steps'[j].status \in FinishedStatuses =>
                    /\ steps'[j].resulting = steps'[j].expected + 1
                    /\ steps'[j].resulting \in 2 .. run'.version
                    /\ steps'[j].to \in RunState
                    /\ steps'[j].resulting = run'.version => steps'[j].to = run'.state
    <3>1. CASE j = k
      <4>1. row.status # "RUNNING" /\ row.resulting = row.expected + 1
            /\ row.to = run'.state /\ row.to \in RunState
        BY <1>3 DEF Commits, Moves, FinishedStatuses
      <4> QED
        BY <1>3, <3>1, <4>1, CommitFacts
    <3>2. CASE j # k
      <4>1. /\ steps[j].status = "RUNNING" => j # "RECOVERY" /\ steps[j].to = j
            /\ steps[j].status \in FinishedStatuses =>
                 /\ steps[j].resulting = steps[j].expected + 1
                 /\ steps[j].to \in RunState
        BY DEF Inv, RowInv
      <4> QED
        BY <1>3, <3>2, <4>1, CommitFacts
    <3> QED
      BY <3>1, <3>2
  <2>2. steps'["RECOVERY"].status # "ABSENT" => Terminal(run'.state)
    <3>1. steps["RECOVERY"].status = "ABSENT"
      BY <1>3 DEF Commits, Moves, Inv, RowInv
    <3>2. k = "RECOVERY" => Terminal(run'.state)
      BY <1>3 DEF Commits, Moves
    <3> QED
      BY <1>3, <3>1, <3>2, CommitFacts, KeyFacts
  <2> QED
    BY <2>1, <2>2 DEF RowInv, Terminal
<1> QED
  BY <1>1, <1>2, <1>3, StepCases

(* Every version after the first has exactly one producer.                 *)
LEMMA NextProducerInv ==
  ASSUME Inv, [Next]_vars
  PROVE  ProducerInv'
<1>1. CASE KeepsRun /\ KeepsRows
  BY <1>1 DEF KeepsRun, KeepsRows, KeepsRow, Inv, ProducerInv, Produced
<1>2. ASSUME NEW w \in Worker, ClaimNewStep(w) PROVE ProducerInv'
  BY <1>2, ClaimNewStepFacts
     DEF KeepsRun, Inv, ProducerInv, Produced, FinishedStatuses
<1>3. ASSUME NEW k \in StepKeys, NEW row \in Rows, Commits(k, row)
      PROVE  ProducerInv'
  <2>1. row.status \in FinishedStatuses /\ steps[k].status \notin FinishedStatuses
    BY <1>3 DEF Commits
  <2>2. ASSUME NEW n \in 2 .. run'.version
        PROVE  \E j \in StepKeys : Produced(j, n)'
    <3>1. CASE n = run'.version
      BY <1>3, <2>1, <3>1, CommitFacts DEF Produced
    <3>2. CASE n # run'.version
      <4>1. n \in 2 .. run.version
        BY <1>3, <3>2, CommitFacts
      <4>2. PICK j \in StepKeys : Produced(j, n)
        BY <4>1 DEF Inv, ProducerInv
      <4>3. j # k
        BY <2>1, <4>2 DEF Produced
      <4> QED
        BY <1>3, <4>2, <4>3, CommitFacts DEF Produced
    <3> QED
      BY <3>1, <3>2
  <2>3. ASSUME NEW i \in StepKeys, NEW j \in StepKeys,
               steps'[i].status \in FinishedStatuses,
               steps'[j].status \in FinishedStatuses,
               steps'[i].resulting = steps'[j].resulting
        PROVE  i = j
    <3>1. CASE i = k \/ j = k
      BY <1>3, <2>3, <3>1, CommitFacts
    <3>2. CASE i # k /\ j # k
      BY <1>3, <2>3, <3>2, CommitFacts DEF Inv, ProducerInv
    <3> QED
      BY <3>1, <3>2
  <2> QED
    BY <2>2, <2>3 DEF ProducerInv
<1> QED
  BY <1>1, <1>2, <1>3, StepCases

-----------------------------------------------------------------------------
(* The outbox.                                                             *)

KeepsEvents ==
  \A v \in Version : /\ events'[v].present = events[v].present
                     /\ events'[v].state = events[v].state

(* Publishing, waking and reopening keep which events there are.           *)
LEMMA FlagsKeepEvents ==
  ASSUME TypeOK, NEW u \in Version, NEW b, NEW n,
         \/ events' = events
         \/ events' = [events EXCEPT ![u].published = b]
         \/ events' = [events EXCEPT ![u].attempts = n]
         \/ events' = [events EXCEPT ![u].published = b, ![u].attempts = n]
  PROVE  KeepsEvents
BY DEF TypeOK, Events, KeepsEvents

(* Only finalize adds an event.                                            *)
LEMMA EventCases ==
  ASSUME Inv, [Next]_vars
  PROVE  \/ KeepsEvents /\ KeepsRun
         \/ KeepsEvents /\ \E k \in StepKeys, row \in Rows :
                             Commits(k, row) /\ Terminal(row.to)
         \/ \E w \in Worker : Finalize(w)
<1> DEFINE Goal == \/ KeepsEvents /\ KeepsRun
                   \/ KeepsEvents /\ \E k \in StepKeys, row \in Rows :
                                       Commits(k, row) /\ Terminal(row.to)
                   \/ \E w \in Worker : Finalize(w)
<1>1. ASSUME run' = run, events' = events PROVE Goal
  BY <1>1 DEF KeepsRun, KeepsEvents
<1>2. Terminal("FAILED")
  BY DEF Terminal, TerminalStates
<1>3. ASSUME NEW w \in Worker, Work(w) \/ Crash(w) PROVE Goal
  <2>1. CASE \/ \E v \in Version : ReadRun(w, v)
             \/ ClaimNewStep(w) \/ ReclaimStep(w) \/ ClaimRefused(w)
             \/ HandlerFails(w) \/ WriteLost(w) \/ Crash(w)
             \/ FinalizeRead(w) \/ FailRead(w)
    BY <1>1, <2>1 DEF ReadRun, ClaimNewStep, ReclaimStep, ClaimRefused,
                      HandlerFails, WriteLost, Crash, FinalizeRead, FailRead,
                      ReadForWrite, runVars
  <2>2. CASE Begin(w) \/ Beat(w) \/ HandlerReturns(w)
    BY <1>1, <2>2 DEF Begin, Beat, HandlerReturns, Checkpoint, runVars
  <2>3. CASE Fail(w)
    <3>1. \E row \in Rows : Commits(claim[w].key, row) /\ row.to = "FAILED"
      BY <2>3, FailCommits
    <3>2. claim[w].key \in StepKeys
      BY <2>3, WriterFacts DEF Fail, SaveRun
    <3> QED
      BY <1>2, <2>3, <3>1, <3>2 DEF Fail, KeepsEvents
  <2>4. CASE Finalize(w)
    BY <2>4
  <2> QED
    BY <1>3, <2>1, <2>2, <2>3, <2>4 DEF Work
<1>4. CASE \E k \in StepKeys : LeaseExpires(k)
  BY <1>1, <1>4 DEF LeaseExpires
<1>5. CASE Cancel
  BY <1>5, FlagsKeepEvents DEF Cancel, WakeCurrent, KeepsRun, Inv, TypeOK
<1>6. CASE Deliver
  <2>1. PICK v \in Version :
          Dispatch(v) \/ DispatchUncommitted(v) \/ DispatchFails(v)
    BY <1>6 DEF Deliver
  <2> QED
    BY <2>1, FlagsKeepEvents
       DEF Dispatch, DispatchUncommitted, DispatchFails, Publish, KeepsRun, Inv,
           runVars
<1>7. CASE Reconcile
  <2>1. CASE ReconcileGivesUp
    <3>1. \E row \in Rows : Commits("RECOVERY", row) /\ row.to = "FAILED"
      BY <2>1, RecoveryCommits
    <3> QED
      BY <1>2, <2>1, <3>1, KeyFacts DEF ReconcileGivesUp, KeepsEvents
  <2>2. CASE ReconcileReopen
    BY <2>2, FlagsKeepEvents DEF ReconcileReopen, KeepsRun, Inv, TypeOK
  <2> QED
    BY <1>1, <1>7, <2>1, <2>2 DEF Reconcile, ReconcileLock, ReconcileReleases,
                                  runVars
<1>8. CASE UNCHANGED vars
  BY <1>1, <1>8 DEF vars
<1> QED
  BY <1>3, <1>4, <1>5, <1>6, <1>7, <1>8 DEF Next

(* One event for each version but that of a finished run.                  *)
LEMMA NextOneEventPerVersion ==
  ASSUME Inv, [Next]_vars
  PROVE  OneEventPerVersion'
<1>1. CASE KeepsEvents /\ KeepsRun
  BY <1>1 DEF KeepsEvents, KeepsRun, Inv, OneEventPerVersion, Terminal
<1>2. ASSUME KeepsEvents, NEW k \in StepKeys, NEW row \in Rows, Commits(k, row),
             Terminal(row.to)
      PROVE  OneEventPerVersion'
  <2>1. /\ ~Terminal(run.state) /\ Terminal(run'.state)
        /\ run'.version = run.version + 1 /\ run.version \in Nat
    BY <1>2, PathFacts DEF Commits, Moves, Inv, TypeOK
  <2> QED
    BY <1>2, <2>1 DEF KeepsEvents, Inv, OneEventPerVersion, Terminal, Version
<1>3. ASSUME NEW w \in Worker, Finalize(w) PROVE OneEventPerVersion'
  <2>1. PICK row \in Rows : Commits(claim[w].key, row) /\ row.to = FinalState(w)
    BY <1>3, FinalizeCommits
  <2>2. claim[w].key \in StepKeys /\ claim[w].version = run.version
    BY <1>3, WriterFacts DEF Finalize, SaveRun
  <2>3. CASE Terminal(FinalState(w))
    <3>1. KeepsEvents
      BY <1>3, <2>3 DEF Finalize, AddNextEvent, KeepsEvents
    <3> QED
      BY <1>2, <2>1, <2>2, <2>3, <3>1
  <2>4. CASE ~Terminal(FinalState(w))
    <3>1. events' = [events EXCEPT ![run.version + 1] = NewEvent(FinalState(w))]
      BY <1>3, <2>2, <2>4 DEF Finalize, AddNextEvent
    <3>2. /\ ~Terminal(run.state) /\ run'.state = FinalState(w)
          /\ run'.version = run.version + 1 /\ run.version \in Nat
          /\ run'.version \in Version
      BY <2>1, PathFacts DEF Commits, Moves, Inv, TypeOK
    <3>3. /\ events'[run'.version].present
          /\ events'[run'.version].state = run'.state
          /\ \A v \in Version : v # run'.version => events'[v] = events[v]
      BY <3>1, <3>2 DEF NewEvent, Inv, TypeOK
    <3>4. ~Terminal(run'.state)
      BY <2>4, <3>2
    <3> QED
      BY <3>2, <3>3, <3>4 DEF Inv, OneEventPerVersion, Terminal, Version
  <2> QED
    BY <2>3, <2>4
<1> QED
  BY <1>1, <1>2, <1>3, EventCases

-----------------------------------------------------------------------------
(* What workers hold.                                                      *)

(* A worker that goes on keeps its key and, once claimed, its version and  *)
(* token.                                                                  *)
KeepsClaim(w) ==
  \/ pc'[w] = "idle"
  \/ /\ pc[w] # "idle"
     /\ Claimed(w)' <=> Claimed(w)
     /\ claim'[w].key = claim[w].key
     /\ claim'[w].version = claim[w].version
     /\ claim'[w].token = claim[w].token

KeepsClaims == \A w \in Worker : KeepsClaim(w)

(* A step that moves no worker keeps all claims.                           *)
LEMMA SameClaimsKept ==
  ASSUME pc' = pc, claim' = claim
  PROVE  KeepsClaims
BY DEF KeepsClaims, KeepsClaim, Claimed

(* A worker that drops its delivery disturbs no other.                     *)
LEMMA DropKeeps ==
  ASSUME TypeOK, NEW w \in Worker, Drop(w)
  PROVE  KeepsClaims
BY DEF Drop, TypeOK, KeepsClaims, KeepsClaim, Claimed

(* A worker that goes on within its claim keeps it.                        *)
LEMMA GoToKeeps ==
  ASSUME TypeOK, NEW w \in Worker, NEW phase,
         GoTo(w, phase), claim' = claim, pc[w] # "idle",
         phase \in {"idle", "claiming"} <=> pc[w] \in {"idle", "claiming"}
  PROVE  KeepsClaims
BY DEF GoTo, TypeOK, KeepsClaims, KeepsClaim, Claimed

(* A checkpoint keeps or drops the claim.                                  *)
LEMMA CheckpointKeepsClaims ==
  ASSUME TypeOK, NEW w \in Worker, NEW next \in {"executing", "finalizing"},
         NEW cancelled \in SUBSET {"finalizing", "failing"},
         Claimed(w), Checkpoint(w, next, cancelled)
  PROVE  KeepsClaims
<1>1. CASE Drop(w)
  BY <1>1, DropKeeps
<1>2. ASSUME NEW phase \in IF run.cancel THEN cancelled ELSE {next},
             GoTo(w, phase), claim' = claim
      PROVE  KeepsClaims
  <2>1. phase \notin {"idle", "claiming"} /\ pc[w] \notin {"idle", "claiming"}
    BY DEF Claimed
  <2> QED
    BY <1>2, <2>1, GoToKeeps
<1> QED
  BY <1>1, <1>2 DEF Checkpoint

(* The read of finalize and fail refreshes cancel alone.                   *)
LEMMA ReadForWriteKeepsClaims ==
  ASSUME TypeOK, NEW w \in Worker, NEW from \in {"finalizing", "failing"},
         NEW to \in {"finalize_write", "fail_write"}, ReadForWrite(w, from, to)
  PROVE  KeepsClaims
<1>1. CASE Drop(w)
  BY <1>1, DropKeeps
<1>2. CASE GoTo(w, to) /\ claim' = [claim EXCEPT ![w].cancel = run.cancel]
  <2>1. /\ claim'[w].key = claim[w].key /\ claim'[w].version = claim[w].version
        /\ claim'[w].token = claim[w].token
        /\ \A u \in Worker : u # w => claim'[u] = claim[u]
    BY <1>2 DEF TypeOK, Claims
  <2>2. /\ pc'[w] = to /\ \A u \in Worker : u # w => pc'[u] = pc[u]
        /\ pc[w] = from
    BY <1>2 DEF GoTo, TypeOK, ReadForWrite
  <2> QED
    BY <2>1, <2>2 DEF KeepsClaims, KeepsClaim, Claimed
<1> QED
  BY <1>1, <1>2 DEF ReadForWrite

(* Only reading the run and taking a claim change what a worker holds.     *)
LEMMA ClaimCases ==
  ASSUME Inv, [Next]_vars
  PROVE  \/ KeepsClaims
         \/ \E w \in Worker : \/ \E v \in Version : ReadRun(w, v)
                              \/ ClaimNewStep(w) \/ ReclaimStep(w)
<1> DEFINE Goal == \/ KeepsClaims
                   \/ \E w \in Worker : \/ \E v \in Version : ReadRun(w, v)
                                        \/ ClaimNewStep(w) \/ ReclaimStep(w)
<1>1. TypeOK
  BY DEF Inv
<1>2. ASSUME NEW w \in Worker, Work(w) \/ Crash(w) PROVE Goal
  <2>1. CASE ClaimRefused(w) \/ WriteLost(w) \/ Crash(w) \/ Finalize(w) \/ Fail(w)
    BY <1>1, <2>1, DropKeeps DEF ClaimRefused, WriteLost, Crash, Finalize, Fail
  <2>2. CASE Begin(w) \/ Beat(w) \/ HandlerReturns(w)
    BY <1>1, <2>2, CheckpointKeepsClaims DEF Begin, Beat, HandlerReturns, CleanedUp, Claimed
  <2>3. CASE HandlerFails(w)
    BY <1>1, <2>3, GoToKeeps DEF HandlerFails
  <2>4. CASE FinalizeRead(w) \/ FailRead(w)
    BY <1>1, <2>4, ReadForWriteKeepsClaims DEF FinalizeRead, FailRead
  <2>5. CASE \/ \E v \in Version : ReadRun(w, v)
             \/ ClaimNewStep(w) \/ ReclaimStep(w)
    BY <2>5
  <2> QED
    BY <1>2, <2>1, <2>2, <2>3, <2>4, <2>5 DEF Work
<1>3. CASE \/ \E k \in StepKeys : LeaseExpires(k)
           \/ Cancel \/ Deliver \/ Reconcile \/ UNCHANGED vars
  BY <1>3, SameClaimsKept
     DEF LeaseExpires, Cancel, Deliver, Dispatch, DispatchUncommitted,
         DispatchFails, Publish, Reconcile, ReconcileLock, ReconcileReopen,
         ReconcileGivesUp, ReconcileReleases, vars
<1> QED
  BY <1>2, <1>3 DEF Next

(* A claimed row stays, with its version.                                  *)
RowGrows(k) ==
  steps[k].status # "ABSENT" =>
    /\ steps'[k].status # "ABSENT"
    /\ steps'[k].expected = steps[k].expected

(* No step undoes a claim of a stage or of the cancellation.               *)
LEMMA RowsGrow ==
  ASSUME Inv, [Next]_vars
  PROVE  \A k \in ClaimKeys : RowGrows(k)
<1> SUFFICES ASSUME NEW k \in ClaimKeys PROVE RowGrows(k)
  OBVIOUS
<1>1. k \in StepKeys /\ k # "RECOVERY"
  BY KeyFacts
<1>3. CASE KeepsRows
  BY <1>1, <1>3 DEF KeepsRows, KeepsRow, RowGrows
<1>4. ASSUME NEW w \in Worker, ClaimNewStep(w) PROVE RowGrows(k)
  BY <1>1, <1>4, ClaimNewStepFacts DEF RowGrows
<1>5. ASSUME NEW j \in StepKeys, NEW row \in Rows, Commits(j, row)
      PROVE  RowGrows(k)
  <2>1. CASE j = k
    <3>1. row.status # "ABSENT" /\ row.expected = steps[k].expected
      BY <1>1, <1>5, <2>1 DEF Commits, FinishedStatuses
    <3> QED
      BY <1>5, <2>1, <3>1, CommitFacts DEF RowGrows
  <2>2. CASE j # k
    BY <1>1, <1>5, <2>2, CommitFacts DEF RowGrows
  <2> QED
    BY <2>1, <2>2
<1> QED
  BY <1>3, <1>4, <1>5, StepCases

(* Reclaiming gives the row a token it does not have, nor any worker.      *)
LEMMA ReclaimStepFacts ==
  ASSUME Inv, NEW w \in Worker, ReclaimStep(w)
  PROVE  /\ claim[w].key \in ClaimKeys
         /\ steps'[claim[w].key].status = "RUNNING"
         /\ steps'[claim[w].key].expected = steps[claim[w].key].expected
         /\ steps'[claim[w].key].token \in FreshTokens(claim[w].key)
<1>1. claim[w].key \in ClaimKeys /\ claim[w].key \in StepKeys
  BY KeyFacts DEF ReclaimStep, Inv, ClaimInv
<1>2. steps[claim[w].key] \in Rows
  BY <1>1 DEF Inv, TypeOK
<1>3. PICK t \in FreshTokens(claim[w].key) :
        steps'[claim[w].key] =
          [steps[claim[w].key] EXCEPT !.token = t, !.leased = TRUE]
  BY <1>1 DEF ReclaimStep, TakeClaim, Inv, TypeOK
<1>4. steps[claim[w].key].status = "RUNNING"
  BY DEF ReclaimStep, CanReclaim
<1>5. t \in Token
  BY DEF FreshTokens
<1>6. /\ steps'[claim[w].key].status = steps[claim[w].key].status
      /\ steps'[claim[w].key].expected = steps[claim[w].key].expected
      /\ steps'[claim[w].key].token = t
  BY <1>2, <1>3, <1>5 DEF Rows
<1> QED
  BY <1>1, <1>4, <1>6

(* Taking a claim gives the worker the row's version and token and leaves  *)
(* the other workers alone.                                                *)
LEMMA TakeClaimFacts ==
  ASSUME TypeOK, NEW w \in Worker, ClaimNewStep(w) \/ ReclaimStep(w),
         claim[w].key \in StepKeys
  PROVE  /\ claim'[w].key = claim[w].key
         /\ claim'[w].version = steps'[claim[w].key].expected
         /\ claim'[w].token = steps'[claim[w].key].token
         /\ Claimed(w)'
         /\ \A u \in Worker \ {w} : /\ claim'[u] = claim[u] /\ pc'[u] = pc[u]
                                    /\ Claimed(u)' <=> Claimed(u)
<1>1. PICK row : TakeClaim(w, row)
  BY DEF ClaimNewStep, ReclaimStep
<1>2. steps'[claim[w].key] = row
  BY <1>1 DEF TakeClaim, TypeOK
<1>3. /\ claim'[w].key = claim[w].key /\ claim'[w].version = row.expected
      /\ claim'[w].token = row.token
      /\ \A u \in Worker \ {w} : claim'[u] = claim[u]
  BY <1>1 DEF TakeClaim, TypeOK, Claims
<1>4. pc'[w] = "claimed" /\ \A u \in Worker \ {w} : pc'[u] = pc[u]
  BY <1>1 DEF TakeClaim, GoTo, TypeOK
<1> QED
  BY <1>2, <1>3, <1>4 DEF Claimed

(* Workers hold what their rows have, each a token of its own.             *)
LEMMA NextClaimInv ==
  ASSUME Inv, [Next]_vars
  PROVE  ClaimInv'
<1>1. /\ \A w \in Worker : pc[w] # "idle" => claim[w].key \in ClaimKeys
      /\ \A w \in Worker : Claimed(w) =>
           /\ claim[w].key \in ClaimKeys
           /\ steps[claim[w].key].status # "ABSENT"
           /\ claim[w].version = steps[claim[w].key].expected
      /\ \A w1, w2 \in Worker :
           Claimed(w1) /\ Claimed(w2) /\ claim[w1].key = claim[w2].key
             /\ claim[w1].token = claim[w2].token => w1 = w2
  BY DEF Inv, ClaimInv, TypeOK, Claims, Claimed
<1>2. \A k \in ClaimKeys : RowGrows(k) /\ k \in StepKeys
  BY RowsGrow, KeyFacts
<1>3. CASE KeepsClaims
  <2>1. ASSUME NEW w \in Worker, pc'[w] # "idle"
        PROVE  claim'[w].key \in ClaimKeys
    BY <1>1, <1>3, <2>1 DEF KeepsClaims, KeepsClaim
  <2>2. ASSUME NEW w \in Worker, Claimed(w)'
        PROVE  /\ Claimed(w)
               /\ claim'[w].key = claim[w].key
               /\ claim'[w].version = claim[w].version
               /\ claim'[w].token = claim[w].token
    BY <1>3, <2>2 DEF KeepsClaims, KeepsClaim, Claimed
  <2>3. ASSUME NEW w \in Worker, Claimed(w)'
        PROVE  /\ steps'[claim'[w].key].status # "ABSENT"
               /\ claim'[w].version = steps'[claim'[w].key].expected
    <3>1. /\ claim[w].key \in ClaimKeys /\ steps[claim[w].key].status # "ABSENT"
          /\ RowGrows(claim[w].key)
      BY <1>1, <1>2, <2>2, <2>3
    <3> QED
      BY <1>1, <1>2, <2>2, <2>3, <3>1 DEF RowGrows
  <2> QED
    BY <1>1, <2>1, <2>2, <2>3 DEF ClaimInv
<1>4. ASSUME NEW w \in Worker, NEW v \in Version, ReadRun(w, v)
      PROVE  ClaimInv'
  <2>1. /\ claim'[w].key \in ClaimKeys /\ pc'[w] = "claiming" /\ steps' = steps
        /\ \A u \in Worker \ {w} : claim'[u] = claim[u] /\ pc'[u] = pc[u]
    BY <1>4 DEF ReadRun, GoTo, runVars, Inv, TypeOK
  <2>2. ~Claimed(w)' /\ \A u \in Worker \ {w} : Claimed(u)' <=> Claimed(u)
    BY <2>1 DEF Claimed
  <2> QED
    BY <1>1, <2>1, <2>2 DEF ClaimInv
<1>5. ASSUME NEW w \in Worker, ClaimNewStep(w) \/ ReclaimStep(w)
      PROVE  ClaimInv'
  <2> DEFINE key == claim[w].key
  <2>1. /\ key \in ClaimKeys /\ key \in StepKeys
        /\ steps'[key].status # "ABSENT"
        /\ \A u \in Worker : Claimed(u) /\ claim[u].key = key =>
             claim[u].token # steps'[key].token
    <3>1. CASE ClaimNewStep(w)
      BY <1>1, <3>1, ClaimNewStepFacts
    <3>2. CASE ReclaimStep(w)
      <4>1. /\ key \in ClaimKeys /\ steps'[key].status # "ABSENT"
            /\ steps'[key].token \in FreshTokens(key)
        BY <3>2, ReclaimStepFacts
      <4> QED
        BY <1>2, <4>1 DEF FreshTokens
    <3> QED
      BY <1>5, <3>1, <3>2
  <2>2. /\ claim'[w].key = key
        /\ claim'[w].version = steps'[key].expected
        /\ claim'[w].token = steps'[key].token
        /\ Claimed(w)'
        /\ \A u \in Worker \ {w} : /\ claim'[u] = claim[u] /\ pc'[u] = pc[u]
                                   /\ Claimed(u)' <=> Claimed(u)
    BY <1>5, <2>1, TakeClaimFacts DEF Inv
  <2> HIDE DEF key
  <2>3. \A u \in Worker : pc'[u] # "idle" => claim'[u].key \in ClaimKeys
    BY <1>1, <2>1, <2>2
  <2>4. ASSUME NEW u \in Worker, Claimed(u)'
        PROVE  /\ steps'[claim'[u].key].status # "ABSENT"
               /\ claim'[u].version = steps'[claim'[u].key].expected
    <3>1. CASE u = w
      BY <1>2, <2>1, <2>2, <3>1
    <3>2. CASE u # w
      <4>1. /\ Claimed(u) /\ claim'[u] = claim[u] /\ claim[u].key \in ClaimKeys
            /\ steps[claim[u].key].status # "ABSENT" /\ RowGrows(claim[u].key)
        BY <1>1, <1>2, <2>2, <2>4, <3>2
      <4> QED
        BY <1>1, <1>2, <4>1 DEF RowGrows
    <3> QED
      BY <3>1, <3>2
  <2>5. ASSUME NEW w1 \in Worker, NEW w2 \in Worker, Claimed(w1)', Claimed(w2)',
               claim'[w1].key = claim'[w2].key, claim'[w1].token = claim'[w2].token
        PROVE  w1 = w2
    <3>1. \A u \in Worker \ {w} : Claimed(u)' /\ claim'[u].key = key =>
            claim'[u].token # steps'[key].token
      BY <1>1, <2>1, <2>2
    <3>2. CASE w1 # w /\ w2 # w
      BY <1>1, <2>2, <2>5, <3>2
    <3>3. CASE w1 = w \/ w2 = w
      BY <1>2, <2>1, <2>2, <2>5, <3>1, <3>3
    <3> QED
      BY <3>2, <3>3
  <2> QED
    BY <2>3, <2>4, <2>5 DEF ClaimInv
<1> QED
  BY <1>3, <1>4, <1>5, ClaimCases

-----------------------------------------------------------------------------
(* The inductive invariant and what follows from it.                       *)

(* The initial state satisfies the invariant.                              *)
LEMMA InitInv == Init => Inv
<1> SUFFICES ASSUME Init PROVE Inv
  OBVIOUS
<1>1. TypeOK
  BY InitTypeOK
<1>2. /\ run.state = MainStatePath[1] /\ run.version = 1
      /\ \A k \in StepKeys : steps[k].status = "ABSENT"
      /\ \A w \in Worker : pc[w] = "idle"
  BY DEF Init, NoRow
<1>3. ~Terminal(MainStatePath[1]) /\ MainStatePath[1] # "COMPLETED"
  BY PathFacts, StagesAreOpen DEF Terminal, TerminalStates
<1>4. StateInv
  BY <1>2, <1>3, PathFacts DEF StateInv
<1>5. OneEventPerVersion
  BY <1>2, <1>3, PathFacts DEF OneEventPerVersion, Init, NewEvent, NoEvent, Version
<1>6. RowInv /\ ProducerInv
  BY <1>2, KeyFacts DEF RowInv, ProducerInv, FinishedStatuses
<1>7. ClaimInv
  BY <1>2 DEF ClaimInv, Claimed
<1> QED
  BY <1>1, <1>4, <1>5, <1>6, <1>7 DEF Inv

(* Every step preserves the invariant.                                     *)
LEMMA NextInv == Inv /\ [Next]_vars => Inv'
<1> SUFFICES ASSUME Inv, [Next]_vars PROVE Inv'
  OBVIOUS
<1> QED
  BY NextTypeOK, NextStateInv, NextOneEventPerVersion, NextRowInv,
     NextProducerInv, NextClaimInv DEF Inv

(* The inductive invariant holds in every reachable state.                 *)
THEOREM Invariance == Spec => []Inv
BY InitInv, NextInv, PTL DEF Spec

(* Every variable keeps its type: the versions of a run never leave the    *)
(* main path's range and no event asks for a terminal state.               *)
THEOREM TypeCorrect == Spec => []TypeOK
<1>1. Inv => TypeOK
  BY DEF Inv
<1> QED
  BY <1>1, Invariance, PTL

(* Whatever races, each version has one event, and a finished run none.    *)
THEOREM OutboxComplete == Spec => []OneEventPerVersion
<1>1. Inv => OneEventPerVersion
  BY DEF Inv
<1> QED
  BY <1>1, Invariance, PTL

(* An unfinished run of version v is in the v-th state of the main path.   *)
THEOREM StateFollows == Spec => []StateFollowsVersion
<1>1. Inv => StateFollowsVersion
  BY DEF Inv, StateInv, StateFollowsVersion
<1> QED
  BY <1>1, Invariance, PTL

(* Every version was produced by exactly one step, claimed at the version  *)
(* before: two claims of one version never both commit.                    *)
THEOREM OneProducer == Spec => []OneProducerPerVersion
<1>1. ASSUME Inv PROVE OneProducerPerVersion
  <2>1. ASSUME NEW k \in StepKeys, steps[k].status \in FinishedStatuses
        PROVE  /\ steps[k].resulting = steps[k].expected + 1
               /\ steps[k].resulting \in 2 .. run.version
               /\ steps[k].resulting = run.version => steps[k].to = run.state
               /\ steps[k].expected \in Nat
    BY <1>1, <2>1 DEF Inv, RowInv, TypeOK, Rows
  <2>2. ASSUME NEW n \in 2 .. run.version
        PROVE  \E k \in StepKeys :
                 /\ Produced(k, n)
                 /\ steps[k].expected = n - 1
                 /\ n = run.version => steps[k].to = run.state
                 /\ \A j \in StepKeys : Produced(j, n) => j = k
    <3>1. PICK k \in StepKeys : Produced(k, n)
      BY <1>1, <2>2 DEF Inv, ProducerInv
    <3>2. steps[k].expected = n - 1 /\ (n = run.version => steps[k].to = run.state)
      BY <2>1, <3>1 DEF Produced
    <3>3. \A j \in StepKeys : Produced(j, n) => j = k
      BY <1>1, <3>1 DEF Inv, ProducerInv, Produced
    <3> QED
      BY <3>1, <3>2, <3>3
  <2> QED
    BY <2>1, <2>2 DEF OneProducerPerVersion
<1> QED
  BY <1>1, Invariance, PTL

(* At most one of the workers that claimed a step passes its fence.        *)
THEOREM OneOwner == Spec => []OneOwnerPerStep
<1>1. Inv => OneOwnerPerStep
  BY DEF Inv, ClaimInv, OneOwnerPerStep, Holds
<1> QED
  BY <1>1, Invariance, PTL

-----------------------------------------------------------------------------
(* Action properties.                                                      *)

(* A worker whose claim was taken over or finished writes nothing.         *)
THEOREM SupersededWritesNothing == Spec => SupersededNeverWrites
<1>1. ASSUME Inv, Next, NEW w \in Worker, Claimed(w), ~Holds(w), pc'[w] # pc[w]
      PROVE  UNCHANGED runVars
  <2>1. ASSUME NEW u \in Worker, Work(u) \/ Crash(u) PROVE UNCHANGED runVars
    <3>1. CASE u = w
      BY <1>1, <2>1, <3>1
         DEF Work, Crash, ReadRun, ClaimNewStep, ReclaimStep, ClaimRefused,
             Begin, Beat, HandlerReturns, Checkpoint, HandlerFails,
             FinalizeRead, FailRead, ReadForWrite, Finalize, Fail, WriteLost,
             Claimed
    <3>2. CASE u # w
      <4>1. pc'[w] = pc[w]
        BY <1>1, <2>1, <3>2
           DEF Work, Crash, ReadRun, ClaimNewStep, ReclaimStep, TakeClaim,
               ClaimRefused, Begin, Beat, HandlerReturns, Checkpoint,
               HandlerFails, FinalizeRead, FailRead, ReadForWrite, Finalize,
               Fail, WriteLost, Drop, GoTo, Inv, TypeOK
      <4> QED
        BY <1>1, <4>1
    <3> QED
      BY <3>1, <3>2
  <2>2. pc' = pc \/ \E u \in Worker : Work(u) \/ Crash(u)
    BY <1>1 DEF Next, LeaseExpires, Cancel, Deliver, Dispatch,
                DispatchUncommitted, DispatchFails, Publish, Reconcile,
                ReconcileLock, ReconcileReopen, ReconcileGivesUp,
                ReconcileReleases
  <2> QED
    BY <1>1, <2>1, <2>2
<1>2. Inv /\ [Next]_vars =>
        [\A w \in Worker :
           Claimed(w) /\ ~Holds(w) /\ pc'[w] # pc[w] => UNCHANGED runVars]_vars
  BY <1>1
<1> QED
  BY <1>2, Invariance, PTL DEF Spec, SupersededNeverWrites

(* A step that changes the state or the version of a run commits.          *)
LEMMA RunStep ==
  ASSUME Inv, [Next]_vars
  PROVE  KeepsRun \/ \E k \in StepKeys, row \in Rows : Commits(k, row)
BY StepCases, ClaimNewStepFacts

(* Only an unfinished run is written at all.                               *)
LEMMA TerminalRunIsKept ==
  ASSUME Inv, [Next]_vars, Terminal(run.state)
  PROVE  UNCHANGED run
<1>1. \A target : ~CanTransition(run.state, target)
  BY TerminalIsFinal
<1> QED
  BY <1>1
     DEF Next, Work, Crash, ReadRun, ClaimNewStep, ReclaimStep, ClaimRefused,
         Begin, Beat, HandlerReturns, Checkpoint, HandlerFails, FinalizeRead,
         FailRead, ReadForWrite, Finalize, Fail, WriteLost, LeaseExpires,
         Cancel, Deliver, Dispatch, DispatchUncommitted, DispatchFails, Publish,
         Reconcile, ReconcileLock, ReconcileReopen, ReconcileGivesUp,
         ReconcileReleases, runVars, vars

(* No action writes a finished row.                                        *)
LEMMA FinishedRowIsKept ==
  ASSUME Inv, [Next]_vars, NEW k \in StepKeys,
         steps[k].status \in FinishedStatuses
  PROVE  steps'[k] = steps[k]
<1>1. steps[k].status # "RUNNING" /\ steps[k].status # "ABSENT"
  BY DEF FinishedStatuses
<1>2. ASSUME NEW key \in StepKeys, NEW b, steps[key].status = "RUNNING",
             steps' = [steps EXCEPT ![key].leased = b]
      PROVE  steps'[k] = steps[k]
  BY <1>1, <1>2 DEF Inv, TypeOK
<1>3. ASSUME NEW w \in Worker, Work(w) \/ Crash(w) PROVE steps'[k] = steps[k]
  <2>1. CASE \/ \E v \in Version : ReadRun(w, v)
             \/ ClaimRefused(w) \/ HandlerFails(w) \/ WriteLost(w) \/ Crash(w)
             \/ FinalizeRead(w) \/ FailRead(w)
    BY <2>1 DEF ReadRun, ClaimRefused, HandlerFails, WriteLost, Crash,
                FinalizeRead, FailRead, ReadForWrite, runVars
  <2>2. CASE ClaimNewStep(w)
    BY <1>1, <2>2, ClaimNewStepFacts
  <2>3. CASE ReclaimStep(w)
    BY <1>1, <2>3 DEF ReclaimStep, CanReclaim, TakeClaim, Inv, TypeOK
  <2>4. CASE Begin(w) \/ Beat(w) \/ HandlerReturns(w)
    <3>1. claim[w].key \in StepKeys
      BY <2>4, KeyFacts DEF Begin, Beat, HandlerReturns, Inv, ClaimInv
    <3> QED
      BY <1>2, <2>4, <3>1
         DEF Begin, Beat, HandlerReturns, Checkpoint, Holds, runVars
  <2>5. CASE Finalize(w) \/ Fail(w)
    BY <1>1, <2>5 DEF Finalize, Fail, Holds, Inv, TypeOK
  <2> QED
    BY <1>3, <2>1, <2>2, <2>3, <2>4, <2>5 DEF Work
<1>4. CASE \E j \in StepKeys : LeaseExpires(j)
  BY <1>2, <1>4 DEF LeaseExpires
<1>5. CASE ReconcileGivesUp
  <2>1. PICK row \in Rows : Commits("RECOVERY", row)
    BY <1>5, RecoveryCommits
  <2>2. k # "RECOVERY"
    BY <2>1 DEF Commits
  <2> QED
    BY <2>1, <2>2, CommitFacts, KeyFacts
<1>6. CASE \/ Cancel \/ Deliver \/ \E v \in Version : ReconcileLock(v)
           \/ ReconcileReopen \/ ReconcileReleases \/ UNCHANGED vars
  BY <1>6 DEF Cancel, Deliver, Dispatch, DispatchUncommitted, DispatchFails,
              Publish, ReconcileLock, ReconcileReopen, ReconcileReleases, runVars,
              vars
<1> QED
  BY <1>3, <1>4, <1>5, <1>6 DEF Next, Reconcile

(* A finished run and a finished step never change again.                  *)
THEOREM FinishedStaysFinished == Spec => FinishedIsFinal
<1>1. Inv /\ [Next]_vars =>
        [/\ Terminal(run.state) => UNCHANGED run
         /\ \A k \in StepKeys :
              steps[k].status \in FinishedStatuses => steps'[k] = steps[k]]_vars
  BY TerminalRunIsKept, FinishedRowIsKept
<1> QED
  BY <1>1, Invariance, PTL DEF Spec, FinishedIsFinal

(* A requested cancellation is overtaken only by a finalize that read the  *)
(* run before the request.                                                 *)
THEOREM CancellationHonoured == Spec => CancellationIsHonoured
<1> DEFINE Honoured ==
      run.cancel /\ run'.version # run.version
        => \/ run'.state \in {"CANCELLED", "FAILED"}
           \/ \E w \in Worker : ReadBeforeCancel(w)
<1>1. ASSUME Inv, Next PROVE Honoured
  <2>1. ASSUME NEW w \in Worker, Finalize(w) PROVE Honoured
    <3>1. /\ pc[w] = "finalize_write" /\ claim[w].version = run.version
          /\ run'.state = FinalState(w)
      BY <2>1 DEF Finalize, SaveRun
    <3>2. CASE claim[w].cancel
      BY <3>1, <3>2 DEF FinalState
    <3>3. CASE ~claim[w].cancel
      BY <3>1, <3>3 DEF ReadBeforeCancel
    <3> QED
      BY <3>2, <3>3
  <2>2. CASE \/ \E w \in Worker : Fail(w)
             \/ ReconcileGivesUp
    BY <2>2 DEF Fail, ReconcileGivesUp, SaveRun
  <2>3. CASE run'.version = run.version
    BY <2>3
  <2>4. \/ run'.version = run.version
        \/ \E w \in Worker : Finalize(w) \/ Fail(w)
        \/ ReconcileGivesUp
    <3>1. Cancel => run'.version = run.version
      BY DEF Cancel, Inv, TypeOK
    <3> QED
      BY <1>1, <3>1
         DEF Next, Work, Crash, ReadRun, ClaimNewStep, ReclaimStep,
             ClaimRefused, Begin, Beat, HandlerReturns, Checkpoint,
             HandlerFails, FinalizeRead, FailRead, ReadForWrite, WriteLost,
             LeaseExpires, Deliver, Dispatch, DispatchUncommitted,
             DispatchFails, Publish, Reconcile, ReconcileLock, ReconcileReopen,
             ReconcileReleases, runVars
  <2> QED
    BY <2>1, <2>2, <2>3, <2>4
<1>2. Inv /\ [Next]_vars => [Honoured]_vars
  BY <1>1
<1> QED
  BY <1>2, Invariance, PTL DEF Spec, CancellationIsHonoured

-----------------------------------------------------------------------------
(* RunExecution implements RunLifecycle: the finished step rows, read in   *)
(* the order of their resulting_run_version, are a history that only grows *)
(* and only along the edges of the aggregate.                              *)


Producer(n) == CHOOSE k \in StepKeys : Produced(k, n)

(* The journal is as long as the version and begins at the start; the      *)
(* producer of a version names its state; the last is the run's state.     *)
JournalOK ==
  /\ run.version \in Nat /\ run.version >= 1
  /\ Journal \in Seq(RunState)
  /\ Len(Journal) = run.version
  /\ Journal[1] = MainStatePath[1]
  /\ \A n \in 2 .. run.version : \A k \in StepKeys :
       Produced(k, n) => Journal[n] = steps[k].to
  /\ ~Terminal(run.state) => Journal[Len(Journal)] = run.state

(* The inductive invariant makes the journal well defined.                 *)
LEMMA JournalIsOK == Inv => JournalOK
<1> SUFFICES ASSUME Inv PROVE JournalOK
  OBVIOUS
<1>1. run.version \in Nat /\ run.version >= 1
  BY PathFacts DEF Inv, TypeOK, Version
<1>2. ASSUME NEW n \in 2 .. run.version
      PROVE  /\ Producer(n) \in StepKeys /\ Produced(Producer(n), n)
             /\ \A k \in StepKeys : Produced(k, n) => k = Producer(n)
  <2>1. \E k \in StepKeys : Produced(k, n)
    BY <1>2 DEF Inv, ProducerInv
  <2>2. Producer(n) \in StepKeys /\ Produced(Producer(n), n)
    BY <2>1 DEF Producer
  <2> QED
    BY <2>2 DEF Inv, ProducerInv, Produced
<1>3. \A n \in 2 .. run.version : steps[Producer(n)].to \in RunState
  <2>1. \A k \in StepKeys : \A n \in 2 .. run.version :
          Produced(k, n) => steps[k].to \in RunState
    BY DEF Inv, RowInv, Produced
  <2> QED
    BY <1>2, <2>1
<1>4. Journal = [n \in 1 .. run.version |->
                   IF n = 1 THEN MainStatePath[1] ELSE steps[Producer(n)].to]
  BY DEF Journal, Producer
<1>5. \A n \in 1 .. run.version : Journal[n] \in RunState
  BY <1>1, <1>3, <1>4, PathFacts
<1>6. Journal \in Seq(RunState) /\ Len(Journal) = run.version
  <2>1. Journal \in [1 .. run.version -> RunState]
    BY <1>4, <1>5
  <2> QED
    BY <1>1, <2>1
<1>7. Journal[1] = MainStatePath[1]
  BY <1>1, <1>4
<1>8. \A n \in 2 .. run.version : \A k \in StepKeys :
        Produced(k, n) => Journal[n] = steps[k].to
  BY <1>1, <1>2, <1>4
<1>9. ~Terminal(run.state) => Journal[Len(Journal)] = run.state
  <2>1. CASE run.version = 1
    BY <1>6, <1>7, <2>1 DEF Inv, StateInv
  <2>2. CASE run.version # 1
    <3>1. run.version \in 2 .. run.version
      BY <1>1, <2>2
    <3>2. PICK k \in StepKeys : Produced(k, run.version)
      BY <3>1 DEF Inv, ProducerInv
    <3>3. steps[k].to = run.state
      BY <3>2 DEF Inv, RowInv, Produced
    <3> QED
      BY <1>6, <1>8, <3>1, <3>2, <3>3
  <2> QED
    BY <2>1, <2>2
<1> QED
  BY <1>1, <1>6, <1>7, <1>8, <1>9 DEF JournalOK

(* The first state of a run is the first of a history.                     *)
LEMMA InitRefines == Init => Journal = <<MainStatePath[1]>>
<1> SUFFICES ASSUME Init PROVE Journal = <<MainStatePath[1]>>
  OBVIOUS
<1>1. run.version = 1 /\ JournalOK
  BY InitInv, JournalIsOK DEF Init
<1>2. <<MainStatePath[1]>> \in Seq(RunState) /\ Len(<<MainStatePath[1]>>) = 1
  BY PathFacts
<1> QED
  BY <1>1, <1>2, SeqEqual DEF JournalOK

(* Where the producers of the old versions are kept, so is the journal.    *)
LEMMA OldVersionsKept ==
  ASSUME Inv, JournalOK, JournalOK',
         \A n \in 2 .. run.version : \A k \in StepKeys :
           Produced(k, n) => Produced(k, n)' /\ steps'[k].to = steps[k].to,
         run'.version >= run.version
  PROVE  \A n \in 1 .. run.version : Journal'[n] = Journal[n]
<1> SUFFICES ASSUME NEW n \in 1 .. run.version PROVE Journal'[n] = Journal[n]
  OBVIOUS
<1>1. CASE n = 1
  BY <1>1 DEF JournalOK
<1>2. CASE n # 1
  <2>1. n \in 2 .. run.version /\ n \in 2 .. run'.version
    BY <1>2 DEF JournalOK
  <2>2. PICK k \in StepKeys : Produced(k, n)
    BY <2>1 DEF Inv, ProducerInv
  <2>3. Produced(k, n)' /\ steps'[k].to = steps[k].to
    BY <2>1, <2>2
  <2> QED
    BY <2>1, <2>2, <2>3 DEF JournalOK
<1> QED
  BY <1>1, <1>2

(* A step that keeps run and rows keeps the journal.                       *)
LEMMA KeepsJournal ==
  ASSUME Inv, JournalOK, JournalOK', run'.version = run.version,
         \A k \in StepKeys : steps[k].status \in FinishedStatuses =>
           /\ steps'[k].status = steps[k].status
           /\ steps'[k].resulting = steps[k].resulting
           /\ steps'[k].to = steps[k].to
  PROVE  Journal' = Journal
<1>1. \A n \in 2 .. run.version : \A k \in StepKeys :
        Produced(k, n) => Produced(k, n)' /\ steps'[k].to = steps[k].to
  BY DEF Produced
<1>2. \A n \in 1 .. run.version : Journal'[n] = Journal[n]
  BY <1>1, OldVersionsKept DEF JournalOK
<1> QED
  BY <1>2, SeqEqual DEF JournalOK

(* A commit appends the state of its row, along an edge of the aggregate.  *)
LEMMA CommitAppends ==
  ASSUME Inv, JournalOK, JournalOK',
         NEW k \in StepKeys, NEW row \in Rows, Commits(k, row)
  PROVE  \E target \in RunState :
           /\ CanTransition(Journal[Len(Journal)], target)
           /\ Journal' = Append(Journal, target)
<1>1. /\ row.to \in RunState /\ run'.version = run.version + 1
      /\ row.status \in FinishedStatuses /\ row.resulting = run'.version
      /\ steps[k].status \notin FinishedStatuses
      /\ run.version \in Nat /\ run.version >= 1
  BY CommitFacts DEF Commits, Moves
<1>2. CanTransition(Journal[Len(Journal)], row.to)
  <2>1. /\ ~Terminal(run.state) /\ run.version \in 1 .. PathLength - 1
        /\ run.state = MainStatePath[run.version]
        /\ row.to = MainStatePath[run.version + 1] \/ row.to \in {"CANCELLED", "FAILED"}
    BY <1>1, PathFacts DEF Commits, Moves, Inv, StateInv
  <2> QED
    BY <2>1 DEF JournalOK, CanTransition, IsNextMainState
<1>3. \A n \in 1 .. run.version : Journal'[n] = Journal[n]
  <2>1. \A n \in 2 .. run.version : \A j \in StepKeys :
          Produced(j, n) => Produced(j, n)' /\ steps'[j].to = steps[j].to
    BY <1>1, CommitFacts DEF Produced
  <2> QED
    BY <1>1, <2>1, OldVersionsKept
<1>4. Journal'[run.version + 1] = row.to
  <2>1. steps'[k] = row
    BY CommitFacts
  <2>2. run'.version \in 2 .. run'.version
    BY <1>1
  <2> QED
    BY <1>1, <2>1, <2>2 DEF JournalOK, Produced
<1>5. /\ Append(Journal, row.to) \in Seq(RunState)
      /\ Len(Append(Journal, row.to)) = run.version + 1
      /\ \A n \in 1 .. run.version : Append(Journal, row.to)[n] = Journal[n]
      /\ Append(Journal, row.to)[run.version + 1] = row.to
  BY <1>1, AppendProperties DEF JournalOK
<1>6. Journal' = Append(Journal, row.to)
  <2>1. /\ Journal' \in Seq(RunState) /\ Len(Journal') = run.version + 1
    BY <1>1 DEF JournalOK
  <2>2. \A n \in 1 .. Len(Journal') : Journal'[n] = Append(Journal, row.to)[n]
    BY <1>1, <1>3, <1>4, <1>5, <2>1
  <2> HIDE DEF Journal
  <2> QED
    BY <1>5, <2>1, <2>2, SeqEqual
<1> QED
  BY <1>1, <1>2, <1>6

(* The lifecycle has the same states and edges.                            *)
LEMMA SameLifecycle ==
  /\ Lifecycle!RunState = RunState
  /\ \A state, target :
       Lifecycle!CanTransition(state, target) <=> CanTransition(state, target)
BY DEF RunState, MainStates, PathLength, OutsidePath, CanTransition,
       IsNextMainState, IsApprovalEdge, Terminal, TerminalStates,
       Lifecycle!RunState, Lifecycle!MainStates, Lifecycle!PathLength,
       Lifecycle!OutsidePath, Lifecycle!CanTransition,
       Lifecycle!IsNextMainState, Lifecycle!IsApprovalEdge,
       Lifecycle!Terminal, Lifecycle!TerminalStates

(* Every step is a step of the lifecycle or leaves the history alone.      *)
LEMMA NextRefines ==
  ASSUME Inv, [Next]_vars, JournalOK'
  PROVE  [Lifecycle!LifecycleNext]_Journal
<1>1. JournalOK
  BY JournalIsOK
<1>2. CASE KeepsRun /\ KeepsRows
  BY <1>1, <1>2, KeepsJournal DEF KeepsRun, KeepsRows, KeepsRow
<1>3. ASSUME NEW w \in Worker, ClaimNewStep(w) PROVE Journal' = Journal
  BY <1>1, <1>3, ClaimNewStepFacts, KeepsJournal DEF KeepsRun, FinishedStatuses
<1>4. ASSUME NEW k \in StepKeys, NEW row \in Rows, Commits(k, row)
      PROVE  Lifecycle!LifecycleNext
  <2>1. PICK target \in RunState :
          /\ CanTransition(Journal[Len(Journal)], target)
          /\ Journal' = Append(Journal, target)
    BY <1>1, <1>4, CommitAppends
  <2> QED
    BY <2>1, SameLifecycle
       DEF Lifecycle!LifecycleNext, Lifecycle!Transition, Lifecycle!HistoryState
<1> QED
  BY <1>2, <1>3, <1>4, StepCases

(* The reliable-run core implements the lifecycle of the aggregate: nobody *)
(* ever sees the history of a run shrink, change or take a forbidden edge. *)
THEOREM Refinement == Spec => ImplementsLifecycle
<1>1. Init => Lifecycle!LifecycleInit
  BY InitRefines DEF Lifecycle!LifecycleInit
<1>2. Inv /\ [Next]_vars /\ JournalOK' => [Lifecycle!LifecycleNext]_Journal
  BY NextRefines
<1> QED
  BY <1>1, <1>2, Invariance, JournalIsOK, PTL
     DEF Spec, ImplementsLifecycle, Lifecycle!LifecycleSpec

-----------------------------------------------------------------------------
(* What the stage handlers see (StageDelivery).                            *)

(* A claim of a version fits it: it names the stage that follows, or the   *)
(* cancellation; and a claim of the version the run has, not of an older   *)
(* one, is of an unfinished run, asked to cancel if that is the claim.     *)
Fits(version, key) ==
  /\ version \in Version /\ version <= run.version
  /\ version = run.version =>
       ~Terminal(run.state) /\ (key = "CANCELLED" => run.cancel)
  /\ key # "CANCELLED" => key = MainStatePath[version + 1]

CurrentInv ==
  /\ \A k \in ClaimKeys : steps[k].status = "RUNNING" => Fits(steps[k].expected, k)
  /\ \A w \in Worker :
       /\ pc[w] # "idle" => Fits(claim[w].version, claim[w].key)
       /\ pc[w] = "finalize_write" /\ claim[w].key = "CANCELLED" => claim[w].cancel

(* The request to cancel aside, only a commit changes the run.             *)
LEMMA RunCases ==
  ASSUME Inv, [Next]_vars
  PROVE  \/ run' = run
         \/ KeepsRun /\ run'.cancel = TRUE
         \/ \E k \in StepKeys, row \in Rows : Commits(k, row)
<1> DEFINE Goal == \/ run' = run
                   \/ KeepsRun /\ run'.cancel = TRUE
                   \/ \E k \in StepKeys, row \in Rows : Commits(k, row)
<1>1. ASSUME NEW w \in Worker, Work(w) \/ Crash(w) PROVE Goal
  <2>1. CASE Finalize(w)
    BY <2>1, FinalizeCommits, WriterFacts DEF Finalize, SaveRun
  <2>2. CASE Fail(w)
    BY <2>2, FailCommits, WriterFacts DEF Fail, SaveRun
  <2>3. CASE ~(Finalize(w) \/ Fail(w))
    BY <1>1, <2>3
       DEF Work, Crash, ReadRun, ClaimNewStep, ReclaimStep, ClaimRefused, Begin, Beat,
           HandlerReturns, Checkpoint, HandlerFails, FinalizeRead, FailRead,
           ReadForWrite, WriteLost, runVars
  <2> QED
    BY <2>1, <2>2, <2>3
<1>2. CASE Cancel
  BY <1>2 DEF Cancel, KeepsRun, Inv, TypeOK
<1>3. CASE ReconcileGivesUp
  BY <1>3, RecoveryCommits, KeyFacts
<1>4. CASE \/ \E k \in StepKeys : LeaseExpires(k)
           \/ Deliver
           \/ \E v \in Version : ReconcileLock(v)
           \/ ReconcileReopen \/ ReconcileReleases \/ UNCHANGED vars
  BY <1>4 DEF LeaseExpires, Deliver, Dispatch, DispatchUncommitted, DispatchFails, Publish,
              ReconcileLock, ReconcileReopen, ReconcileReleases, runVars, vars
<1> QED
  BY <1>1, <1>2, <1>3, <1>4 DEF Next, Reconcile

(* What fitted once fits ever after.                                       *)
LEMMA StillFits ==
  ASSUME Inv, [Next]_vars, NEW version, NEW key, Fits(version, key)
  PROVE  Fits(version, key)'
<1>1. /\ version \in Version /\ version <= run.version
      /\ version \in Nat /\ run.version \in Nat /\ run.cancel \in BOOLEAN
  BY PathFacts DEF Fits, Inv, TypeOK
<1>2. CASE run' = run
  BY <1>2 DEF Fits, Terminal
<1>3. CASE KeepsRun /\ run'.cancel = TRUE
  BY <1>3 DEF Fits, Terminal, KeepsRun
<1>4. ASSUME NEW k \in StepKeys, NEW row \in Rows, Commits(k, row)
      PROVE  Fits(version, key)'
  <2>1. run'.version = run.version + 1
    BY <1>4 DEF Commits, Moves
  <2>2. version <= run'.version /\ version # run'.version
    BY <1>1, <2>1
  <2> QED
    BY <1>1, <2>2 DEF Fits
<1> QED
  BY <1>2, <1>3, <1>4, RunCases

(* A running row was running before, or has just been claimed.             *)
LEMMA RunningRows ==
  ASSUME Inv, [Next]_vars, NEW k \in ClaimKeys, steps'[k].status = "RUNNING"
  PROVE  \/ steps[k].status = "RUNNING" /\ steps'[k].expected = steps[k].expected
         \/ \E w \in Worker : /\ ClaimNewStep(w) /\ claim[w].key = k
                              /\ steps'[k].expected = claim[w].version
<1>1. k \in StepKeys /\ k # "RECOVERY"
  BY KeyFacts
<1>2. CASE KeepsRows
  BY <1>1, <1>2 DEF KeepsRows, KeepsRow
<1>3. ASSUME NEW w \in Worker, ClaimNewStep(w)
      PROVE  \/ steps[k].status = "RUNNING" /\ steps'[k].expected = steps[k].expected
             \/ claim[w].key = k /\ steps'[k].expected = claim[w].version
  BY <1>1, <1>3, ClaimNewStepFacts
<1>4. ASSUME NEW j \in StepKeys, NEW row \in Rows, Commits(j, row)
      PROVE  steps[k].status = "RUNNING" /\ steps'[k].expected = steps[k].expected
  <2>1. row.status # "RUNNING"
    BY <1>4 DEF Commits, FinishedStatuses
  <2>2. j # k
    BY <1>4, <2>1, CommitFacts
  <2> QED
    BY <1>1, <1>4, <2>2, CommitFacts
<1> QED
  BY <1>2, <1>3, <1>4, StepCases

(* A step of one worker leaves alone what the others hold.                 *)
LEMMA OthersKept ==
  ASSUME TypeOK, NEW w \in Worker, Work(w) \/ Crash(w), NEW u \in Worker \ {w}
  PROVE  pc'[u] = pc[u] /\ claim'[u] = claim[u]
<1>1. Drop(w) => pc'[u] = pc[u] /\ claim'[u] = claim[u]
  BY DEF Drop, TypeOK
<1>2. \A phase : GoTo(w, phase) => pc'[u] = pc[u]
  BY DEF GoTo, TypeOK
<1>3. CASE \E v \in Version : ReadRun(w, v)
  BY <1>2, <1>3 DEF ReadRun, TypeOK
<1>4. CASE ClaimNewStep(w) \/ ReclaimStep(w)
  <2>1. PICK row : TakeClaim(w, row)
    BY <1>4 DEF ClaimNewStep, ReclaimStep
  <2> QED
    BY <1>2, <2>1 DEF TakeClaim, TypeOK
<1>5. CASE Begin(w) \/ Beat(w) \/ HandlerReturns(w)
  BY <1>1, <1>2, <1>5 DEF Begin, Beat, HandlerReturns, Checkpoint
<1>6. CASE HandlerFails(w)
  BY <1>2, <1>6 DEF HandlerFails
<1>7. CASE FinalizeRead(w) \/ FailRead(w)
  BY <1>1, <1>2, <1>7 DEF FinalizeRead, FailRead, ReadForWrite, TypeOK
<1>8. CASE ClaimRefused(w) \/ Finalize(w) \/ Fail(w) \/ WriteLost(w) \/ Crash(w)
  BY <1>1, <1>8 DEF ClaimRefused, Finalize, Fail, WriteLost, Crash
<1> QED
  BY <1>3, <1>4, <1>5, <1>6, <1>7, <1>8 DEF Work

(* A worker about to write has just read the run, or goes on as it was.    *)
LEMMA WriterCases ==
  ASSUME Inv, [Next]_vars, NEW w \in Worker, pc'[w] = "finalize_write"
  PROVE  \/ pc[w] = "finalize_write" /\ claim'[w] = claim[w]
         \/ /\ pc[w] = "finalizing" /\ run.version = claim[w].version
            /\ claim'[w] = [claim[w] EXCEPT !.cancel = run.cancel]
<1>0. TypeOK
  BY DEF Inv
<1>1. CASE pc' = pc /\ claim' = claim
  BY <1>1
<1>2. ASSUME NEW u \in Worker, Work(u) \/ Crash(u), u # w
      PROVE  pc'[w] = pc[w] /\ claim'[w] = claim[w]
  BY <1>0, <1>2, OthersKept
<1>3. CASE FinalizeRead(w)
  BY <1>0, <1>3 DEF FinalizeRead, ReadForWrite, Drop, GoTo, TypeOK
<1>4. CASE \/ \E v \in Version : ReadRun(w, v)
           \/ ClaimNewStep(w) \/ ReclaimStep(w) \/ ClaimRefused(w)
           \/ Begin(w) \/ Beat(w) \/ HandlerReturns(w) \/ HandlerFails(w)
           \/ Finalize(w) \/ FailRead(w) \/ Fail(w) \/ WriteLost(w) \/ Crash(w)
  <2>1. \A phase : GoTo(w, phase) => pc'[w] = phase
    BY <1>0 DEF GoTo, TypeOK
  <2>2. ~Drop(w)
    BY <1>0 DEF Drop, TypeOK
  <2> QED
    BY <1>4, <2>1, <2>2
       DEF ReadRun, ClaimNewStep, ReclaimStep, TakeClaim, ClaimRefused, Begin, Beat,
           HandlerReturns, Checkpoint, CleanedUp, HandlerFails, FailRead, ReadForWrite,
           Finalize, Fail, WriteLost, Crash
<1>5. CASE \/ \E k \in StepKeys : LeaseExpires(k)
           \/ Cancel \/ Deliver \/ Reconcile \/ UNCHANGED vars
  BY <1>1, <1>5
     DEF LeaseExpires, Cancel, Deliver, Dispatch, DispatchUncommitted,
         DispatchFails, Publish, Reconcile, ReconcileLock, ReconcileReopen,
         ReconcileGivesUp, ReconcileReleases, vars
<1>6. ASSUME Work(w) \/ Crash(w)
      PROVE  \/ pc[w] = "finalize_write" /\ claim'[w] = claim[w]
             \/ /\ pc[w] = "finalizing" /\ run.version = claim[w].version
                /\ claim'[w] = [claim[w] EXCEPT !.cancel = run.cancel]
  BY <1>3, <1>4, <1>6 DEF Work
<1> QED
  BY <1>2, <1>5, <1>6 DEF Next

(* What a worker reads of the run fits it.                                 *)
LEMMA ReadFits ==
  ASSUME Inv, NEW w \in Worker, NEW v \in Version, ReadRun(w, v)
  PROVE  Fits(claim[w].version, claim[w].key)'
<1>1. PICK target \in ClaimKeys :
        /\ IF run.cancel THEN target = "CANCELLED"
                         ELSE IsNextMainState(run.state, target)
        /\ claim' = [claim EXCEPT ![w] =
                       [version |-> v, key |-> target, token |-> NoToken,
                        cancel |-> run.cancel]]
  BY DEF ReadRun
<1>2. claim'[w].version = v /\ claim'[w].key = target
  BY <1>1 DEF Inv, TypeOK
<1>3. /\ run' = run /\ run.version = v /\ ~Terminal(run.state)
      /\ v \in Nat
  BY PathFacts DEF ReadRun, runVars
<1>4. target # "CANCELLED" => target = MainStatePath[v + 1]
  <2>1. SUFFICES ASSUME target # "CANCELLED" PROVE target = MainStatePath[v + 1]
    OBVIOUS
  <2>2. CanTransition(run.state, target)
    BY <1>1, <2>1 DEF CanTransition
  <2>3. v \in 1 .. PathLength - 1 /\ run.state = MainStatePath[v]
    BY <1>3, <2>2, MovesFromStage
  <2> QED
    BY <2>1, <2>2, <2>3, ClaimedTransition
<1>5. target = "CANCELLED" => run.cancel
  <2>1. SUFFICES ASSUME target = "CANCELLED", ~run.cancel PROVE FALSE
    OBVIOUS
  <2>2. IsNextMainState(run.state, target)
    BY <1>1, <2>1
  <2>3. PICK i \in 1 .. PathLength - 1 : target = MainStatePath[i + 1]
    BY <2>2 DEF IsNextMainState
  <2>4. target \in StageKeys
    BY <2>3, PathFacts DEF StageKeys
  <2> QED
    BY <2>1, <2>4, KeyFacts DEF OutsidePath
<1> QED
  BY <1>2, <1>3, <1>4, <1>5 DEF Fits, Terminal

(* Nothing is claimed at first.                                            *)
LEMMA InitCurrentInv == Init => CurrentInv
BY KeyFacts DEF Init, CurrentInv, NoRow

(* Every step keeps what is claimed fitting the run.                       *)
LEMMA NextCurrentInv ==
  ASSUME Inv, CurrentInv, [Next]_vars
  PROVE  CurrentInv'
<1>1. ASSUME NEW k \in ClaimKeys, steps'[k].status = "RUNNING"
      PROVE  Fits(steps[k].expected, k)'
  <2>1. CASE steps[k].status = "RUNNING" /\ steps'[k].expected = steps[k].expected
    <3>1. Fits(steps[k].expected, k)
      BY <2>1 DEF CurrentInv
    <3> QED
      BY <2>1, <3>1, StillFits DEF Fits
  <2>2. ASSUME NEW w \in Worker, ClaimNewStep(w), claim[w].key = k,
               steps'[k].expected = claim[w].version
        PROVE  Fits(steps[k].expected, k)'
    <3>1. Fits(claim[w].version, k)
      BY <2>2 DEF CurrentInv, ClaimNewStep
    <3> QED
      BY <2>2, <3>1, StillFits DEF Fits
  <2> QED
    BY <1>1, <2>1, <2>2, RunningRows
<1>2. ASSUME NEW w \in Worker, pc'[w] # "idle"
      PROVE  Fits(claim[w].version, claim[w].key)'
  <2>1. CASE /\ pc[w] # "idle" /\ claim'[w].key = claim[w].key
             /\ claim'[w].version = claim[w].version
    <3>1. Fits(claim[w].version, claim[w].key)
      BY <2>1 DEF CurrentInv
    <3> QED
      BY <2>1, <3>1, StillFits DEF Fits
  <2>2. CASE KeepsClaims
    BY <1>2, <2>1, <2>2 DEF KeepsClaims, KeepsClaim
  <2>3. ASSUME NEW u \in Worker, Work(u), u # w
        PROVE  Fits(claim[w].version, claim[w].key)'
    <3>1. pc'[w] = pc[w] /\ claim'[w] = claim[w]
      BY <2>3, OthersKept DEF Inv
    <3> QED
      BY <1>2, <2>1, <3>1
  <2>4. ASSUME NEW v \in Version, ReadRun(w, v)
        PROVE  Fits(claim[w].version, claim[w].key)'
    BY <2>4, ReadFits
  <2>5. CASE ClaimNewStep(w) \/ ReclaimStep(w)
    <3>1. claim[w].key \in ClaimKeys /\ claim[w].key \in StepKeys
      BY <2>5, KeyFacts DEF ClaimNewStep, ReclaimStep, Inv, ClaimInv
    <3>2. /\ claim'[w].key = claim[w].key
          /\ claim'[w].version = steps'[claim[w].key].expected
      BY <2>5, <3>1, TakeClaimFacts DEF Inv
    <3>3. steps'[claim[w].key].status = "RUNNING"
      BY <2>5, ClaimNewStepFacts, ReclaimStepFacts
    <3>4. \A k \in ClaimKeys : k = claim[w].key => Fits(steps[k].expected, k)'
      BY <1>1, <3>3
    <3> QED
      BY <3>1, <3>2, <3>4 DEF Fits
  <2> QED
    BY <2>2, <2>3, <2>4, <2>5, ClaimCases DEF Work
<1>3. ASSUME NEW w \in Worker, pc'[w] = "finalize_write", claim'[w].key = "CANCELLED"
      PROVE  claim'[w].cancel
  <2>1. CASE pc[w] = "finalize_write" /\ claim'[w] = claim[w]
    BY <1>3, <2>1 DEF CurrentInv
  <2>2. CASE /\ pc[w] = "finalizing" /\ run.version = claim[w].version
             /\ claim'[w] = [claim[w] EXCEPT !.cancel = run.cancel]
    <3>1. claim'[w].key = claim[w].key /\ claim'[w].cancel = run.cancel
      BY <2>2 DEF Inv, TypeOK, Claims
    <3>2. Fits(claim[w].version, claim[w].key)
      BY <2>2 DEF CurrentInv
    <3> QED
      BY <1>3, <2>2, <3>1, <3>2 DEF Fits
  <2> QED
    BY <1>3, <2>1, <2>2, WriterCases
<1> QED
  BY <1>1, <1>2, <1>3 DEF CurrentInv

-----------------------------------------------------------------------------
(* The steps of a worker, as the handlers see them.                        *)

DeliveryInv == Inv /\ CurrentInv

At == [w \in Worker |-> WorkOf(w)]
Movers == {w \in Worker : MayMoveRun(w)}

KeyOf(w) == IF claim[w].key = "CANCELLED" THEN "CANCELLED" ELSE "STAGE"

(* A worker that has not begun is at work on nothing.                      *)
LEMMA IdleView ==
  ASSUME NEW w \in Worker, ~Working(w)
  PROVE  WorkOf(w) = Delivery!NoWork /\ ~MayMoveRun(w)
BY DEF WorkOf, MayMoveRun, Delivery!NoWork

(* What a worker that has begun is at work on.                             *)
LEMMA BusyView ==
  ASSUME DeliveryInv, NEW w \in Worker, Working(w)
  PROVE  /\ WorkOf(w) = [stage |-> claim[w].version, key |-> KeyOf(w), exit |-> Decision(w)]
         /\ WorkOf(w) # Delivery!NoWork
         /\ WorkOf(w).exit = Decision(w) /\ WorkOf(w).key = KeyOf(w)
<1>1. WorkOf(w) = [stage |-> claim[w].version, key |-> KeyOf(w), exit |-> Decision(w)]
  BY DEF WorkOf, KeyOf
<1>2. claim[w].version \in Version /\ 0 \notin Version
  BY DEF DeliveryInv, CurrentInv, Working, Fits, Version
<1>3. WorkOf(w).stage = claim[w].version /\ Delivery!NoWork.stage = 0
  BY <1>1 DEF Delivery!NoWork
<1> QED
  BY <1>1, <1>2, <1>3

(* No two workers may move the run of one stage, or of its cancellation.   *)
LEMMA OneMover ==
  ASSUME DeliveryInv, NEW u \in Worker, NEW w \in Worker,
         MayMoveRun(u), Claimed(w), Holds(w), claim[w].version = run.version,
         KeyOf(u) = KeyOf(w)
  PROVE  u = w
<1>1. Fits(claim[u].version, claim[u].key) /\ Fits(claim[w].version, claim[w].key)
  BY DEF DeliveryInv, CurrentInv, MayMoveRun, Working, Claimed
<1>2. claim[u].key = claim[w].key
  BY <1>1 DEF Fits, MayMoveRun, KeyOf
<1>3. Claimed(u) /\ Holds(u)
  BY DEF MayMoveRun, Working, Claimed
<1> QED
  BY <1>2, <1>3 DEF DeliveryInv, Inv, ClaimInv, Holds

(* A worker that goes on as it was, with its row as it was, sees no change. *)
SeesNoChange(u) == WorkOf(u)' = WorkOf(u) /\ (MayMoveRun(u)' <=> MayMoveRun(u))

LEMMA Undisturbed ==
  ASSUME NEW u \in Worker, pc'[u] = pc[u], claim'[u] = claim[u],
         run'.version = run.version,
         Working(u) => /\ steps'[claim[u].key].status = steps[claim[u].key].status
                       /\ steps'[claim[u].key].token = steps[claim[u].key].token
  PROVE  SeesNoChange(u)
<1>1. WorkOf(u)' = WorkOf(u)
  BY DEF WorkOf, Working, Decision
<1>2. MayMoveRun(u)' <=> MayMoveRun(u)
  BY DEF MayMoveRun, Working, Holds
<1> QED
  BY <1>1, <1>2 DEF SeesNoChange

(* A step that no worker sees is a stutter.                                *)
LEMMA UnseenStep ==
  ASSUME run' = run, \A u \in Worker : SeesNoChange(u)
  PROVE  UNCHANGED Delivery!deliveryVars
<1>1. At' = At /\ Movers' = Movers
  BY DEF SeesNoChange, At, Movers
<1>2. StageOfRun' = StageOfRun /\ Fate' = Fate
  BY DEF StageOfRun, Fate, Terminal
<1> QED
  BY <1>1, <1>2 DEF At, Movers, Delivery!deliveryVars

(* A step that the others do not see changes the work of one.              *)
LEMMA AtChanges ==
  ASSUME NEW w \in Worker, \A u \in Worker \ {w} : WorkOf(u)' = WorkOf(u)
  PROVE  At' = [At EXCEPT ![w] = WorkOf(w)']
BY DEF At

(* A worker that gives up, while the others go on.                         *)
LEMMA LeavesView ==
  ASSUME DeliveryInv, NEW w \in Worker, Working(w), ~Working(w)', run' = run,
         \A u \in Worker \ {w} : SeesNoChange(u)
  PROVE  Delivery!Leave(w)
<1>1. WorkOf(w)' = Delivery!NoWork /\ ~MayMoveRun(w)'
  BY DEF WorkOf, MayMoveRun, Delivery!NoWork
<1>2. At' = [At EXCEPT ![w] = Delivery!NoWork]
  BY <1>1, AtChanges DEF SeesNoChange
<1>3. Movers' = Movers \ {w}
  BY <1>1 DEF Movers, SeesNoChange
<1>4. At[w] # Delivery!NoWork
  BY BusyView DEF At
<1>5. StageOfRun' = StageOfRun /\ Fate' = Fate
  BY DEF StageOfRun, Fate, Terminal
<1> QED
  BY <1>2, <1>3, <1>4, <1>5 DEF At, Movers, Delivery!Leave

(* Whoever drops a delivery no longer works on it.                         *)
LEMMA DroppedView ==
  ASSUME TypeOK, NEW w \in Worker, Drop(w)
  PROVE  ~Working(w)' /\ pc'[w] = "idle"
BY DEF Drop, TypeOK, Working

-----------------------------------------------------------------------------
(* One lemma for each kind of step.                                        *)

DeliveryStep == [Delivery!DeliveryNext]_(Delivery!deliveryVars)

(* The steps of a worker are steps of the delivery.                        *)
LEMMA WorkerStep ==
  ASSUME NEW w \in Worker,
         \/ Delivery!Start(w, "STAGE") \/ Delivery!Start(w, "CANCELLED")
         \/ Delivery!Supersede(w) \/ Delivery!Move(w) \/ Delivery!Leave(w)
         \/ Delivery!Decide(w, "ONWARDS") \/ Delivery!Decide(w, "CANCELLED")
         \/ Delivery!Decide(w, "FAILED")
  PROVE  DeliveryStep
<1>1. /\ "STAGE" \in Delivery!Keys /\ "CANCELLED" \in Delivery!Keys
      /\ "ONWARDS" \in Delivery!Exits /\ "CANCELLED" \in Delivery!Exits
      /\ "FAILED" \in Delivery!Exits
  BY DEF Delivery!Keys, Delivery!Exits
<1> QED
  BY <1>1 DEF DeliveryStep, Delivery!DeliveryNext

(* Before the first checkpoint nothing is seen of a worker.                *)
LEMMA ReadsView ==
  ASSUME DeliveryInv, NEW w \in Worker,
         \/ \E v \in Version : ReadRun(w, v)
         \/ ClaimRefused(w)
  PROVE  DeliveryStep
<1>1. /\ run' = run /\ steps' = steps /\ TypeOK /\ pc[w] \in {"idle", "claiming"}
      /\ pc'[w] \in {"idle", "claiming"} /\ Work(w)
  BY DEF DeliveryInv, Inv, ReadRun, ClaimRefused, Drop, GoTo, TypeOK, runVars, Work
<1>2. ~Working(w) /\ ~Working(w)'
  BY <1>1 DEF Working
<1>3. SeesNoChange(w)
  BY <1>2 DEF SeesNoChange, WorkOf, MayMoveRun
<1>4. ASSUME NEW u \in Worker \ {w} PROVE SeesNoChange(u)
  BY <1>1, OthersKept, Undisturbed
<1> QED
  BY <1>1, <1>3, <1>4, UnseenStep DEF DeliveryStep

(* Nor of its new claim.                                                   *)
LEMMA ClaimsView ==
  ASSUME DeliveryInv, NEW w \in Worker, ClaimNewStep(w)
  PROVE  DeliveryStep
<1>1. /\ run' = run /\ TypeOK /\ pc[w] = "claiming" /\ pc'[w] = "claimed" /\ Work(w)
  BY DEF DeliveryInv, Inv, ClaimNewStep, TakeClaim, GoTo, TypeOK, Work
<1>2. SeesNoChange(w)
  BY <1>1 DEF SeesNoChange, WorkOf, MayMoveRun, Working
<1>3. ASSUME NEW u \in Worker \ {w} PROVE SeesNoChange(u)
  <2>1. pc'[u] = pc[u] /\ claim'[u] = claim[u]
    BY <1>1, OthersKept
  <2>2. ASSUME Working(u)
        PROVE  steps'[claim[u].key] = steps[claim[u].key]
    <3>1. claim[u].key \in StepKeys /\ steps[claim[u].key].status # "ABSENT"
      BY <2>2, KeyFacts DEF DeliveryInv, Inv, ClaimInv, Working, Claimed
    <3> QED
      BY <3>1, ClaimNewStepFacts DEF DeliveryInv
  <2> QED
    BY <1>1, <2>1, <2>2, Undisturbed
<1> QED
  BY <1>1, <1>2, <1>3, UnseenStep DEF DeliveryStep

(* A reclaim takes the run from the one that could move it.                *)
LEMMA ReclaimsView ==
  ASSUME DeliveryInv, NEW w \in Worker, ReclaimStep(w)
  PROVE  DeliveryStep
<1> DEFINE key == claim[w].key
<1>1. /\ run' = run /\ TypeOK /\ pc[w] = "claiming" /\ pc'[w] = "claimed" /\ Work(w)
  BY DEF DeliveryInv, Inv, ReclaimStep, TakeClaim, GoTo, TypeOK, Work
<1>2. SeesNoChange(w)
  BY <1>1 DEF SeesNoChange, WorkOf, MayMoveRun, Working
<1>3. /\ key \in StepKeys
      /\ steps'[key].token # steps[key].token
      /\ \A k \in StepKeys : k # key => steps'[k] = steps[k]
  <2>1. key \in StepKeys
    BY KeyFacts, ReclaimStepFacts DEF DeliveryInv
  <2>2. steps'[key].token # steps[key].token
    BY ReclaimStepFacts DEF DeliveryInv, FreshTokens
  <2> QED
    BY <2>1, <2>2 DEF ReclaimStep, TakeClaim, DeliveryInv, Inv, TypeOK
<1>4. ASSUME NEW u \in Worker \ {w}
      PROVE  /\ WorkOf(u)' = WorkOf(u)
             /\ pc'[u] = pc[u] /\ claim'[u] = claim[u]
  BY <1>1, OthersKept DEF WorkOf, Working, Decision
<1>5. ASSUME NEW u \in Worker \ {w}, ~(MayMoveRun(u) /\ claim[u].key = key)
      PROVE  SeesNoChange(u)
  <2>1. CASE Working(u) /\ claim[u].key # key
    <3>1. claim[u].key \in StepKeys
      BY <2>1, KeyFacts DEF DeliveryInv, Inv, ClaimInv, Working
    <3> QED
      BY <1>1, <1>3, <1>4, <2>1, <3>1, Undisturbed
  <2>2. CASE ~Working(u)
    BY <1>1, <1>4, <2>2, Undisturbed
  <2>3. CASE Working(u) /\ claim[u].key = key
    <3>2. steps'[key].token \in FreshTokens(key)
      BY ReclaimStepFacts DEF DeliveryInv
    <3>3. ~Holds(u)'
      BY <1>4, <2>3, <3>2 DEF Holds, FreshTokens
    <3> QED
      BY <1>4, <1>5, <2>3, <3>3 DEF SeesNoChange, MayMoveRun
  <2> QED
    BY <2>1, <2>2, <2>3
<1>6. ASSUME NEW u \in Worker \ {w}, MayMoveRun(u), claim[u].key = key
      PROVE  Delivery!Supersede(u)
  <2>1. ~MayMoveRun(u)'
    <3>1. steps[key].token = claim[u].token
      BY <1>6 DEF MayMoveRun, Holds
    <3> QED
      BY <1>3, <1>4, <1>6, <3>1 DEF MayMoveRun, Holds
  <2>2. ASSUME NEW v \in Worker \ {w}, v # u
        PROVE  SeesNoChange(v)
    <3>1. ~(MayMoveRun(v) /\ claim[v].key = key)
      BY <1>6, <2>2 DEF MayMoveRun, Working, Claimed, Holds, DeliveryInv, Inv, ClaimInv
    <3> QED
      BY <1>5, <3>1
  <2>3. Movers' = Movers \ {u} /\ u \in Movers
    BY <1>2, <1>6, <2>1, <2>2 DEF Movers, SeesNoChange
  <2>4. At' = At
    BY <1>2, <1>4 DEF At, SeesNoChange
  <2>5. StageOfRun' = StageOfRun /\ Fate' = Fate
    BY <1>1 DEF StageOfRun, Fate, Terminal
  <2> QED
    BY <1>1, <2>3, <2>4, <2>5 DEF At, Movers, Delivery!Supersede
<1>7. CASE \A u \in Worker \ {w} : ~(MayMoveRun(u) /\ claim[u].key = key)
  BY <1>1, <1>2, <1>5, <1>7, UnseenStep DEF DeliveryStep
<1> QED
  BY <1>6, <1>7, WorkerStep

(* The heartbeat of a holder renews the lease of its row and nothing else. *)
LEMMA BeatRows ==
  ASSUME DeliveryInv, NEW w \in Worker, NEW next, NEW cancelled,
         pc[w] # "idle", Checkpoint(w, next, cancelled)
  PROVE  /\ run' = run
         /\ \A k \in StepKeys : /\ steps'[k].status = steps[k].status
                                /\ steps'[k].token = steps[k].token
<1>1. run' = run
  BY DEF Checkpoint, runVars
<1>2. claim[w].key \in StepKeys
  BY KeyFacts DEF DeliveryInv, Inv, ClaimInv
<1>3. CASE steps' = steps
  BY <1>1, <1>3
<1>4. CASE steps' = [steps EXCEPT ![claim[w].key].leased = TRUE]
  <2>1. ASSUME NEW k \in StepKeys
        PROVE  steps'[k].status = steps[k].status /\ steps'[k].token = steps[k].token
    <3>1. steps[k] \in Rows
      BY DEF DeliveryInv, Inv, TypeOK
    <3>2. CASE k = claim[w].key
      <4>1. steps'[k] = [steps[k] EXCEPT !.leased = TRUE]
        BY <1>2, <1>4, <3>2 DEF DeliveryInv, Inv, TypeOK
      <4> QED
        BY <3>1, <4>1, LeasedRow
    <3>3. CASE k # claim[w].key
      BY <1>4, <3>3 DEF DeliveryInv, Inv, TypeOK
    <3> QED
      BY <3>2, <3>3
  <2> QED
    BY <1>1, <2>1
<1> QED
  BY <1>3, <1>4 DEF Checkpoint, runVars

(* ... so the other workers see nothing of it.                             *)
LEMMA BeatUnseen ==
  ASSUME DeliveryInv, NEW w \in Worker, Begin(w) \/ Beat(w) \/ HandlerReturns(w)
  PROVE  /\ run' = run
         /\ \A u \in Worker \ {w} : SeesNoChange(u)
         /\ \A k \in StepKeys : /\ steps'[k].status = steps[k].status
                                /\ steps'[k].token = steps[k].token
<1>1. /\ run' = run
      /\ \A k \in StepKeys : /\ steps'[k].status = steps[k].status
                             /\ steps'[k].token = steps[k].token
  BY BeatRows DEF Begin, Beat, HandlerReturns
<1>2. ASSUME NEW u \in Worker \ {w} PROVE SeesNoChange(u)
  <2>1. pc'[u] = pc[u] /\ claim'[u] = claim[u]
    BY OthersKept DEF Work, DeliveryInv, Inv
  <2>2. Working(u) => claim[u].key \in StepKeys
    BY KeyFacts DEF DeliveryInv, Inv, ClaimInv, Working
  <2> QED
    BY <1>1, <2>1, <2>2, Undisturbed
<1> QED
  BY <1>1, <1>2

(* The first checkpoint starts the work on the stage.                      *)
LEMMA BeginView ==
  ASSUME DeliveryInv, NEW w \in Worker, Begin(w)
  PROVE  DeliveryStep
<1>1. /\ run' = run /\ \A u \in Worker \ {w} : SeesNoChange(u)
      /\ pc[w] = "claimed" /\ TypeOK
  BY BeatUnseen DEF Begin, DeliveryInv, Inv
<1>2. ~Working(w) /\ WorkOf(w) = Delivery!NoWork /\ ~MayMoveRun(w)
  BY <1>1, IdleView DEF Working
<1>3. CASE Drop(w)
  <2>1. ~Working(w)'
    BY <1>1, <1>3, DroppedView
  <2>2. SeesNoChange(w)
    BY <1>2, <2>1 DEF SeesNoChange, WorkOf, MayMoveRun
  <2> QED
    BY <1>1, <2>2, UnseenStep DEF DeliveryStep
<1>4. CASE ~Drop(w)
  <2>1. /\ Holds(w) /\ run.version = claim[w].version /\ claim' = claim
        /\ \E phase \in {"executing", "finalizing", "failing"} : GoTo(w, phase)
    BY <1>4 DEF Begin, Checkpoint, CleanedUp
  <2>2. pc'[w] \in {"executing", "finalizing", "failing"}
    BY <1>1, <2>1 DEF GoTo, TypeOK
  <2>3. claim[w].key \in StepKeys /\ Claimed(w) /\ Fits(claim[w].version, claim[w].key)
    BY <1>1, KeyFacts DEF DeliveryInv, Inv, ClaimInv, CurrentInv, Claimed
  <2>4. MayMoveRun(w)'
    BY <1>1, <2>1, <2>2, <2>3, BeatUnseen DEF MayMoveRun, Working, Holds
  <2>5. WorkOf(w)' = [stage |-> run.version, key |-> KeyOf(w), exit |-> "NONE"]
    BY <2>1, <2>2 DEF WorkOf, Working, Decision, KeyOf
  <2>6. /\ ~Terminal(run.state)
        /\ KeyOf(w) = "CANCELLED" => run.cancel
    BY <2>1, <2>3 DEF Fits, KeyOf
  <2>7. StageOfRun = run.version /\ Fate = "RUNNING" /\ StageOfRun' = StageOfRun
        /\ Fate' = Fate
    BY <1>1, <2>6 DEF StageOfRun, Fate, Terminal
  <2>8. At' = [At EXCEPT ![w] = [stage |-> StageOfRun, key |-> KeyOf(w), exit |-> "NONE"]]
    BY <1>1, <2>5, <2>7, AtChanges DEF SeesNoChange
  <2>9. Movers' = {x \in Movers : At[x].key # KeyOf(w)} \union {w}
    <3>1. ASSUME NEW x \in Worker \ {w}, MayMoveRun(x)
          PROVE  At[x].key # KeyOf(w)
      <4>1. Working(x) /\ At[x] = WorkOf(x)
        BY <3>1 DEF MayMoveRun, At
      <4>2. WorkOf(x).key = KeyOf(x)
        BY <4>1, BusyView
      <4> QED
        BY <2>1, <2>3, <3>1, <4>1, <4>2, OneMover
    <3> QED
      BY <1>1, <1>2, <2>4, <3>1 DEF Movers, SeesNoChange
  <2>10. At[w] = Delivery!NoWork
    BY <1>2 DEF At
  <2>11. Delivery!Start(w, KeyOf(w))
    BY <1>1, <2>6, <2>7, <2>8, <2>9, <2>10 DEF At, Movers, Delivery!Start
  <2> QED
    BY <2>11, WorkerStep DEF KeyOf
<1> QED
  BY <1>3, <1>4

(* Later checkpoints go on, or end it.                                     *)
LEMMA BeatView ==
  ASSUME DeliveryInv, NEW w \in Worker, Beat(w) \/ HandlerReturns(w)
  PROVE  DeliveryStep
<1>1. /\ run' = run /\ \A u \in Worker \ {w} : SeesNoChange(u)
      /\ pc[w] = "executing" /\ TypeOK
      /\ \A k \in StepKeys : /\ steps'[k].status = steps[k].status
                             /\ steps'[k].token = steps[k].token
  BY BeatUnseen DEF Beat, HandlerReturns, DeliveryInv, Inv
<1>2. CASE Drop(w)
  BY <1>1, <1>2, DroppedView, LeavesView, WorkerStep DEF Working
<1>3. CASE ~Drop(w)
  <2>1. /\ claim' = claim
        /\ \E phase \in {"executing", "finalizing", "failing"} : GoTo(w, phase)
    BY <1>3 DEF Beat, HandlerReturns, Checkpoint, CleanedUp
  <2>2. pc'[w] \in {"executing", "finalizing", "failing"}
    BY <1>1, <2>1 DEF GoTo, TypeOK
  <2>3. claim[w].key \in StepKeys
    BY <1>1, KeyFacts DEF DeliveryInv, Inv, ClaimInv
  <2>4. SeesNoChange(w)
    BY <1>1, <2>1, <2>2, <2>3 DEF SeesNoChange, WorkOf, MayMoveRun, Working, Decision, Holds
  <2> QED
    BY <1>1, <2>4, UnseenStep DEF DeliveryStep
<1> QED
  BY <1>2, <1>3

(* A step of a worker that touches neither the run nor the rows is unseen  *)
(* by the others.                                                          *)
LEMMA InMemory ==
  ASSUME DeliveryInv, NEW w \in Worker, Work(w) \/ Crash(w), run' = run, steps' = steps
  PROVE  \A u \in Worker \ {w} : SeesNoChange(u)
BY OthersKept, Undisturbed DEF DeliveryInv, Inv

(* An error of the handler is not yet a decision.                          *)
LEMMA HandlerFailsView ==
  ASSUME DeliveryInv, NEW w \in Worker, HandlerFails(w)
  PROVE  DeliveryStep
<1>1. /\ run' = run /\ steps' = steps /\ claim' = claim /\ pc[w] = "executing"
      /\ pc'[w] = "failing" /\ Work(w)
  BY DEF HandlerFails, GoTo, runVars, DeliveryInv, Inv, TypeOK, Work
<1>2. SeesNoChange(w)
  BY <1>1 DEF SeesNoChange, WorkOf, MayMoveRun, Working, Decision, Holds
<1> QED
  BY <1>1, <1>2, InMemory, UnseenStep DEF DeliveryStep

(* Who lost the claim, or died, leaves.                                    *)
LEMMA LostView ==
  ASSUME DeliveryInv, NEW w \in Worker, WriteLost(w) \/ Crash(w)
  PROVE  DeliveryStep
<1>1. run' = run /\ steps' = steps /\ Drop(w) /\ (Work(w) \/ Crash(w)) /\ TypeOK
  BY DEF WriteLost, Crash, runVars, Work, DeliveryInv, Inv
<1>2. ~Working(w)' /\ \A u \in Worker \ {w} : SeesNoChange(u)
  BY <1>1, DroppedView, InMemory
<1>3. CASE Working(w)
  BY <1>1, <1>2, <1>3, LeavesView, WorkerStep
<1>4. CASE ~Working(w)
  <2>1. SeesNoChange(w)
    BY <1>2, <1>4 DEF SeesNoChange, WorkOf, MayMoveRun
  <2> QED
    BY <1>1, <1>2, <2>1, UnseenStep DEF DeliveryStep
<1> QED
  BY <1>3, <1>4

(* finalize and fail decide with what they read.                           *)
LEMMA DecidesView ==
  ASSUME DeliveryInv, NEW w \in Worker, FinalizeRead(w) \/ FailRead(w)
  PROVE  DeliveryStep
<1>1. run' = run /\ steps' = steps /\ Work(w) /\ TypeOK /\ Working(w) /\ Decision(w) = "NONE"
  BY DEF FinalizeRead, FailRead, ReadForWrite, runVars, Work, DeliveryInv, Inv, Working,
         Decision
<1>2. \A u \in Worker \ {w} : SeesNoChange(u)
  BY <1>1, InMemory
<1>3. CASE Drop(w)
  BY <1>1, <1>2, <1>3, DroppedView, LeavesView, WorkerStep
<1>4. CASE ~Drop(w)
  <2>1. PICK to \in {"finalize_write", "fail_write"} :
          /\ GoTo(w, to) /\ claim' = [claim EXCEPT ![w].cancel = run.cancel]
    BY <1>4 DEF FinalizeRead, FailRead, ReadForWrite
  <2>2. /\ pc'[w] = to /\ claim'[w].cancel = run.cancel /\ run.cancel \in BOOLEAN
        /\ claim'[w].version = claim[w].version /\ claim'[w].key = claim[w].key
        /\ claim'[w].token = claim[w].token
    BY <1>1, <2>1 DEF GoTo, TypeOK, Claims
  <2> DEFINE exit == IF to = "fail_write" THEN "FAILED"
                     ELSE IF run.cancel THEN "CANCELLED" ELSE "ONWARDS"
  <2>3. exit \in {IF run.cancel THEN "CANCELLED" ELSE "ONWARDS", "FAILED"}
    OBVIOUS
  <2>4. Decision(w)' = exit
    BY <2>1, <2>2 DEF Decision
  <2>5. Working(w)' /\ (MayMoveRun(w)' <=> MayMoveRun(w))
    BY <1>1, <2>1, <2>2 DEF Working, MayMoveRun, Holds
  <2> HIDE DEF exit
  <2>6. WorkOf(w) = [stage |-> claim[w].version, key |-> KeyOf(w), exit |-> "NONE"]
    BY <1>1, BusyView
  <2>7. WorkOf(w)' = [stage |-> claim[w].version, key |-> KeyOf(w), exit |-> exit]
    BY <2>2, <2>4, <2>5 DEF WorkOf, KeyOf
  <2>8. WorkOf(w)' = [WorkOf(w) EXCEPT !.exit = exit]
    BY <2>6, <2>7
  <2>9. At[w] = WorkOf(w) /\ At' = [At EXCEPT ![w] = WorkOf(w)']
    BY <1>2, AtChanges DEF At, SeesNoChange
  <2>10. At' = [At EXCEPT ![w].exit = exit]
    BY <2>8, <2>9
  <2>11. Movers' = Movers
    BY <1>2, <2>5 DEF Movers, SeesNoChange
  <2>12. At[w] # Delivery!NoWork /\ At[w].exit = "NONE"
    BY <1>1, <2>9, BusyView
  <2>13. StageOfRun' = StageOfRun /\ Fate' = Fate
    BY <1>1 DEF StageOfRun, Fate, Terminal
  <2>14. Delivery!Decide(w, exit)
    BY <1>1, <2>3, <2>10, <2>11, <2>12, <2>13 DEF At, Movers, Delivery!Decide
  <2> QED
    BY <2>14, WorkerStep DEF exit
<1> QED
  BY <1>3, <1>4

(* After a commit nobody has claimed the version the run is at.            *)
LEMMA CommitsView ==
  ASSUME DeliveryInv, NEW k \in StepKeys, NEW row \in Rows, Commits(k, row),
         \A u \in Worker : pc'[u] # "idle" => pc'[u] = pc[u] /\ claim'[u] = claim[u]
  PROVE  /\ Movers' = {}
         /\ StageOfRun = run.version /\ Fate = "RUNNING"
         /\ run.version \in 1 .. PathLength - 1
<1>1. /\ run'.version = run.version + 1 /\ ~Terminal(run.state)
      /\ run.version \in Nat /\ run.version < PathLength /\ run.version >= 1
  BY PathFacts DEF Commits, Moves, DeliveryInv, Inv, TypeOK, Version
<1>2. ASSUME NEW u \in Worker, MayMoveRun(u)' PROVE FALSE
  <2>1. pc'[u] # "idle" /\ claim'[u].version = run'.version
    BY <1>2 DEF MayMoveRun, Working
  <2>2. pc[u] # "idle" /\ claim[u].version = run.version + 1
    BY <1>1, <2>1
  <2>3. claim[u].version <= run.version
    BY <2>2 DEF DeliveryInv, CurrentInv, Fits
  <2> QED
    BY <1>1, <2>2, <2>3
<1> QED
  BY <1>1, <1>2, PathFacts DEF Movers, StageOfRun, Fate

(* finalize and fail move the run as it was decided.                       *)
LEMMA MovesView ==
  ASSUME DeliveryInv, NEW w \in Worker, Finalize(w) \/ Fail(w)
  PROVE  DeliveryStep
<1>1. /\ pc[w] \in {"finalize_write", "fail_write"} /\ Holds(w) /\ Drop(w) /\ Work(w)
      /\ run.version = claim[w].version /\ TypeOK /\ Inv
  BY DEF Finalize, Fail, SaveRun, Work, DeliveryInv, Inv
<1>2. PICK row \in Rows :
        /\ Commits(claim[w].key, row)
        /\ row.to = IF pc[w] = "finalize_write" THEN FinalState(w) ELSE "FAILED"
  BY <1>1, FinalizeCommits, FailCommits DEF Finalize, Fail
<1>3. claim[w].key \in StepKeys /\ claim[w].key \in ClaimKeys
      /\ steps[claim[w].key].to = claim[w].key /\ claim[w].cancel \in BOOLEAN
  BY <1>1, WriterFacts
<1>4. \A u \in Worker \ {w} : pc'[u] = pc[u] /\ claim'[u] = claim[u]
  BY <1>1, OthersKept
<1>5. pc'[w] = "idle" /\ ~Working(w)'
  BY <1>1, DroppedView
<1>6. /\ Movers' = {} /\ StageOfRun = run.version /\ Fate = "RUNNING"
      /\ run.version \in 1 .. PathLength - 1
  BY <1>2, <1>3, <1>4, <1>5, CommitsView
<1>7. Working(w) /\ MayMoveRun(w) /\ w \in Movers
  BY <1>1 DEF Working, MayMoveRun, Movers
<1>8. At' = [At EXCEPT ![w] = Delivery!NoWork] /\ At[w] = WorkOf(w)
  <2>1. \A u \in Worker \ {w} : WorkOf(u)' = WorkOf(u)
    BY <1>4 DEF WorkOf, Working, Decision
  <2>2. WorkOf(w)' = Delivery!NoWork
    BY <1>5 DEF WorkOf, Delivery!NoWork
  <2> QED
    BY <2>1, <2>2, AtChanges DEF At
<1>9. At[w].exit = Decision(w)
  BY <1>7, <1>8, BusyView
<1>10. /\ run'.state = row.to /\ run'.version = run.version + 1
       /\ run'.cancel = claim[w].cancel
  BY <1>2 DEF Commits, Moves, Finalize, Fail, SaveRun
<1>11. CASE pc[w] = "finalize_write" /\ ~claim[w].cancel
  <2>1. Decision(w) = "ONWARDS" /\ run'.cancel = FALSE
    BY <1>3, <1>10, <1>11 DEF Decision
  <2>2. claim[w].key # "CANCELLED" /\ Fits(claim[w].version, claim[w].key)
    BY <1>11 DEF DeliveryInv, CurrentInv
  <2>3. run'.state = MainStatePath[run.version + 1]
    BY <1>1, <1>2, <1>3, <1>10, <1>11, <2>2 DEF Fits, FinalState
  <2>4. CASE run.version = PathLength - 1
    <3>1. run'.state = "COMPLETED"
      BY <1>6, <2>3, <2>4, PathFacts
    <3>2. StageOfRun' = StageOfRun /\ Fate' = "COMPLETED"
      BY <1>6, <1>10, <3>1 DEF StageOfRun, Fate, Terminal, TerminalStates
    <3>3. Delivery!MoveOnwards
      BY <1>6, <2>1, <2>4, <3>2 DEF Delivery!MoveOnwards
    <3> QED
      BY <1>6, <1>7, <1>8, <1>9, <2>1, <3>3, WorkerStep DEF At, Movers, Delivery!Move
  <2>5. CASE run.version # PathLength - 1
    <3>1. run.version + 1 \in 1 .. PathLength - 1
      BY <1>6, <2>5, PathFacts
    <3>2. ~Terminal(run'.state)
      BY <2>3, <3>1, StagesAreOpen
    <3>3. StageOfRun' = StageOfRun + 1 /\ Fate' = Fate
      BY <1>6, <1>10, <3>2 DEF StageOfRun, Fate, Terminal
    <3>4. Delivery!MoveOnwards
      BY <1>6, <2>1, <2>5, <3>3 DEF Delivery!MoveOnwards
    <3> QED
      BY <1>6, <1>7, <1>8, <1>9, <2>1, <3>4, WorkerStep DEF At, Movers, Delivery!Move
  <2> QED
    BY <2>4, <2>5
<1>12. CASE pc[w] = "fail_write" \/ claim[w].cancel
  <2>1. run'.state = Decision(w) /\ Decision(w) \in {"CANCELLED", "FAILED"}
    BY <1>1, <1>2, <1>10, <1>12 DEF Decision, FinalState
  <2>2. StageOfRun' = StageOfRun /\ Fate' = Decision(w)
    BY <1>6, <1>10, <2>1 DEF StageOfRun, Fate, Terminal, TerminalStates
  <2>3. run'.cancel \in BOOLEAN
    BY <1>3, <1>10
  <2>4. Delivery!MoveToEnd(At[w].exit)
    BY <1>9, <2>2, <2>3 DEF Delivery!MoveToEnd
  <2> QED
    BY <1>6, <1>7, <1>8, <1>9, <2>1, <2>4, WorkerStep DEF At, Movers, Delivery!Move
<1> QED
  BY <1>1, <1>3, <1>11, <1>12

(* The request to cancel.                                                  *)
LEMMA CancelView ==
  ASSUME DeliveryInv, Cancel
  PROVE  DeliveryStep
<1>1. /\ ~Terminal(run.state) /\ UNCHANGED <<steps, pc, claim>>
      /\ run'.state = run.state /\ run'.version = run.version /\ run'.cancel = TRUE
  BY DEF Cancel, DeliveryInv, Inv, TypeOK
<1>2. \A u \in Worker : SeesNoChange(u)
  BY <1>1, Undisturbed
<1>3. At' = At /\ Movers' = Movers
  BY <1>2 DEF At, Movers, SeesNoChange
<1>4. Fate = "RUNNING" /\ Fate' = Fate /\ StageOfRun' = StageOfRun
  BY <1>1 DEF Fate, StageOfRun, Terminal
<1>5. Delivery!Ask
  BY <1>1, <1>3, <1>4 DEF At, Movers, Delivery!Ask
<1> QED
  BY <1>5 DEF DeliveryStep, Delivery!DeliveryNext

(* The recovery budget is spent.                                           *)
LEMMA GivesUpView ==
  ASSUME DeliveryInv, ReconcileGivesUp
  PROVE  DeliveryStep
<1>1. PICK row \in Rows : Commits("RECOVERY", row) /\ row.to = "FAILED"
  BY RecoveryCommits DEF DeliveryInv
<1>2. UNCHANGED <<pc, claim>> /\ run'.cancel = run.cancel
  BY DEF ReconcileGivesUp, SaveRun
<1>3. /\ Movers' = {} /\ StageOfRun = run.version /\ Fate = "RUNNING"
      /\ run.version \in 1 .. PathLength - 1
  BY <1>1, <1>2, KeyFacts, CommitsView
<1>4. run'.state = "FAILED" /\ run'.version = run.version + 1
  BY <1>1 DEF Commits, Moves
<1>5. StageOfRun' = StageOfRun /\ Fate' = "FAILED"
  BY <1>3, <1>4 DEF StageOfRun, Fate, Terminal, TerminalStates
<1>6. At' = At
  BY <1>2 DEF At, WorkOf, Working, Decision
<1>7. Delivery!Exhaust
  BY <1>2, <1>3, <1>5, <1>6 DEF At, Movers, Delivery!Exhaust
<1> QED
  BY <1>7 DEF DeliveryStep, Delivery!DeliveryNext

(* Leases, messages and the locks of the reconciler are not seen.          *)
LEMMA SurroundingsView ==
  ASSUME DeliveryInv,
         \/ \E k \in StepKeys : LeaseExpires(k)
         \/ Deliver
         \/ \E v \in Version : ReconcileLock(v)
         \/ ReconcileReopen \/ ReconcileReleases \/ UNCHANGED vars
  PROVE  DeliveryStep
<1>1. run' = run /\ pc' = pc /\ claim' = claim
  BY DEF LeaseExpires, Deliver, Dispatch, DispatchUncommitted, DispatchFails, Publish,
         ReconcileLock, ReconcileReopen, ReconcileReleases, runVars, vars
<1>2. ASSUME NEW k \in StepKeys
      PROVE  steps'[k].status = steps[k].status /\ steps'[k].token = steps[k].token
  <2>1. CASE steps' = steps
    BY <2>1
  <2>2. ASSUME NEW j \in StepKeys, LeaseExpires(j)
        PROVE  steps'[k].status = steps[k].status /\ steps'[k].token = steps[k].token
    <3>1. steps[k] \in Rows /\ steps' = [steps EXCEPT ![j].leased = FALSE]
      BY <2>2 DEF LeaseExpires, DeliveryInv, Inv, TypeOK
    <3>2. CASE k = j
      <4>1. steps'[k] = [steps[k] EXCEPT !.leased = FALSE]
        BY <3>1, <3>2 DEF DeliveryInv, Inv, TypeOK
      <4> QED
        BY <3>1, <4>1, LeasedRow
    <3>3. CASE k # j
      BY <3>1, <3>3 DEF DeliveryInv, Inv, TypeOK
    <3> QED
      BY <3>2, <3>3
  <2> QED
    BY <2>1, <2>2 DEF Deliver, Dispatch, DispatchUncommitted, DispatchFails, Publish,
                      ReconcileLock, ReconcileReopen, ReconcileReleases, runVars, vars
<1>3. ASSUME NEW u \in Worker PROVE SeesNoChange(u)
  <2>1. Working(u) => claim[u].key \in StepKeys
    BY KeyFacts DEF DeliveryInv, Inv, ClaimInv, Working
  <2> QED
    BY <1>1, <1>2, <2>1, Undisturbed
<1> QED
  BY <1>1, <1>3, UnseenStep DEF DeliveryStep

(* Every step is a step of the delivery or is not seen.                    *)
LEMMA NextDelivers ==
  ASSUME DeliveryInv, [Next]_vars
  PROVE  DeliveryStep
<1>1. ASSUME NEW w \in Worker, Work(w) \/ Crash(w) PROVE DeliveryStep
  BY <1>1, ReadsView, ClaimsView, ReclaimsView, BeginView, BeatView, HandlerFailsView,
     DecidesView, MovesView, LostView DEF Work
<1> QED
  BY <1>1, CancelView, GivesUpView, SurroundingsView DEF Next, Reconcile

(* Nobody works at first.                                                  *)
LEMMA InitDelivers ==
  ASSUME Init
  PROVE  Delivery!DeliveryInit
<1>1. /\ run.state = MainStatePath[1] /\ run.version = 1 /\ run.cancel = FALSE
      /\ \A w \in Worker : pc[w] = "idle"
  BY DEF Init
<1>2. ~Terminal(run.state)
  <2>1. 1 \in 1 .. PathLength - 1
    BY PathFacts
  <2> QED
    BY <1>1, <2>1, StagesAreOpen
<1>3. \A w \in Worker : WorkOf(w) = Delivery!NoWork /\ ~MayMoveRun(w)
  BY <1>1, IdleView DEF Working
<1>4. StageOfRun = 1 /\ Fate = "RUNNING"
  BY <1>1, <1>2 DEF StageOfRun, Fate
<1> QED
  BY <1>1, <1>3, <1>4 DEF Delivery!DeliveryInit

(* Step rows, tokens, leases, messages and recovery implement what the     *)
(* stage handlers rely on (StageDelivery): at most one worker may move the *)
(* run on from a stage and one cancel it, none from an earlier stage, and  *)
(* only a decision taken before the request overlooks a cancellation.      *)
THEOREM DeliveryRefinement == Spec => ImplementsDelivery
<1>1. Init => Delivery!DeliveryInit
  BY InitDelivers
<1>2. Inv /\ CurrentInv /\ [Next]_vars =>
        [Delivery!DeliveryNext]_(Delivery!deliveryVars)
  BY NextDelivers DEF DeliveryInv, DeliveryStep
<1>3. Inv /\ CurrentInv /\ [Next]_vars => CurrentInv'
  BY NextCurrentInv
<1> QED
  BY <1>1, <1>2, <1>3, InitCurrentInv, Invariance, PTL
     DEF Spec, ImplementsDelivery, Delivery!DeliverySpec
=============================================================================
