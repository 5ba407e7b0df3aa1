---------------------------- MODULE RunExecution ----------------------------
(***************************************************************************)
(* The reliable-run core of ShadowOps for one audit run.                   *)
(*                                                                         *)
(* PostgreSQL holds the truth: the run row, its step rows (unique by step  *)
(* key) and its outbox events (unique by run version).  Redis carries only *)
(* the identifiers of outbox events, at least once, and may lose them.     *)
(* Any number of Celery worker processes execute events concurrently; the  *)
(* API cancels; the dispatcher publishes; the reconciler reopens stale     *)
(* deliveries or fails the run when its recovery budget is spent.          *)
(*                                                                         *)
(* Granularity.  A transaction at READ COMMITTED is one action when what   *)
(* it read cannot change before its conditional writes, and two actions (a *)
(* read and a write) when it can: claim, finalize, fail and reconcile.     *)
(*                                                                         *)
(* Time.  Leases, delivery ages and retry delays are not measured: a lease *)
(* may expire at any moment (LeaseExpires), a published event may be stale *)
(* and an unpublished one available at any moment.  Workers pause for any  *)
(* time between two actions.                                               *)
(***************************************************************************)
EXTENDS RunStates, FiniteSets

CONSTANTS
  Worker,       \* worker processes that execute run events
  MaxAttempts,  \* RunReconciler max_attempts: deliveries before giving up
  Lossy,        \* versions whose message Redis may lose
  Token         \* the UUIDs that claims of a step row are told apart by

NoToken == "NONE"

ASSUME BoundAssumption ==
  /\ MaxAttempts \in Nat \ {0}
  /\ NoToken \notin Token
  /\ Lossy \subseteq 1 .. PathLength

VARIABLES
  run,      \* the audit_runs row: state, version, cancel_requested_at set?
  steps,    \* the run_steps rows by step key
  inserted, \* rows inserted so far: the order of started_at
  events,   \* the outbox_events rows by aggregate version
  broker,   \* versions whose event has at least one copy in Redis
  pc,       \* where each worker stands in process_run_event
  claim,    \* what each worker holds in memory
  recon     \* version of the event row the reconciler has locked, or 0

runVars == <<run, steps, inserted, events>>
vars == <<run, steps, inserted, events, broker, pc, claim, recon>>

-----------------------------------------------------------------------------
(* States, rows and their types.                                           *)

Version == 1 .. PathLength

(* A step key is run:target:1 for a claimed target and                     *)
(* run:FAILED:recovery:version for the reconciler's own row.               *)
StageKeys == {MainStatePath[i] : i \in 2 .. PathLength}
ClaimKeys == StageKeys \union {"CANCELLED"}
StepKeys == ClaimKeys \union {"RECOVERY"}

FinishedStatuses == {"SUCCEEDED", "FAILED", "CANCELLED"}

(* resulting = 0 stands for a null resulting_run_version.                  *)
Rows == [status : {"ABSENT", "RUNNING"} \union FinishedStatuses,
         to : RunState \union {"NONE"}, expected : Nat, resulting : Nat,
         token : Token \union {NoToken}, leased : BOOLEAN, started : Nat]

NoRow == [status |-> "ABSENT", to |-> "NONE", expected |-> 0, resulting |-> 0,
          token |-> NoToken, leased |-> FALSE, started |-> 0]

(* The payload of an event never expects a terminal state.                 *)
Events == [present : BOOLEAN, state : OpenStates \union {"NONE"},
           published : BOOLEAN, attempts : 0 .. MaxAttempts]

NoEvent ==
  [present |-> FALSE, state |-> "NONE", published |-> FALSE, attempts |-> 0]

NewEvent(state) ==
  [present |-> TRUE, state |-> state, published |-> FALSE, attempts |-> 0]

(* cancel is the value of cancel_requested_at in the worker's copy of the  *)
(* run, from the read to the write of one transaction.                     *)
Claims == [version : Nat, key : StepKeys \union {"NONE"},
           token : Token \union {NoToken}, cancel : BOOLEAN]

NoClaim ==
  [version |-> 0, key |-> "NONE", token |-> NoToken, cancel |-> FALSE]

Phases == {"idle", "claiming", "claimed", "executing", "finalizing",
           "finalize_write", "failing", "fail_write"}

TypeOK ==
  /\ run \in [state : RunState, version : Version, cancel : BOOLEAN]
  /\ steps \in [StepKeys -> Rows]
  /\ inserted \in Nat
  /\ events \in [Version -> Events]
  /\ broker \subseteq Version
  /\ pc \in [Worker -> Phases]
  /\ claim \in [Worker -> Claims]
  /\ recon \in {0} \union Version

-----------------------------------------------------------------------------

Init ==
  /\ run = [state |-> MainStatePath[1], version |-> 1, cancel |-> FALSE]
  /\ steps = [k \in StepKeys |-> NoRow]
  /\ inserted = 0
  /\ events = [v \in Version |->
                 IF v = 1 THEN NewEvent(MainStatePath[1]) ELSE NoEvent]
  /\ broker = {}
  /\ pc = [w \in Worker |-> "idle"]
  /\ claim = [w \in Worker |-> NoClaim]
  /\ recon = 0

-----------------------------------------------------------------------------
(* Claiming a step (RunExecutionService.claim).                            *)

GoTo(w, phase) == pc' = [pc EXCEPT ![w] = phase]

(* The worker is done with the event: it finished, gave up, or died.       *)
Drop(w) ==
  /\ pc' = [pc EXCEPT ![w] = "idle"]
  /\ claim' = [claim EXCEPT ![w] = NoClaim]

(* A worker receives the event of version v and reads event and run in the *)
(* claim transaction.  A delivery for a terminal run or another version is *)
(* ignored.  The copy stays in Redis: a crash or a second send delivers it *)
(* again.                                                                  *)
ReadRun(w, v) ==
  /\ pc[w] = "idle"
  /\ v \in broker
  /\ ~Terminal(run.state)
  /\ run.state = events[v].state
  /\ run.version = v
  /\ GoTo(w, "claiming")
  /\ \E target \in ClaimKeys :
       /\ IF run.cancel THEN target = "CANCELLED"
                        ELSE IsNextMainState(run.state, target)
       /\ claim' = [claim EXCEPT ![w] =
                      [version |-> v, key |-> target, token |-> NoToken,
                       cancel |-> run.cancel]]
  /\ UNCHANGED <<runVars, broker, recon>>

(* steps.get_current: the RUNNING row that started last.                   *)
IsCurrent(k) ==
  /\ steps[k].status = "RUNNING"
  /\ \A j \in StepKeys :
       steps[j].status = "RUNNING" => steps[j].started <= steps[k].started

(* The owner of the step in flight for version v holds a live lease.       *)
OwnerInFlight(v) ==
  \E k \in StepKeys : IsCurrent(k) /\ steps[k].expected = v /\ steps[k].leased

(* With cancellation requested, the guard leaves the live owner alone.     *)
MayClaim(w) == ~(claim[w].cancel /\ OwnerInFlight(claim[w].version))

(* uuid4 gives each claim a token of its own.  Tokens are only compared,   *)
(* the row's with a worker's, so one that neither has is as good as new.   *)
FreshTokens(k) ==
  {t \in Token :
     t # steps[k].token /\ \A w \in Worker : claim[w].key = k => claim[w].token # t}

(* The claimer keeps what RETURNING gave it: a reclaimed row still has the *)
(* version it was first inserted for.                                      *)
TakeClaim(w, row) ==
  /\ steps' = [steps EXCEPT ![claim[w].key] = row]
  /\ claim' = [claim EXCEPT ![w].version = row.expected,
                             ![w].token = row.token]
  /\ GoTo(w, "claimed")

ClaimNewStep(w) ==
  /\ pc[w] = "claiming"
  /\ MayClaim(w)
  /\ steps[claim[w].key].status = "ABSENT"
  /\ inserted' = inserted + 1
  /\ \E t \in FreshTokens(claim[w].key) :
       TakeClaim(w, [status |-> "RUNNING", to |-> claim[w].key,
                     expected |-> claim[w].version, resulting |-> 0,
                     token |-> t, leased |-> TRUE, started |-> inserted + 1])
  /\ UNCHANGED <<run, events, broker, recon>>

(* Fault: a finished row without a lease is taken over as well.            *)
CanReclaimFinished(row) == ~row.leased

(* ON CONFLICT DO UPDATE where the row is RUNNING and its lease is over.   *)
CanReclaim(row) == row.status = "RUNNING" /\ ~row.leased

(* Fault: the new owner shares the claim token of the old one.             *)
ReclaimKeepsToken(w) ==
  /\ pc[w] = "claiming"
  /\ MayClaim(w)
  /\ CanReclaim(steps[claim[w].key])
  /\ TakeClaim(w, [steps[claim[w].key] EXCEPT !.leased = TRUE])
  /\ UNCHANGED <<run, inserted, events, broker, recon>>

ReclaimStep(w) ==
  LET row == steps[claim[w].key] IN
  /\ pc[w] = "claiming"
  /\ MayClaim(w)
  /\ CanReclaim(row)
  /\ \E t \in FreshTokens(claim[w].key) :
       TakeClaim(w, [row EXCEPT !.token = t, !.leased = TRUE])
  /\ UNCHANGED <<run, inserted, events, broker, recon>>

ClaimRefused(w) ==
  LET row == steps[claim[w].key] IN
  /\ pc[w] = "claiming"
  /\ \/ ~MayClaim(w)
     \/ row.status # "ABSENT" /\ ~CanReclaim(row)
  /\ Drop(w)
  /\ UNCHANGED <<runVars, broker, recon>>

-----------------------------------------------------------------------------
(* Executing the stage (process_run_event).                                *)

(* The fencing condition of heartbeat, complete and fail.                  *)
Holds(w) ==
  /\ steps[claim[w].key].status = "RUNNING"
  /\ steps[claim[w].key].token = claim[w].token

(* Fault: the heartbeat renews the lease of the row whoever owns it.       *)
CheckpointUnfenced(w, next, cancelled) ==
  /\ steps[claim[w].key].status = "RUNNING"
  /\ steps' = [steps EXCEPT ![claim[w].key].leased = TRUE]
  /\ \E phase \in IF run.cancel THEN cancelled ELSE {next} : GoTo(w, phase)
  /\ UNCHANGED <<run, inserted, events, broker, claim, recon>>

(* Fault: a worker whose row is its own goes on, wherever the run is.      *)
CheckpointAnyVersion(w, next, cancelled) ==
  \/ ~Holds(w) /\ Drop(w) /\ UNCHANGED <<runVars, broker, recon>>
  \/ /\ Holds(w)
     /\ steps' = [steps EXCEPT ![claim[w].key].leased = TRUE]
     /\ \E phase \in IF run.cancel THEN cancelled ELSE {next} : GoTo(w, phase)
     /\ UNCHANGED <<run, inserted, events, broker, claim, recon>>

(* heartbeat, then get_run_for_claim.  A lost claim or a moved run ends    *)
(* the delivery; a requested cancellation leaves the stage.                *)
Checkpoint(w, next, cancelled) ==
  \/ /\ ~Holds(w)
     /\ Drop(w)
     /\ UNCHANGED <<runVars, broker, recon>>
  \/ /\ Holds(w)
     /\ steps' = [steps EXCEPT ![claim[w].key].leased = TRUE]
     /\ \/ run.version # claim[w].version /\ Drop(w)
        \/ /\ run.version = claim[w].version
           /\ \E phase \in IF run.cancel THEN cancelled ELSE {next} :
                GoTo(w, phase)
           /\ UNCHANGED claim
     /\ UNCHANGED <<run, inserted, events, broker, recon>>

(* A cancelled stage is finalized, after the environment of the run was    *)
(* removed; if that fails (CLEANUP_FAILED) the run fails instead.          *)
CleanedUp == {"finalizing", "failing"}

(* The first heartbeat and read after the claim.                           *)
Begin(w) == pc[w] = "claimed" /\ Checkpoint(w, "executing", CleanedUp)

(* A checkpoint inside the stage handler.                                  *)
Beat(w) == pc[w] = "executing" /\ Checkpoint(w, "executing", CleanedUp)

(* The handler returns and the last checkpoint is taken, with no clean-up. *)
HandlerReturns(w) ==
  pc[w] = "executing" /\ Checkpoint(w, "finalizing", {"finalizing"})

(* The handler raises RepositoryInputError.                                *)
HandlerFails(w) ==
  /\ pc[w] = "executing"
  /\ GoTo(w, "failing")
  /\ UNCHANGED <<runVars, broker, claim, recon>>

(* finalize and fail read the run first and write later: the copy of       *)
(* cancel_requested_at they read is the one they write back.               *)
ReadForWrite(w, from, to) ==
  /\ pc[w] = from
  /\ \/ run.version # claim[w].version /\ Drop(w)
     \/ /\ run.version = claim[w].version
        /\ GoTo(w, to)
        /\ claim' = [claim EXCEPT ![w].cancel = run.cancel]
  /\ UNCHANGED <<runVars, broker, recon>>

FinalizeRead(w) == ReadForWrite(w, "finalizing", "finalize_write")
FailRead(w) == ReadForWrite(w, "failing", "fail_write")

FinishedRow(row, status, state, resulting) ==
  [row EXCEPT !.status = status, !.to = state, !.resulting = resulting,
              !.leased = FALSE]

(* Fault: the run is updated whatever its version is by now.               *)
SaveRunUnconditionally(state, expected, cancel) ==
  run' = [state |-> state, version |-> expected + 1, cancel |-> cancel]

(* The compare-and-set of runs.save at the version the writer read.        *)
SaveRun(state, expected, cancel) ==
  /\ run.version = expected
  /\ run' = [state |-> state, version |-> expected + 1, cancel |-> cancel]

(* Faults: an event for a finished run too; for every end but COMPLETED.   *)
AddEventAlways(state, version) ==
  events' = [events EXCEPT ![version] = NewEvent(state)]

AddEventUnlessCompleted(state, version) ==
  IF state = "COMPLETED" THEN UNCHANGED events
                         ELSE AddEventAlways(state, version)

(* The event of the new version, in the same transaction.                  *)
AddNextEvent(state, version) ==
  IF Terminal(state)
  THEN UNCHANGED events
  ELSE /\ ~events[version].present
       /\ events' = [events EXCEPT ![version] = NewEvent(state)]

(* Fault: finalize commits the claimed stage even if cancelled meanwhile.  *)
ClaimedState(w) == steps[claim[w].key].to

(* The state a finalize commits.                                           *)
FinalState(w) ==
  IF claim[w].cancel THEN "CANCELLED" ELSE steps[claim[w].key].to

Finalize(w) ==
  LET key == claim[w].key
      next == claim[w].version + 1
      final == FinalState(w)
      status == IF final = "CANCELLED" THEN "CANCELLED" ELSE "SUCCEEDED"
  IN
  /\ pc[w] = "finalize_write"
  /\ Holds(w)
  /\ CanTransition(run.state, final)
  /\ steps' = [steps EXCEPT ![key] = FinishedRow(@, status, final, next)]
  /\ SaveRun(final, claim[w].version, claim[w].cancel)
  /\ AddNextEvent(final, next)
  /\ Drop(w)
  /\ UNCHANGED <<inserted, broker, recon>>

Fail(w) ==
  LET key == claim[w].key
      next == claim[w].version + 1
  IN
  /\ pc[w] = "fail_write"
  /\ Holds(w)
  /\ CanTransition(run.state, "FAILED")
  /\ steps' = [steps EXCEPT ![key] = FinishedRow(@, "FAILED", "FAILED", next)]
  /\ SaveRun("FAILED", claim[w].version, claim[w].cancel)
  /\ Drop(w)
  /\ UNCHANGED <<inserted, events, broker, recon>>

(* ClaimLostError or OptimisticConcurrencyError: the transaction rolls     *)
(* back and the delivery ends.                                             *)
WriteLost(w) ==
  /\ pc[w] \in {"finalize_write", "fail_write"}
  /\ ~Holds(w) \/ run.version # claim[w].version
  /\ Drop(w)
  /\ UNCHANGED <<runVars, broker, recon>>

(* The process dies, or an exception nobody catches ends the task: what    *)
(* the worker had not committed is gone, the row stays RUNNING.            *)
Crash(w) ==
  /\ pc[w] # "idle"
  /\ Drop(w)
  /\ UNCHANGED <<runVars, broker, recon>>

(* Time passes the lease_expires_at of a row.                              *)
LeaseExpires(k) ==
  /\ steps[k].status = "RUNNING"
  /\ steps[k].leased
  /\ steps' = [steps EXCEPT ![k].leased = FALSE]
  /\ UNCHANGED <<run, inserted, events, broker, pc, claim, recon>>

-----------------------------------------------------------------------------
(* Cancellation (RunService.cancel).                                       *)

(* wake_current: the event of the current version becomes unpublished.     *)
WakeCurrent == events' = [events EXCEPT ![run.version].published = FALSE]

(* Fault: the request is saved as a new version of the run.                *)
CancelBumpsVersion ==
  /\ ~Terminal(run.state)
  /\ ~run.cancel
  /\ run.version < PathLength
  /\ run' = [run EXCEPT !.cancel = TRUE, !.version = @ + 1]
  /\ WakeCurrent
  /\ UNCHANGED <<steps, inserted, broker, pc, claim, recon>>

(* The request does not change the version.  Its transaction updates the   *)
(* event row, so it waits while the reconciler has that row locked.        *)
Cancel ==
  /\ ~Terminal(run.state)
  /\ ~run.cancel
  /\ recon # run.version
  /\ run' = [run EXCEPT !.cancel = TRUE]
  /\ WakeCurrent
  /\ UNCHANGED <<steps, inserted, broker, pc, claim, recon>>

-----------------------------------------------------------------------------
(* Delivery (OutboxDispatcher.dispatch_batch) and Redis.                   *)

(* publish_attempts + 1; only its comparison with MaxAttempts is read.     *)
Attempted(n) == IF n < MaxAttempts THEN n + 1 ELSE n

Unpublished(v) == events[v].present /\ ~events[v].published

(* CeleryEventPublisher.publish.  Redis is not persistent: every copy of a *)
(* message may be lost.  That it is lost only later needs no step of its   *)
(* own, because nothing makes a worker read what is there.                 *)
Publish(v) ==
  \/ broker' = broker \union {v}
  \/ v \in Lossy /\ broker' = broker \ {v}

(* publish, mark_published and commit.                                     *)
Dispatch(v) ==
  /\ Unpublished(v)
  /\ Publish(v)
  /\ events' = [events EXCEPT ![v].published = TRUE,
                              ![v].attempts = Attempted(@)]
  /\ UNCHANGED <<run, steps, inserted, pc, claim, recon>>

(* The dispatcher dies between publish and commit: sent, still unpublished. *)
DispatchUncommitted(v) ==
  /\ Unpublished(v)
  /\ Publish(v)
  /\ UNCHANGED <<runVars, pc, claim, recon>>

(* The broker refuses: mark_failed counts an attempt all the same.         *)
DispatchFails(v) ==
  /\ Unpublished(v)
  /\ events' = [events EXCEPT ![v].attempts = Attempted(@)]
  /\ UNCHANGED <<run, steps, inserted, broker, pc, claim, recon>>

-----------------------------------------------------------------------------
(* Recovery (RunReconciler.reconcile_batch).                               *)

(* Fault: a dead worker's row protects its event after the lease is over.  *)
HasRunningStep(v) ==
  \E k \in StepKeys :
    steps[k].status = "RUNNING" /\ steps[k].expected = v

HasLiveStep(v) ==
  \E k \in StepKeys : /\ steps[k].status = "RUNNING"
                      /\ steps[k].expected = v
                      /\ steps[k].leased

(* lock_stale_deliveries selects and locks the event.                      *)
ReconcileLock(v) ==
  /\ recon = 0
  /\ events[v].present
  /\ events[v].published
  /\ run.version = v
  /\ ~Terminal(run.state)
  /\ ~HasLiveStep(v)
  /\ recon' = v
  /\ UNCHANGED <<runVars, broker, pc, claim>>

(* Fault: reopening a delivery begins a new count of its attempts.         *)
ReopenForgetsAttempts ==
  /\ recon # 0
  /\ run.version = recon
  /\ events[recon].attempts < MaxAttempts
  /\ events' = [events EXCEPT ![recon].published = FALSE,
                              ![recon].attempts = 0]
  /\ recon' = 0
  /\ UNCHANGED <<run, steps, inserted, broker, pc, claim>>

ReconcileReopen ==
  /\ recon # 0
  /\ run.version = recon
  /\ events[recon].attempts < MaxAttempts
  /\ events' = [events EXCEPT ![recon].published = FALSE]
  /\ recon' = 0
  /\ UNCHANGED <<run, steps, inserted, broker, pc, claim>>

(* RECOVERY_EXHAUSTED: the run fails, with a FAILED step row of its own.   *)
ReconcileGivesUp ==
  /\ recon # 0
  /\ events[recon].attempts >= MaxAttempts
  /\ CanTransition(run.state, "FAILED")
  /\ SaveRun("FAILED", recon, run.cancel)
  /\ inserted' = inserted + 1
  /\ steps' = [steps EXCEPT !["RECOVERY"] =
                 [status |-> "FAILED", to |-> "FAILED", expected |-> recon,
                  resulting |-> recon + 1, token |-> NoToken, leased |-> FALSE,
                  started |-> inserted + 1]]
  /\ recon' = 0
  /\ UNCHANGED <<events, broker, pc, claim>>

(* The run has moved on, or the batch rolls back: a crash, or another run  *)
(* of the batch hit OptimisticConcurrencyError.                            *)
ReconcileReleases ==
  /\ recon # 0
  /\ recon' = 0
  /\ UNCHANGED <<runVars, broker, pc, claim>>

-----------------------------------------------------------------------------

Work(w) ==
  \/ \E v \in Version : ReadRun(w, v)
  \/ ClaimNewStep(w) \/ ReclaimStep(w) \/ ClaimRefused(w)
  \/ Begin(w) \/ Beat(w) \/ HandlerReturns(w) \/ HandlerFails(w)
  \/ FinalizeRead(w) \/ Finalize(w)
  \/ FailRead(w) \/ Fail(w)
  \/ WriteLost(w)

Deliver ==
  \E v \in Version :
    Dispatch(v) \/ DispatchUncommitted(v) \/ DispatchFails(v)

Reconcile ==
  \/ \E v \in Version : ReconcileLock(v)
  \/ ReconcileReopen \/ ReconcileGivesUp \/ ReconcileReleases

Next ==
  \/ \E w \in Worker : Work(w) \/ Crash(w)
  \/ \E k \in StepKeys : LeaseExpires(k)
  \/ Cancel
  \/ Deliver
  \/ Reconcile

Spec == Init /\ [][Next]_vars

(* Fairness.  Celery beat runs dispatch and reconcile for ever, leases run *)
(* out, a stage handler returns (its waits are bounded by timeouts).  A    *)
(* batch of the reconciler is not rolled back for ever.  Nothing is asked  *)
(* of workers picking messages up, nor of Redis keeping them.              *)
Fairness ==
  /\ \A v \in Version : WF_vars(Dispatch(v))
  /\ \A v \in Version : WF_vars(ReconcileLock(v))
  /\ SF_vars(ReconcileReopen)
  /\ SF_vars(ReconcileGivesUp)
  /\ WF_vars(ReconcileReleases)
  /\ \A k \in StepKeys : WF_vars(LeaseExpires(k))
  /\ \A w \in Worker : WF_vars(HandlerReturns(w))

FairSpec == Spec /\ Fairness

-----------------------------------------------------------------------------
(* Safety.                                                                 *)

Produced(k, n) ==
  steps[k].status \in FinishedStatuses /\ steps[k].resulting = n

(* Every version after the first was produced by exactly one step, which   *)
(* was claimed at the version before; no step claims a version the run     *)
(* does not have, and the last producer names the run's state.  Two        *)
(* claims of one version (a stage and its cancellation) never both commit. *)
OneProducerPerVersion ==
  /\ \A n \in 2 .. run.version :
       \E k \in StepKeys :
         /\ Produced(k, n)
         /\ steps[k].expected = n - 1
         /\ n = run.version => steps[k].to = run.state
         /\ \A j \in StepKeys : Produced(j, n) => j = k
  /\ \A k \in StepKeys :
       steps[k].status \in FinishedStatuses =>
         steps[k].resulting \in 2 .. run.version

(* The outbox holds exactly one event for each version the run left and    *)
(* one for the version an unfinished run is in, so there is always an      *)
(* event to deliver or recover, and a finished run has none to come.       *)
OneEventPerVersion ==
  \A v \in Version :
    /\ events[v].present <=>
         v < run.version \/ (v = run.version /\ ~Terminal(run.state))
    /\ v = run.version /\ events[v].present => events[v].state = run.state

(* The version tells the stage: an unfinished run of version v is in the   *)
(* v-th state of the main path and only a run that went all the way is     *)
(* COMPLETED, whatever was retried, reclaimed or woken in between.         *)
StateFollowsVersion ==
  /\ ~Terminal(run.state) => run.state = MainStatePath[run.version]
  /\ run.state = "COMPLETED" => run.version = PathLength

(* A worker between its claim and the end of its delivery.                 *)
Claimed(w) == pc[w] \notin {"idle", "claiming"}

(* Of the workers that claimed one step, at most one passes its fence: the *)
(* one that claimed last.                                                  *)
OneOwnerPerStep ==
  \A w1, w2 \in Worker :
    /\ Claimed(w1) /\ Holds(w1)
    /\ Claimed(w2) /\ Holds(w2)
    /\ claim[w1].key = claim[w2].key
    => w1 = w2

(* A worker whose claim was taken over, or whose step is finished, changes *)
(* nothing of the run, its steps or its events when it goes on.            *)
SupersededNeverWrites ==
  [][\A w \in Worker :
       Claimed(w) /\ ~Holds(w) /\ pc'[w] # pc[w] => UNCHANGED runVars]_vars

(* A finished run and a finished step never change again, whatever is      *)
(* still in Redis or in the hands of a slow worker.                        *)
FinishedIsFinal ==
  [][/\ Terminal(run.state) => UNCHANGED run
     /\ \A k \in StepKeys :
          steps[k].status \in FinishedStatuses => steps'[k] = steps[k]]_vars

(* A writer that read the run before the cancellation was requested.       *)
ReadBeforeCancel(w) ==
  /\ pc[w] = "finalize_write"
  /\ claim[w].version = run.version
  /\ ~claim[w].cancel

(* A run with a requested cancellation leaves its version only into        *)
(* CANCELLED or FAILED, unless a worker is between the read and the write  *)
(* of a finalize that began before the request.                            *)
CancellationIsHonoured ==
  [][run.cancel /\ run'.version # run.version
       => \/ run'.state \in {"CANCELLED", "FAILED"}
          \/ \E w \in Worker : ReadBeforeCancel(w)]_vars

(* Liveness: lost messages, dead and pausing workers and refused claims    *)
(* never leave a run hanging.  What can keep it from its end is only that  *)
(* its step is reclaimed for ever, each time after the last claim's lease  *)
(* ran out: a redelivery Celery makes by itself is not a publish attempt.  *)
EndsUnlessReclaimed ==
  <>Terminal(run.state) \/ []<><<\E w \in Worker : ReclaimStep(w)>>_vars

(* The recovery budget: a run whose delivery the reconciler selects again  *)
(* and again is finished by a worker or fails, however often it is         *)
(* reclaimed in between and however often publishing fails.                *)
BudgetEndsTheRun ==
  []<><<\E v \in Version : ReconcileLock(v)>>_vars => <>Terminal(run.state)

-----------------------------------------------------------------------------
(* Refinement: the finished step rows, ordered by resulting_run_version,   *)
(* are the history of the run (the journal that RunTimeline reads).        *)

Journal ==
  [n \in 1 .. run.version |->
     IF n = 1 THEN MainStatePath[1]
     ELSE steps[CHOOSE k \in StepKeys : Produced(k, n)].to]

Lifecycle == INSTANCE RunLifecycle WITH history <- Journal

(* Every commit of a worker or of the reconciler appends at most one       *)
(* allowed state to the journal, and nothing ever rewrites the journal.    *)
ImplementsLifecycle == Lifecycle!LifecycleSpec

-----------------------------------------------------------------------------
(* Refinement: what the stage handlers see of all this (StageDelivery).  A *)
(* worker works on a stage from its first checkpoint on, and may move the  *)
(* run while its token is the row's and its version the run's.             *)

StageOfRun == IF Terminal(run.state) THEN run.version - 1 ELSE run.version

Fate == IF Terminal(run.state) THEN run.state ELSE "RUNNING"

Working(w) == pc[w] \notin {"idle", "claiming", "claimed"}

Decision(w) ==
  CASE pc[w] = "finalize_write" -> IF claim[w].cancel THEN "CANCELLED" ELSE "ONWARDS"
    [] pc[w] = "fail_write" -> "FAILED"
    [] OTHER -> "NONE"

WorkOf(w) ==
  IF Working(w)
  THEN [stage |-> claim[w].version, exit |-> Decision(w),
        key |-> IF claim[w].key = "CANCELLED" THEN "CANCELLED" ELSE "STAGE"]
  ELSE [stage |-> 0, key |-> "STAGE", exit |-> "NONE"]

MayMoveRun(w) == Working(w) /\ Holds(w) /\ claim[w].version = run.version

Delivery == INSTANCE StageDelivery WITH
  StageCount <- PathLength - 1,
  stage <- StageOfRun,
  outcome <- Fate,
  asked <- run.cancel,
  at <- [w \in Worker |-> WorkOf(w)],
  holders <- {w \in Worker : MayMoveRun(w)}

(* Tokens, leases, messages and recovery together never let a handler see  *)
(* more than StageDelivery says: one holder at most of a stage, none of an *)
(* earlier stage, and a cancellation that only a decision taken before it  *)
(* overlooks.                                                              *)
ImplementsDelivery == Delivery!DeliverySpec

-----------------------------------------------------------------------------
(* What documents and comments say of the code, and the code does not do.  *)

(* "cancelled runs create no later stage event": a run with a requested    *)
(* cancellation does not go on to its next stage.                          *)
CancelledRunDoesNotAdvance ==
  [][run.cancel /\ run'.version # run.version
       => run'.state \in {"CANCELLED", "FAILED"}]_vars

(* "A redelivered outbox event must not create a second CANCELLED step     *)
(* that finalizes Docker resources underneath" the in-flight owner.        *)
NoCancelledStepBesideOwner ==
  \A w \in Worker :
    pc[w] = "executing" /\ Holds(w) /\ claim[w].key # "CANCELLED"
      => ~(/\ steps["CANCELLED"].status = "RUNNING"
           /\ steps["CANCELLED"].expected = claim[w].version)

(* "an active lease is not preempted": the reconciler fails a run only     *)
(* while no step of its version has a live lease.                          *)
ActiveLeaseIsNotPreempted ==
  [][recon # 0 /\ run'.state = "FAILED" /\ run.state # "FAILED" /\ recon' = 0
       => ~HasLiveStep(run.version)]_vars
=============================================================================
