---------------------------- MODULE StageDelivery ----------------------------
(***************************************************************************)
(* What the handlers of the stages may rely on, and what they must expect: *)
(* a worker may start the stage of the run at any moment, beside others    *)
(* that have started it before; only HOLDERS move the run, and there is    *)
(* one at most of the stage and one of its cancellation; one may lose      *)
(* that, or die, at any moment, and go on for a while without knowing.     *)
(*                                                                         *)
(* RunExecution implements it with step rows, tokens, leases and messages. *)
(* ShadowSandbox, Evidence, StageResults and AgentPlanning, which are      *)
(* about the handlers, have their delivery from here.                      *)
(***************************************************************************)
EXTENDS Naturals

CONSTANTS
  Worker,     \* worker processes
  StageCount  \* stages of the run

VARIABLES
  stage,    \* the stage the run is to do, or that was its last
  outcome,  \* "RUNNING", or how the run ended
  asked,    \* is the run asked to cancel?
  at,       \* what each worker works on
  holders   \* the workers that may still move the run

deliveryVars == <<stage, outcome, asked, at, holders>>

-----------------------------------------------------------------------------

Keys == {"STAGE", "CANCELLED"}

(* How a worker is about to move the run, once it has decided.             *)
Exits == {"NONE", "ONWARDS", "CANCELLED", "FAILED"}

NoWork == [stage |-> 0, key |-> "STAGE", exit |-> "NONE"]

Ends == {"COMPLETED", "CANCELLED", "FAILED"}

DeliveryTypeOK ==
  /\ stage \in 1 .. StageCount
  /\ outcome \in {"RUNNING"} \union Ends
  /\ asked \in BOOLEAN
  /\ at \in [Worker -> [stage : 0 .. StageCount, key : Keys, exit : Exits]]
  /\ holders \subseteq Worker

DeliveryInit ==
  /\ stage = 1
  /\ outcome = "RUNNING"
  /\ asked = FALSE
  /\ at = [w \in Worker |-> NoWork]
  /\ holders = {}

-----------------------------------------------------------------------------

(* A worker claims the stage, or the cancellation of a run that is asked   *)
(* to cancel, and whoever held it before does so no more.                  *)
Start(w, key) ==
  /\ at[w] = NoWork
  /\ outcome = "RUNNING"
  /\ key = "CANCELLED" => asked
  /\ at' = [at EXCEPT ![w] = [stage |-> stage, key |-> key, exit |-> "NONE"]]
  /\ holders' = {x \in holders : at[x].key # key} \union {w}
  /\ UNCHANGED <<stage, outcome, asked>>

(* Its lease ran out, and another worker claims what it holds.             *)
Supersede(w) ==
  /\ w \in holders
  /\ holders' = holders \ {w}
  /\ UNCHANGED <<stage, outcome, asked, at>>

(* A worker reads whether the run is asked to cancel; what it reads is     *)
(* what it will act upon.                                                  *)
Decide(w, exit) ==
  /\ at[w] # NoWork
  /\ at[w].exit = "NONE"
  /\ exit \in {IF asked THEN "CANCELLED" ELSE "ONWARDS", "FAILED"}
  /\ at' = [at EXCEPT ![w].exit = exit]
  /\ UNCHANGED <<stage, outcome, asked, holders>>

(* A request that came after the read is overwritten.                      *)
MoveOnwards ==
  /\ IF stage = StageCount
     THEN outcome' = "COMPLETED" /\ UNCHANGED stage
     ELSE stage' = stage + 1 /\ UNCHANGED outcome
  /\ asked' = FALSE

(* Whether a run that has ended is asked to cancel makes no difference.    *)
MoveToEnd(end) ==
  /\ outcome' = end
  /\ asked' \in BOOLEAN
  /\ UNCHANGED stage

Move(w) ==
  /\ w \in holders
  /\ \/ at[w].exit = "ONWARDS" /\ MoveOnwards
     \/ at[w].exit \in {"CANCELLED", "FAILED"} /\ MoveToEnd(at[w].exit)
  /\ at' = [at EXCEPT ![w] = NoWork]
  /\ holders' = {}

(* A worker gives up what it has lost, or dies.                            *)
Leave(w) ==
  /\ at[w] # NoWork
  /\ at' = [at EXCEPT ![w] = NoWork]
  /\ holders' = holders \ {w}
  /\ UNCHANGED <<stage, outcome, asked>>

Ask ==
  /\ outcome = "RUNNING"
  /\ asked' = TRUE
  /\ UNCHANGED <<stage, outcome, at, holders>>

(* The recovery budget is spent.                                           *)
Exhaust ==
  /\ outcome = "RUNNING"
  /\ outcome' = "FAILED"
  /\ holders' = {}
  /\ UNCHANGED <<stage, asked, at>>

(* What happens to messages, leases and events, and what a handler does    *)
(* between its claim and its end.  It is most of what happens, and stands  *)
(* first below so that TLC, which looks for a step, soon finds it.         *)
Unseen == UNCHANGED deliveryVars

DeliveryNext ==
  \/ Unseen
  \/ \E w \in Worker :
       \/ \E key \in Keys : Start(w, key)
       \/ \E exit \in Exits : Decide(w, exit)
       \/ Supersede(w) \/ Move(w) \/ Leave(w)
  \/ Ask \/ Exhaust

DeliverySpec == DeliveryInit /\ [][DeliveryNext]_deliveryVars
=============================================================================
