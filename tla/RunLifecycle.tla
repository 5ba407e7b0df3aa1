---------------------------- MODULE RunLifecycle ----------------------------
(***************************************************************************)
(* What the run aggregate promises to its readers: its history is a        *)
(* sequence of states, one for each version, that only grows, only along   *)
(* the allowed edges, and not beyond a terminal state.  The current state  *)
(* is the last of the history and the version is its length.               *)
(*                                                                         *)
(* RunExecution implements it with the journal of its step rows;           *)
(* RunTimeline reads it.                                                   *)
(***************************************************************************)
EXTENDS RunStates

VARIABLE history

HistoryVersion == Len(history)
HistoryState == history[Len(history)]

LifecycleTypeOK == history \in Seq(RunState) /\ history # <<>>

LifecycleInit == history = <<MainStatePath[1]>>

Transition(target) ==
  /\ CanTransition(HistoryState, target)
  /\ history' = Append(history, target)

LifecycleNext == \E target \in RunState : Transition(target)

LifecycleSpec == LifecycleInit /\ [][LifecycleNext]_history

(* Fair runs do not stop before a terminal state.                          *)
FairLifecycle == LifecycleSpec /\ WF_history(LifecycleNext)
=============================================================================
