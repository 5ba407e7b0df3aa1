------------------------------ MODULE RunStates ------------------------------
(***************************************************************************)
(* The states of an audit run and the edges its aggregate allows           *)
(* (shadowops.domain.runs).                                                *)
(***************************************************************************)
EXTENDS Naturals, Sequences

CONSTANT MainStatePath  \* MAIN_STATE_PATH: QUEUED, the stages, COMPLETED

OutsidePath ==
  {"AWAITING_APPROVAL", "APPROVED", "REJECTED", "FAILED", "CANCELLED"}

ASSUME PathAssumption ==
  /\ MainStatePath \in Seq(STRING)
  /\ Len(MainStatePath) >= 2
  /\ MainStatePath[Len(MainStatePath)] = "COMPLETED"
  /\ \A i, j \in 1 .. Len(MainStatePath) :
       MainStatePath[i] = MainStatePath[j] => i = j
  /\ \A i \in 1 .. Len(MainStatePath) :
       MainStatePath[i] \notin OutsidePath \union {"RECOVERY", "NONE"}

PathLength == Len(MainStatePath)
MainStates == {MainStatePath[i] : i \in 1 .. PathLength}
RunState == MainStates \union OutsidePath

TerminalStates == {"COMPLETED", "APPROVED", "REJECTED", "FAILED", "CANCELLED"}
OpenStates == RunState \ TerminalStates
Terminal(state) == state \in TerminalStates

(* next_main_state: next is the successor of state on the main path.       *)
IsNextMainState(state, next) ==
  \E i \in 1 .. PathLength - 1 :
    MainStatePath[i] = state /\ MainStatePath[i + 1] = next

(* The edges of _NORMAL_TRANSITIONS beside the main path: the last stage   *)
(* (REPORTING) may also wait for an approval, which is given or refused.   *)
IsApprovalEdge(state, target) ==
  \/ state = MainStatePath[PathLength - 1] /\ target = "AWAITING_APPROVAL"
  \/ state = "AWAITING_APPROVAL" /\ target \in {"APPROVED", "REJECTED"}

(* AuditRun.transition: a normal edge, or FAILED or CANCELLED from any     *)
(* state that is not terminal.                                             *)
CanTransition(state, target) ==
  \/ IsNextMainState(state, target)
  \/ IsApprovalEdge(state, target)
  \/ ~Terminal(state) /\ target \in {"FAILED", "CANCELLED"}
=============================================================================
