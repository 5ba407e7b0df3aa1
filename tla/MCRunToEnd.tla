----------------------------- MODULE MCRunToEnd -----------------------------
(* How a run comes to its end (RunExecution) and how that end comes to a   *)
(* client (RunTimeline).  A behaviour has one of them as its subject and   *)
(* leaves the other as it begins: the stream reads a history of            *)
(* RunLifecycle, which RunExecution implements.                            *)
EXTENDS RunExecution, RunTimeline

VARIABLE subject

(* One stage between the first state and the last, as in MCRunExecution;   *)
(* with the approval states a history has up to four versions.             *)
ShortPath == <<"QUEUED", "DISCOVERING", "COMPLETED">>

RunToEndInit ==
  /\ subject \in {"run", "stream"}
  /\ Init /\ TimelineInit
  /\ subject = "run" => start = 0

Execution ==
  /\ subject = "run"
  /\ Next
  /\ UNCHANGED <<subject, timelineVars>>

Stream ==
  /\ subject = "stream"
  /\ TimelineNext
  /\ UNCHANGED <<subject, vars>>

(* The fairness of the two specifications, for the subject of a behaviour. *)
RunToEndSpec ==
  /\ RunToEndInit
  /\ [][Execution \/ Stream]_<<subject, vars, timelineVars>>
  /\ subject = "run" => Fairness
  /\ subject = "stream" => WF_timelineVars(Serve) /\ WF_timelineVars(Receive)

(* Of the behaviours that execute a run: it ends unless it is reclaimed    *)
(* for ever (claim and reconcile_batch).                                   *)
RunEndsUnlessReclaimed == subject = "run" => EndsUnlessReclaimed
=============================================================================
