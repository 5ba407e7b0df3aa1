---------------------------- MODULE RunTimeline -----------------------------
(***************************************************************************)
(* The event stream of a run: GET /runs/{id}/events (stream_events) over   *)
(* RunTimelineService.get, read by one client that reconnects with the     *)
(* Last-Event-ID header.  The run underneath is the history of             *)
(* RunLifecycle, which RunExecution implements: TimelineEvent number n is  *)
(* the step row with resulting_run_version n.                              *)
(*                                                                         *)
(* The service reads the run and then its steps with two statements at     *)
(* READ COMMITTED, so the run may move in between.  The connection may     *)
(* break at any moment and takes with it what was sent and not received.   *)
(***************************************************************************)
EXTENDS RunLifecycle, SequencesExt

CONSTANTS
  KeptCursors,    \* ids a client may have kept from an earlier session
  MaxDisconnects  \* bound of the model: broken connections

ASSUME TimelineAssumption ==
  KeptCursors \subseteq Nat /\ KeptCursors # {} /\ MaxDisconnects \in Nat

VARIABLES
  phase,     \* the request: "off", "polling", "reading", "sending", "ended"
  cursor,    \* the generator's cursor
  timeline,  \* version and terminal of the timeline it works on
  batch,     \* the events of that timeline it has not yielded yet
  wire,      \* events sent and not received
  start,     \* the id the client began with
  received,  \* events the client received, in order
  breaks     \* connections broken so far

serverVars == <<cursor, timeline, batch>>
clientVars == <<start, received>>
streamVars == <<phase, cursor, timeline, batch, wire, start, received, breaks>>
timelineVars == <<history, streamVars>>

TimelineEvent == [version : Nat \ {0}, state : RunState]

TimelineTypeOK ==
  /\ LifecycleTypeOK
  /\ phase \in {"off", "polling", "reading", "sending", "ended"}
  /\ cursor \in Nat
  /\ timeline \in [version : Nat, terminal : BOOLEAN]
  /\ batch \in Seq(TimelineEvent)
  /\ wire \in Seq(TimelineEvent)
  /\ start \in KeptCursors
  /\ received \in Seq(TimelineEvent)
  /\ breaks \in 0 .. MaxDisconnects

TimelineInit ==
  /\ LifecycleInit
  /\ phase = "off"
  /\ cursor = 0
  /\ timeline = [version |-> 0, terminal |-> FALSE]
  /\ batch = <<>>
  /\ wire = <<>>
  /\ start \in KeptCursors
  /\ received = <<>>
  /\ breaks = 0

-----------------------------------------------------------------------------

(* Fault: the events are numbered from the cursor on, not after it.        *)
EventsNumberedFrom(after) ==
  [n \in 1 .. Len(history) - after |->
     [version |-> after + n - 1, state |-> history[after + n]]]

(* RunTimelineService.get: version 1 is the QUEUED event it makes up, the  *)
(* others are the finished steps sorted by resulting_run_version; those up *)
(* to after are left out.  A client may send an id beyond the last event.  *)
EventsAfter(after) ==
  [n \in 1 .. Len(history) - after |->
     [version |-> after + n, state |-> history[after + n]]]

(* The id the client sends: the last it received.                          *)
LastEventId == IF received = <<>> THEN start ELSE Last(received).version

(* Fault: the server goes on where it stopped sending.                     *)
ConnectWhereServerStopped ==
  /\ phase = "off"
  /\ phase' = "polling"
  /\ cursor' = IF breaks = 0 THEN start ELSE cursor
  /\ UNCHANGED <<history, timeline, batch, wire, clientVars, breaks>>

Connect ==
  /\ phase = "off"
  /\ phase' = "polling"
  /\ cursor' = LastEventId
  /\ UNCHANGED <<history, timeline, batch, wire, clientVars, breaks>>

GetRun ==
  /\ phase = "polling"
  /\ phase' = "reading"
  /\ timeline' = [version |-> HistoryVersion, terminal |-> Terminal(HistoryState)]
  /\ UNCHANGED <<history, cursor, batch, wire, clientVars, breaks>>

ReadSteps ==
  /\ phase = "reading"
  /\ phase' = "sending"
  /\ batch' = EventsAfter(cursor)
  /\ UNCHANGED <<history, cursor, timeline, wire, clientVars, breaks>>

(* Fault: the cursor becomes the run version of the timeline.              *)
SendEventMovesToRunVersion ==
  /\ phase = "sending"
  /\ batch # <<>>
  /\ cursor' = timeline.version
  /\ wire' = Append(wire, Head(batch))
  /\ batch' = Tail(batch)
  /\ UNCHANGED <<history, phase, timeline, clientVars, breaks>>

SendEvent ==
  /\ phase = "sending"
  /\ batch # <<>>
  /\ cursor' = Head(batch).version
  /\ wire' = Append(wire, Head(batch))
  /\ batch' = Tail(batch)
  /\ UNCHANGED <<history, phase, timeline, clientVars, breaks>>

(* Fault: the terminal event itself does not count as reached.             *)
WentBeyond == timeline.terminal /\ cursor > timeline.version

CaughtUp == timeline.terminal /\ cursor >= timeline.version

StreamEnds ==
  /\ phase = "sending"
  /\ batch = <<>>
  /\ CaughtUp
  /\ phase' = "ended"
  /\ UNCHANGED <<history, serverVars, wire, clientVars, breaks>>

PollAgain ==
  /\ phase = "sending"
  /\ batch = <<>>
  /\ ~CaughtUp
  /\ phase' = "polling"
  /\ UNCHANGED <<history, serverVars, wire, clientVars, breaks>>

-----------------------------------------------------------------------------
(* The connection and the client.                                          *)

Receive ==
  /\ wire # <<>>
  /\ received' = Append(received, Head(wire))
  /\ wire' = Tail(wire)
  /\ UNCHANGED <<history, phase, serverVars, start, breaks>>

(* The client saw the end of the stream after everything before it.        *)
ClientDone == phase = "ended" /\ wire = <<>>

Disconnect ==
  /\ phase # "off"
  /\ ~ClientDone
  /\ breaks < MaxDisconnects
  /\ breaks' = breaks + 1
  /\ phase' = "off"
  /\ wire' = <<>>
  /\ UNCHANGED <<history, serverVars, clientVars>>

Serve ==
  Connect \/ GetRun \/ ReadSteps \/ SendEvent \/ StreamEnds \/ PollAgain

Advance == LifecycleNext /\ UNCHANGED streamVars

TimelineNext == Advance \/ Serve \/ Receive \/ Disconnect

(* The server goes on polling, the network delivers, the client reconnects. *)
TimelineSpec ==
  /\ TimelineInit
  /\ [][TimelineNext]_timelineVars
  /\ WF_timelineVars(Serve)
  /\ WF_timelineVars(Receive)

-----------------------------------------------------------------------------

(* Over all its connections the client receives each version after the one *)
(* it began with exactly once, in order and with the state the run had at  *)
(* that version: the cursor neither skips nor repeats an event when the    *)
(* run moves between the two reads or a connection breaks.                 *)
EachVersionOnceInOrder ==
  \A i \in 1 .. Len(received) :
    /\ received[i].version = start + i
    /\ received[i].state = history[start + i]

(* A client that sees the end of the stream has the terminal state of the  *)
(* run: nothing of the history is missing.                                 *)
EndMeansComplete ==
  ClientDone => Terminal(HistoryState) /\ LastEventId >= HistoryVersion

(* Once the run is finished, a client whose connections break only finitely *)
(* often gets to the end of the stream.                                    *)
FinishedRunIsSeen == Terminal(HistoryState) ~> ClientDone
=============================================================================
