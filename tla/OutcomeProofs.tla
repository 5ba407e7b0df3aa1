--------------------------- MODULE OutcomeProofs ----------------------------
(***************************************************************************)
(* What a run gives to those who asked for it.                             *)
(*                                                                         *)
(* A client of the event stream receives each version exactly once, in     *)
(* order and as the run had it, and sees the end of the stream only after  *)
(* the last one: for every main path, every id it may begin with and any   *)
(* number of broken connections, while the run moves at any moment.        *)
(*                                                                         *)
(* Evidence is complete, never refers to an artifact that is not there,    *)
(* and collecting it converges, for any number of workers and actions, any *)
(* output and every fault; and its stages implement StageDelivery.         *)
(***************************************************************************)
EXTENDS RunTimeline, Evidence, SequenceTheorems, TLAPS

-----------------------------------------------------------------------------
(* The event stream (RunTimeline).                                         *)

Event(version) == [version |-> version, state |-> history[version]]

(* The events follow a version without a gap.                              *)
Follow(events, version) ==
  \A i \in 1 .. Len(events) :
    version + i <= Len(history) /\ events[i] = Event(version + i)

(* What the client has received.                                           *)
Received == start + Len(received)

(* Received, sent and still to be sent events follow one another.          *)
ChainInv ==
  /\ Follow(received, start)
  /\ Follow(wire, Received)
  /\ phase = "off" => wire = <<>>
  /\ phase # "off" => cursor = Received + Len(wire)
  /\ phase = "sending" => Follow(batch, cursor)

(* A terminal run read once stays what it was read as.                     *)
EndInv ==
  /\ phase \in {"reading", "sending", "ended"} /\ timeline.terminal =>
       timeline.version = HistoryVersion /\ Terminal(HistoryState)
  /\ phase = "ended" => timeline.terminal /\ cursor >= timeline.version

TimelineInv == TimelineTypeOK /\ ChainInv /\ EndInv

-----------------------------------------------------------------------------
(* Operators.                                                              *)

LEMMA PathStates ==
  /\ PathLength \in Nat /\ PathLength >= 2
  /\ \A i \in 1 .. PathLength : MainStatePath[i] \in RunState
  /\ \A i \in 1 .. PathLength - 1 : ~Terminal(MainStatePath[i])
<1>1. /\ PathLength \in Nat /\ PathLength >= 2
      /\ \A i, j \in 1 .. PathLength : MainStatePath[i] = MainStatePath[j] => i = j
      /\ \A i \in 1 .. PathLength : MainStatePath[i] \notin OutsidePath
      /\ MainStatePath[PathLength] = "COMPLETED"
  BY PathAssumption DEF PathLength
<1>2. \A i \in 1 .. PathLength : MainStatePath[i] \in RunState
  BY DEF RunState, MainStates
<1>3. ASSUME NEW i \in 1 .. PathLength - 1
      PROVE  ~Terminal(MainStatePath[i])
  <2>1. i \in 1 .. PathLength /\ PathLength \in 1 .. PathLength /\ i # PathLength
    BY <1>1, <1>3
  <2>2. MainStatePath[i] # "COMPLETED"
    BY <1>1, <2>1
  <2>3. MainStatePath[i] \notin OutsidePath
    BY <1>1, <2>1
  <2> QED
    BY <2>2, <2>3 DEF Terminal, TerminalStates, OutsidePath
<1> QED
  BY <1>1, <1>2, <1>3

(* No edge leaves a terminal state.                                        *)
LEMMA TerminalIsFinal ==
  ASSUME NEW state, NEW target, CanTransition(state, target)
  PROVE  ~Terminal(state)
<1>1. CASE IsNextMainState(state, target)
  BY <1>1, PathStates DEF IsNextMainState
<1>2. CASE IsApprovalEdge(state, target)
  <2>1. PathLength - 1 \in 1 .. PathLength - 1
    BY PathStates
  <2> QED
    BY <1>2, <2>1, PathStates DEF IsApprovalEdge, Terminal, TerminalStates
<1> QED
  BY <1>1, <1>2 DEF CanTransition

LEMMA EventsAfterFollow ==
  ASSUME LifecycleTypeOK, NEW after \in Nat
  PROVE  EventsAfter(after) \in Seq(TimelineEvent) /\ Follow(EventsAfter(after), after)
<1> DEFINE count == IF after <= Len(history) THEN Len(history) - after ELSE 0
           events == EventsAfter(after)
<1>1. Len(history) \in Nat /\ \A n \in 1 .. Len(history) : history[n] \in RunState
  BY DEF LifecycleTypeOK
<1>2. count \in Nat /\ 1 .. Len(history) - after = 1 .. count
  BY <1>1
<1>3. \A n \in 1 .. count : after + n \in 1 .. Len(history) /\ after + n \in Nat \ {0}
  BY <1>1, <1>2
<1> HIDE DEF count
<1>4. events = [n \in 1 .. count |-> [version |-> after + n, state |-> history[after + n]]]
  BY <1>2 DEF EventsAfter
<1>5. \A n \in 1 .. count : events[n] \in TimelineEvent /\ events[n] = Event(after + n)
  BY <1>1, <1>3, <1>4 DEF TimelineEvent, Event
<1>6. events \in [1 .. count -> TimelineEvent]
  BY <1>4, <1>5
<1> HIDE DEF events
<1>7. events \in Seq(TimelineEvent) /\ Len(events) = count
  BY <1>2, <1>6
<1>8. Follow(events, after)
  BY <1>1, <1>3, <1>5, <1>7 DEF Follow
<1> QED
  BY <1>7, <1>8 DEF events

(* The first of the events that follow a version is the next one, and the  *)
(* others follow it.                                                       *)
LEMMA FollowHead ==
  ASSUME NEW events \in Seq(TimelineEvent), events # <<>>, NEW version \in Nat,
         Follow(events, version)
  PROVE  /\ Head(events) \in TimelineEvent /\ Head(events) = Event(version + 1)
         /\ version + 1 <= Len(history)
         /\ Tail(events) \in Seq(TimelineEvent) /\ Len(Tail(events)) = Len(events) - 1
         /\ Follow(Tail(events), version + 1)
<1>1. /\ Head(events) \in TimelineEvent /\ Tail(events) \in Seq(TimelineEvent)
      /\ Len(Tail(events)) = Len(events) - 1
      /\ \A i \in 1 .. Len(Tail(events)) : Tail(events)[i] = events[i + 1]
  BY HeadTailProperties
<1>2. Len(events) \in Nat /\ Len(events) >= 1 /\ Head(events) = events[1]
  BY EmptySeq
<1>3. 1 \in 1 .. Len(events)
  BY <1>2
<1>4. Head(events) = Event(version + 1) /\ version + 1 <= Len(history)
  BY <1>2, <1>3 DEF Follow
<1>5. ASSUME NEW i \in 1 .. Len(Tail(events))
      PROVE  /\ version + 1 + i <= Len(history)
             /\ Tail(events)[i] = Event(version + 1 + i)
  <2>1. i \in Nat /\ i + 1 \in 1 .. Len(events)
    BY <1>1, <1>2
  <2>2. version + (i + 1) <= Len(history) /\ events[i + 1] = Event(version + (i + 1))
    BY <2>1 DEF Follow
  <2>3. version + (i + 1) = version + 1 + i
    BY <2>1
  <2> QED
    BY <1>1, <2>2, <2>3
<1> QED
  BY <1>1, <1>4, <1>5 DEF Follow

(* The next event may be appended to what follows a version.               *)
LEMMA FollowAppend ==
  ASSUME NEW events \in Seq(TimelineEvent), NEW version \in Nat, Follow(events, version),
         NEW next \in TimelineEvent, next = Event(version + Len(events) + 1),
         version + Len(events) + 1 <= Len(history)
  PROVE  /\ Append(events, next) \in Seq(TimelineEvent)
         /\ Len(Append(events, next)) = Len(events) + 1
         /\ Follow(Append(events, next), version)
<1>1. /\ Append(events, next) \in Seq(TimelineEvent) /\ Len(events) \in Nat
      /\ Len(Append(events, next)) = Len(events) + 1
      /\ \A i \in 1 .. Len(events) : Append(events, next)[i] = events[i]
      /\ Append(events, next)[Len(events) + 1] = next
  BY AppendProperties, LenProperties
<1>2. ASSUME NEW i \in 1 .. Len(events) + 1
      PROVE  /\ version + i <= Len(history)
             /\ Append(events, next)[i] = Event(version + i)
  <2>1. CASE i = Len(events) + 1
    <3>1. version + i = version + Len(events) + 1
      BY <1>1, <2>1
    <3> QED
      BY <1>1, <2>1, <3>1
  <2>2. CASE i # Len(events) + 1
    <3>1. i \in 1 .. Len(events)
      BY <1>1, <1>2, <2>2
    <3> QED
      BY <1>1, <3>1 DEF Follow
  <2> QED
    BY <2>1, <2>2
<1> QED
  BY <1>1, <1>2 DEF Follow

(* Last-Event-ID is the version of the last event received.                *)
LEMMA LastEventIdIs ==
  ASSUME TimelineTypeOK, Follow(received, start)
  PROVE  LastEventId = Received /\ Received \in Nat
<1>1. start \in Nat /\ Len(received) \in Nat
  BY TimelineAssumption DEF TimelineTypeOK
<1>2. CASE received = <<>>
  BY <1>1, <1>2 DEF LastEventId, Received
<1>3. CASE received # <<>>
  <2>1. Len(received) >= 1 /\ Len(received) \in 1 .. Len(received)
    BY <1>1, <1>3, EmptySeq DEF TimelineTypeOK
  <2>2. received[Len(received)] = Event(start + Len(received))
    BY <2>1 DEF Follow
  <2> QED
    BY <1>1, <1>3, <2>2 DEF LastEventId, Last, Received, Event
<1> QED
  BY <1>2, <1>3

-----------------------------------------------------------------------------
(* Steps.                                                                  *)

LEMMA InitTimelineInv ==
  ASSUME TimelineInit
  PROVE  TimelineInv
<1>1. LifecycleTypeOK
  BY PathStates DEF TimelineInit, LifecycleInit, LifecycleTypeOK
<1>2. start \in Nat /\ 0 \in 0 .. MaxDisconnects
  BY TimelineAssumption DEF TimelineInit
<1>3. TimelineTypeOK
  BY <1>1, <1>2, EmptySeq DEF TimelineInit, TimelineTypeOK
<1>4. ChainInv /\ EndInv
  BY EmptySeq DEF TimelineInit, ChainInv, EndInv, Follow
<1> QED
  BY <1>3, <1>4 DEF TimelineInv

(* What the invariant says of the current state, in one place.             *)
LEMMA TimelineFacts ==
  ASSUME TimelineInv
  PROVE  /\ TimelineTypeOK /\ LifecycleTypeOK
         /\ start \in Nat /\ cursor \in Nat /\ Len(history) \in Nat
         /\ LastEventId = Received /\ Received \in Nat
         /\ Len(received) \in Nat /\ Len(wire) \in Nat
<1>1. TimelineTypeOK /\ ChainInv
  BY DEF TimelineInv
<1>2. LastEventId = Received /\ Received \in Nat
  BY <1>1, LastEventIdIs DEF ChainInv
<1> QED
  BY <1>1, <1>2, TimelineAssumption DEF TimelineTypeOK, LifecycleTypeOK

(* Events that follow a version keep following it while the run moves.     *)
LEMMA AdvanceStep ==
  ASSUME TimelineInv, Advance
  PROVE  TimelineInv'
<1>1. PICK target \in RunState : CanTransition(HistoryState, target)
                                /\ history' = Append(history, target)
  BY DEF Advance, LifecycleNext, Transition
<1>2. /\ UNCHANGED <<phase, cursor, timeline, batch, wire, start, received, breaks>>
      /\ TimelineTypeOK /\ ChainInv /\ EndInv
  BY DEF Advance, streamVars, TimelineInv
<1>3. /\ Len(history) \in Nat /\ Len(history') = Len(history) + 1
      /\ history' \in Seq(RunState) /\ history' # <<>>
      /\ \A n \in 1 .. Len(history) : history'[n] = history[n]
  <2>1. history \in Seq(RunState)
    BY <1>2 DEF TimelineTypeOK, LifecycleTypeOK
  <2> QED
    BY <1>1, <2>1, AppendProperties, LenProperties, EmptySeq
<1>4. TimelineTypeOK'
  BY <1>2, <1>3 DEF TimelineTypeOK, LifecycleTypeOK
<1>5. ASSUME NEW events \in Seq(TimelineEvent), NEW version \in Nat, Follow(events, version)
      PROVE  \A i \in 1 .. Len(events) :
               version + i <= Len(history') /\
               events[i] = [version |-> version + i, state |-> history'[version + i]]
  <2>1. SUFFICES ASSUME NEW i \in 1 .. Len(events)
                 PROVE  /\ version + i <= Len(history')
                        /\ history'[version + i] = history[version + i]
    BY <1>5 DEF Follow, Event
  <2>2. version + i <= Len(history) /\ i \in Nat /\ i >= 1
    BY <1>5, <2>1 DEF Follow
  <2>3. version + i \in 1 .. Len(history)
    BY <1>3, <2>2
  <2> QED
    BY <1>3, <2>2, <2>3
<1>6. Follow(received, start)'
  <2>1. Follow(received, start) /\ received \in Seq(TimelineEvent) /\ start \in Nat
    BY <1>2, TimelineFacts DEF ChainInv, TimelineTypeOK
  <2>2. received' = received /\ start' = start
    BY <1>2
  <2>3. \A i \in 1 .. Len(received) :
          start + i <= Len(history') /\
          received[i] = [version |-> start + i, state |-> history'[start + i]]
    BY <1>5, <2>1
  <2> QED
    BY <2>2, <2>3 DEF Follow, Event
<1>7. Follow(wire, Received)'
  <2>1. Follow(wire, Received) /\ wire \in Seq(TimelineEvent) /\ Received \in Nat
    BY <1>2, TimelineFacts DEF ChainInv, TimelineTypeOK
  <2>2. wire' = wire /\ Received' = Received
    BY <1>2 DEF Received
  <2>3. \A i \in 1 .. Len(wire) :
          Received + i <= Len(history') /\
          wire[i] = [version |-> Received + i, state |-> history'[Received + i]]
    BY <1>5, <2>1
  <2> QED
    BY <2>2, <2>3 DEF Follow, Event
<1>8. phase = "sending" => Follow(batch, cursor)'
  BY <1>2, <1>5 DEF Follow, Event, ChainInv, TimelineTypeOK
<1>9. ChainInv'
  BY <1>2, <1>6, <1>7, <1>8 DEF ChainInv, Received
<1>10. EndInv'
  <2>1. ~Terminal(HistoryState)
    BY <1>1, TerminalIsFinal
  <2> QED
    BY <1>2, <2>1 DEF EndInv
<1> QED
  BY <1>4, <1>9, <1>10 DEF TimelineInv

LEMMA ConnectStep ==
  ASSUME TimelineInv, Connect
  PROVE  TimelineInv'
<1>1. /\ TimelineTypeOK /\ ChainInv /\ phase = "off" /\ phase' = "polling"
      /\ cursor' = Received /\ Received \in Nat
      /\ UNCHANGED <<history, timeline, batch, wire, start, received, breaks>>
  BY TimelineFacts DEF Connect, TimelineInv, clientVars
<1>2. TimelineTypeOK'
  BY <1>1 DEF TimelineTypeOK, LifecycleTypeOK
<1>3. ChainInv'
  <2>1. wire = <<>> /\ Len(wire) = 0
    BY <1>1, EmptySeq DEF ChainInv
  <2> QED
    BY <1>1, <2>1 DEF ChainInv, Follow, Event, Received
<1>4. EndInv'
  BY <1>1 DEF EndInv
<1> QED
  BY <1>2, <1>3, <1>4 DEF TimelineInv

LEMMA GetRunStep ==
  ASSUME TimelineInv, GetRun
  PROVE  TimelineInv'
<1>1. /\ TimelineTypeOK /\ ChainInv /\ phase = "polling" /\ phase' = "reading"
      /\ timeline' = [version |-> HistoryVersion, terminal |-> Terminal(HistoryState)]
      /\ UNCHANGED <<history, cursor, batch, wire, start, received, breaks>>
  BY DEF GetRun, TimelineInv, clientVars
<1>2. HistoryVersion \in Nat /\ Terminal(HistoryState) \in BOOLEAN
  BY TimelineFacts DEF HistoryVersion, Terminal
<1>3. TimelineTypeOK'
  BY <1>1, <1>2 DEF TimelineTypeOK, LifecycleTypeOK
<1>4. ChainInv'
  BY <1>1 DEF ChainInv, Follow, Event, Received
<1>5. EndInv'
  BY <1>1 DEF EndInv, HistoryVersion, HistoryState
<1> QED
  BY <1>3, <1>4, <1>5 DEF TimelineInv

LEMMA ReadStepsStep ==
  ASSUME TimelineInv, ReadSteps
  PROVE  TimelineInv'
<1>1. /\ TimelineTypeOK /\ ChainInv /\ EndInv /\ phase = "reading" /\ phase' = "sending"
      /\ batch' = EventsAfter(cursor)
      /\ UNCHANGED <<history, cursor, timeline, wire, start, received, breaks>>
  BY DEF ReadSteps, TimelineInv, clientVars
<1>2. batch' \in Seq(TimelineEvent) /\ Follow(batch', cursor)
  BY <1>1, TimelineFacts, EventsAfterFollow
<1>3. TimelineTypeOK'
  BY <1>1, <1>2 DEF TimelineTypeOK, LifecycleTypeOK
<1>4. ChainInv'
  BY <1>1, <1>2 DEF ChainInv, Follow, Event, Received
<1>5. EndInv'
  BY <1>1 DEF EndInv, HistoryVersion, HistoryState
<1> QED
  BY <1>3, <1>4, <1>5 DEF TimelineInv

LEMMA SendEventStep ==
  ASSUME TimelineInv, SendEvent
  PROVE  TimelineInv'
<1>1. /\ TimelineTypeOK /\ ChainInv /\ EndInv /\ phase = "sending" /\ batch # <<>>
      /\ cursor' = Head(batch).version /\ wire' = Append(wire, Head(batch))
      /\ batch' = Tail(batch)
      /\ UNCHANGED <<history, phase, timeline, start, received, breaks>>
  BY DEF SendEvent, TimelineInv, clientVars
<1>2. /\ Follow(batch, cursor) /\ Follow(wire, Received) /\ cursor = Received + Len(wire)
      /\ batch \in Seq(TimelineEvent) /\ wire \in Seq(TimelineEvent)
  BY <1>1 DEF ChainInv, TimelineTypeOK
<1>3. /\ Head(batch) \in TimelineEvent /\ Head(batch) = Event(cursor + 1)
      /\ cursor + 1 <= Len(history)
      /\ batch' \in Seq(TimelineEvent) /\ Follow(batch', cursor + 1)
  BY <1>1, <1>2, TimelineFacts, FollowHead
<1>4. cursor' = cursor + 1 /\ cursor' \in Nat
  BY <1>1, <1>3, TimelineFacts DEF Event
<1>5. /\ wire' \in Seq(TimelineEvent) /\ Len(wire') = Len(wire) + 1
      /\ Follow(wire', Received)
  BY <1>1, <1>2, <1>3, TimelineFacts, FollowAppend
<1>6. TimelineTypeOK'
  BY <1>1, <1>3, <1>4, <1>5 DEF TimelineTypeOK, LifecycleTypeOK
<1>7. cursor' = Received + Len(wire')
  BY <1>2, <1>4, <1>5, TimelineFacts
<1>8. ChainInv'
  BY <1>1, <1>3, <1>4, <1>5, <1>7 DEF ChainInv, Follow, Event, Received
<1>9. EndInv'
  BY <1>1 DEF EndInv, HistoryVersion, HistoryState
<1> QED
  BY <1>6, <1>8, <1>9 DEF TimelineInv

LEMMA AfterSendingStep ==
  ASSUME TimelineInv, StreamEnds \/ PollAgain
  PROVE  TimelineInv'
<1>1. /\ TimelineTypeOK /\ ChainInv /\ EndInv /\ phase = "sending"
      /\ phase' \in {"ended", "polling"} /\ (phase' = "ended" => CaughtUp)
      /\ UNCHANGED <<history, cursor, timeline, batch, wire, start, received, breaks>>
  BY DEF StreamEnds, PollAgain, TimelineInv, serverVars, clientVars
<1>2. TimelineTypeOK'
  BY <1>1 DEF TimelineTypeOK, LifecycleTypeOK
<1>3. ChainInv'
  BY <1>1 DEF ChainInv, Follow, Event, Received
<1>4. EndInv'
  BY <1>1 DEF EndInv, CaughtUp, HistoryVersion, HistoryState
<1> QED
  BY <1>2, <1>3, <1>4 DEF TimelineInv

LEMMA ReceiveStep ==
  ASSUME TimelineInv, Receive
  PROVE  TimelineInv'
<1>1. /\ TimelineTypeOK /\ ChainInv /\ EndInv /\ wire # <<>>
      /\ received' = Append(received, Head(wire)) /\ wire' = Tail(wire)
      /\ UNCHANGED <<history, phase, cursor, timeline, batch, start, breaks>>
  BY DEF Receive, TimelineInv, serverVars
<1>2. /\ Follow(wire, Received) /\ Follow(received, start) /\ Received = start + Len(received)
      /\ received \in Seq(TimelineEvent) /\ wire \in Seq(TimelineEvent)
  BY <1>1 DEF ChainInv, TimelineTypeOK, Received
<1>3. /\ Head(wire) \in TimelineEvent /\ Head(wire) = Event(Received + 1)
      /\ Received + 1 <= Len(history)
      /\ wire' \in Seq(TimelineEvent) /\ Len(wire') = Len(wire) - 1
      /\ Follow(wire', Received + 1)
  BY <1>1, <1>2, TimelineFacts, FollowHead
<1>4. /\ received' \in Seq(TimelineEvent) /\ Len(received') = Len(received) + 1
      /\ Follow(received', start)
  BY <1>1, <1>2, <1>3, TimelineFacts, FollowAppend
<1>5. Received' = Received + 1
  BY <1>1, <1>2, <1>4, TimelineFacts DEF Received
<1>6. phase # "off" => cursor = Received' + Len(wire')
  BY <1>1, <1>3, <1>5, TimelineFacts DEF ChainInv
<1>7. TimelineTypeOK'
  BY <1>1, <1>3, <1>4 DEF TimelineTypeOK, LifecycleTypeOK
<1>8. phase # "off"
  BY <1>1 DEF ChainInv
<1>9. ChainInv'
  BY <1>1, <1>3, <1>4, <1>5, <1>6, <1>8 DEF ChainInv, Follow, Event
<1>10. EndInv'
  BY <1>1 DEF EndInv, HistoryVersion, HistoryState
<1> QED
  BY <1>7, <1>9, <1>10 DEF TimelineInv

(* What was sent and not received is lost, and asked for again.            *)
LEMMA DisconnectStep ==
  ASSUME TimelineInv, Disconnect
  PROVE  TimelineInv'
<1>1. /\ TimelineTypeOK /\ ChainInv /\ phase' = "off" /\ wire' = <<>>
      /\ breaks < MaxDisconnects /\ breaks' = breaks + 1
      /\ UNCHANGED <<history, cursor, timeline, batch, start, received>>
  BY DEF Disconnect, TimelineInv, serverVars, clientVars
<1>2. breaks' \in 0 .. MaxDisconnects
  BY <1>1, TimelineAssumption DEF TimelineTypeOK
<1>3. TimelineTypeOK'
  BY <1>1, <1>2, EmptySeq DEF TimelineTypeOK, LifecycleTypeOK
<1>4. ChainInv'
  BY <1>1, EmptySeq DEF ChainInv, Follow, Event, Received
<1>5. EndInv'
  BY <1>1 DEF EndInv
<1> QED
  BY <1>3, <1>4, <1>5 DEF TimelineInv

LEMMA TimelineStep ==
  ASSUME TimelineInv, [TimelineNext]_timelineVars
  PROVE  TimelineInv'
<1>1. CASE TimelineNext
  BY <1>1, AdvanceStep, ConnectStep, GetRunStep, ReadStepsStep, SendEventStep,
     AfterSendingStep, ReceiveStep, DisconnectStep DEF TimelineNext, Serve
<1>2. CASE UNCHANGED timelineVars
  BY <1>2 DEF timelineVars, streamVars, TimelineInv, TimelineTypeOK, LifecycleTypeOK,
              ChainInv, Follow, Event, Received, EndInv, HistoryVersion, HistoryState
<1> QED
  BY <1>1, <1>2

-----------------------------------------------------------------------------

(* The inductive invariant of the stream: see TimelineInv.                 *)
THEOREM TimelineInvariant == TimelineSpec => []TimelineInv
<1>1. TimelineInit => TimelineInv
  BY InitTimelineInv
<1>2. TimelineInv /\ [TimelineNext]_timelineVars => TimelineInv'
  BY TimelineStep
<1> QED
  BY <1>1, <1>2, PTL DEF TimelineSpec

(* Every state of a stream is well-formed.                                 *)
THEOREM TimelineTypeCorrect == TimelineSpec => []TimelineTypeOK
<1>1. TimelineInv => TimelineTypeOK
  BY DEF TimelineInv
<1> QED
  BY <1>1, TimelineInvariant, PTL

(* stream_events: the cursor neither skips nor repeats an event.           *)
THEOREM AlwaysEachVersionOnceInOrder == TimelineSpec => []EachVersionOnceInOrder
<1>1. TimelineInv => EachVersionOnceInOrder
  <2>1. SUFFICES ASSUME TimelineInv, NEW i \in 1 .. Len(received)
                 PROVE  received[i].version = start + i /\ received[i].state = history[start + i]
    BY DEF EachVersionOnceInOrder
  <2>2. received[i] = Event(start + i)
    BY <2>1 DEF TimelineInv, ChainInv, Follow
  <2> QED
    BY <2>2 DEF Event
<1> QED
  BY <1>1, TimelineInvariant, PTL

(* stream_events ends only when the cursor reached the last version.       *)
THEOREM EndAlwaysMeansComplete == TimelineSpec => []EndMeansComplete
<1>1. TimelineInv => EndMeansComplete
  <2>1. SUFFICES ASSUME TimelineInv, phase = "ended", wire = <<>>
                 PROVE  Terminal(HistoryState) /\ LastEventId >= HistoryVersion
    BY DEF EndMeansComplete, ClientDone
  <2>2. timeline.version = HistoryVersion /\ Terminal(HistoryState) /\ cursor >= HistoryVersion
    BY <2>1 DEF TimelineInv, EndInv
  <2>3. cursor = LastEventId
    BY <2>1, TimelineFacts, EmptySeq DEF TimelineInv, ChainInv
  <2> QED
    BY <2>2, <2>3
<1> QED
  BY <1>1, TimelineInvariant, PTL

-----------------------------------------------------------------------------
(* The evidence (Evidence).                                                *)

(* What is in the database and the store.                                  *)
RecordInv ==
  /\ \A c \in Content : store[c] # "PARTIAL"
  /\ \A i \in Item : items[i] \in {0, 1}
  /\ ItemsHaveArtifacts
  /\ \A a \in Action : a < run.stage => executions[a] = "SUCCEEDED"
  /\ CompletedHasEvidence
  /\ CollectionConverges

(* What a worker holds in memory.                                          *)
Held == [stage : 0 .. Reporting, key : Keys, exit : Exits, cancel : BOOLEAN,
         items : SUBSET Item, todo : SUBSET Content, temporary : SUBSET Content]

(* What a worker has to show for a stage it is about to finalize.          *)
Done(w) ==
  IF mem[w].stage = Reporting THEN \A i \in Item : items[i] = 1
                              ELSE executions[mem[w].stage] = "SUCCEEDED"

(* What a worker knows: the stages before its own have succeeded, what it  *)
(* has put is there, and the collector of REPORTING read every execution.  *)
WorkerInv(w) ==
  /\ mem[w].exit = "evidence" => errors > 0
  /\ pc[w] # "idle" =>
       /\ mem[w].stage \in 1 .. Reporting
       /\ mem[w].stage <= run.stage
       /\ \A a \in Action : a < mem[w].stage => executions[a] = "SUCCEEDED"
  /\ pc[w] \in {"recall", "verify", "store"} => mem[w].stage \in Action
  /\ pc[w] = "reporting" => mem[w].stage = Reporting
  /\ pc[w] \in Collecting => mem[w].exit # "return"
  /\ pc[w] \in Collecting /\ mem[w].exit = "report" => mem[w].stage = Reporting
  /\ pc[w] \in Collecting /\ mem[w].exit = "cancel" =>
       (mem[w].stage = run.stage /\ run.outcome = "RUNNING" => run.cancel)
  /\ pc[w] \in {"put", "written", "save"} =>
       \A i \in mem[w].items : i.content \in mem[w].todo \/ store[i.content] = "WHOLE"
  /\ pc[w] \in {"put", "written", "save"} /\ mem[w].exit = "report" =>
       mem[w].items = Item
  /\ pc[w] = "save" => mem[w].todo = {}
  /\ pc[w] = "returned" => Done(w)
  /\ pc[w] = "finalizing" /\ mem[w].stage = run.stage /\ run.outcome = "RUNNING" =>
       mem[w].cancel \/ Done(w)
  /\ pc[w] = "failing" => mem[w].exit \in {"runner", "evidence"}

EvidenceInv == EvidenceTypeOK /\ RecordInv /\ \A w \in Worker : WorkerInv(w)

RunGrows ==
  /\ run.stage <= run'.stage
  /\ run.outcome # "RUNNING" => run'.outcome # "RUNNING"
  /\ run.cancel =>
       run'.cancel \/ run.stage < run'.stage \/ run'.outcome # "RUNNING"

(* What no step takes back.  A request to cancel stays until the run moves. *)
Grows ==
  /\ \A c \in Content : store[c] = "WHOLE" => store'[c] = "WHOLE"
  /\ \A a \in Action : executions[a] = "SUCCEEDED" => executions'[a] = "SUCCEEDED"
  /\ \A i \in Item : items[i] = 1 => items'[i] = 1
  /\ run' = run \/ RunGrows
  /\ errors > 0 => errors' > 0

LEMMA ItemType ==
  ASSUME NEW i \in Item
  PROVE  i.action \in Action /\ i.content \in Content
<1>1. PICK a \in Action : i \in {[action |-> a, kind |-> p.kind, content |-> p.content] :
                                  p \in Output[a]}
  BY DEF Item
<1>2. PICK p \in Output[a] : i = [action |-> a, kind |-> p.kind, content |-> p.content]
  BY <1>1
<1>3. p \in [kind : STRING, content : Content]
  BY EvidenceAssumption
<1> QED
  BY <1>1, <1>2, <1>3

(* A worker between two deliveries knows nothing.                          *)
LEMMA NothingToDo ==
  ASSUME NEW w \in Worker, pc[w] = "idle", mem[w] = NoMem
  PROVE  WorkerInv(w)
<1>1. mem[w].exit = "return"
  BY DEF NoMem
<1> QED
  BY <1>1 DEF WorkerInv, Collecting

LEMMA Dropped ==
  ASSUME EvidenceTypeOK, NEW w \in Worker, Drop(w)
  PROVE  /\ pc' \in [Worker -> Phases] /\ mem' \in [Worker -> Held]
         /\ pc'[w] = "idle" /\ mem'[w] = NoMem /\ WorkerInv(w)'
         /\ \A v \in Worker \ {w} : pc'[v] = pc[v] /\ mem'[v] = mem[v]
<1>1. pc \in [Worker -> Phases] /\ mem \in [Worker -> Held]
  BY DEF EvidenceTypeOK, Held
<1>2. NoMem \in Held
  <2>1. 0 \in 0 .. Reporting
    BY EvidenceAssumption DEF Reporting
  <2> QED
    BY <2>1 DEF NoMem, Held, Nothing, Exits, Keys
<1>3. /\ pc' = [pc EXCEPT ![w] = "idle"] /\ mem' = [mem EXCEPT ![w] = NoMem]
      /\ "idle" \in Phases
  BY DEF Drop, GoTo, Phases
<1>4. /\ pc' \in [Worker -> Phases] /\ mem' \in [Worker -> Held]
      /\ pc'[w] = "idle" /\ mem'[w] = NoMem
      /\ \A v \in Worker \ {w} : pc'[v] = pc[v] /\ mem'[v] = mem[v]
  BY <1>1, <1>2, <1>3
<1>5. mem'[w].exit = "return"
  BY <1>4 DEF NoMem
<1>6. WorkerInv(w)'
  BY <1>4, <1>5 DEF WorkerInv, Collecting
<1> QED
  BY <1>4, <1>6

LEMMA InitEvidenceInv ==
  ASSUME EvidenceInit
  PROVE  EvidenceInv
<1>1. EvidenceTypeOK
  BY EvidenceAssumption
     DEF EvidenceInit, EvidenceTypeOK, NoMem, Nothing, Reporting, Phases, Exits, Action,
         Keys, NotClaimed
<1>2. RecordInv
  BY EvidenceAssumption
     DEF EvidenceInit, RecordInv, ItemsHaveArtifacts, CompletedHasEvidence,
         CollectionConverges, Action, Reporting
<1>3. \A w \in Worker : WorkerInv(w)
  BY NothingToDo DEF EvidenceInit
<1> QED
  BY <1>1, <1>2, <1>3 DEF EvidenceInv

(* Workers that do not move keep what they know.                           *)
LEMMA Others ==
  ASSUME EvidenceInv, Grows, EvidenceTypeOK', NEW v \in Worker,
         pc'[v] = pc[v], mem'[v] = mem[v]
  PROVE  WorkerInv(v)'
<1>1. \A i \in mem[v].items : i.content \in Content
  BY ItemType DEF EvidenceInv, EvidenceTypeOK
<1>2. mem[v].stage \in 1 .. Reporting /\ mem[v].stage # Reporting
        => mem[v].stage \in Action
  BY EvidenceAssumption DEF Reporting, Action
<1>3. WorkerInv(v)
  BY DEF EvidenceInv
<1>4. pc[v] \in {"returned", "finalizing"} /\ Done(v) => Done(v)'
  BY <1>2, <1>3 DEF Done, WorkerInv, Grows
<1>5. pc[v] # "idle" =>
        /\ mem[v].stage <= run'.stage
        /\ mem[v].stage = run'.stage /\ run'.outcome = "RUNNING" =>
             /\ mem[v].stage = run.stage /\ run.outcome = "RUNNING"
             /\ run.cancel => run'.cancel
  <2>1. SUFFICES ASSUME pc[v] # "idle", RunGrows
                 PROVE  /\ mem[v].stage <= run'.stage
                        /\ mem[v].stage = run'.stage /\ run'.outcome = "RUNNING" =>
                             /\ mem[v].stage = run.stage /\ run.outcome = "RUNNING"
                             /\ run.cancel => run'.cancel
    BY <1>3 DEF Grows, WorkerInv
  <2>2. mem[v].stage \in Nat /\ run.stage \in Nat /\ run'.stage \in Nat
    BY <1>3, <2>1, EvidenceAssumption
       DEF WorkerInv, EvidenceInv, EvidenceTypeOK, Reporting
  <2>3. mem[v].stage <= run.stage
    BY <1>3, <2>1 DEF WorkerInv
  <2> QED
    BY <2>1, <2>2, <2>3 DEF RunGrows
<1>6. WorkerInv(v)'
  BY <1>1, <1>3, <1>4, <1>5 DEF WorkerInv, Grows, Collecting
<1> QED
  BY <1>6

(* The five things to show of a step of one worker.                        *)
LEMMA StepOfOne ==
  ASSUME EvidenceInv, NEW w \in Worker,
         EvidenceTypeOK', Grows, RecordInv', WorkerInv(w)',
         \A v \in Worker \ {w} : pc'[v] = pc[v] /\ mem'[v] = mem[v]
  PROVE  EvidenceInv'
<1>1. ASSUME NEW v \in Worker PROVE WorkerInv(v)'
  <2>1. CASE v = w
    BY <2>1
  <2>2. CASE v # w
    BY <2>2, Others
  <2> QED
    BY <2>1, <2>2
<1> QED
  BY <1>1 DEF EvidenceInv

(* A step that writes nothing but what a worker holds.                     *)
LEMMA StepInMemory ==
  ASSUME EvidenceInv, NEW w \in Worker,
         UNCHANGED <<run, rows, store>>, errors' \in errors .. MaxErrors,
         EvidenceTypeOK', WorkerInv(w)',
         \A v \in Worker \ {w} : pc'[v] = pc[v] /\ mem'[v] = mem[v]
  PROVE  EvidenceInv'
<1>1. errors \in Nat
  BY DEF EvidenceInv, EvidenceTypeOK
<1>2. Grows
  BY <1>1 DEF Grows, rows
<1>3. RecordInv'
  BY <1>1 DEF EvidenceInv, RecordInv, ItemsHaveArtifacts, CompletedHasEvidence,
              CollectionConverges, Executed, rows
<1> QED
  BY <1>2, <1>3, StepOfOne

-----------------------------------------------------------------------------

LEMMA DropStep ==
  ASSUME EvidenceInv, NEW w \in Worker, Drop(w),
         UNCHANGED <<delivery, rows, store, errors>>, leftovers' \subseteq Content
  PROVE  EvidenceInv'
<1>1. /\ EvidenceTypeOK /\ UNCHANGED <<run, owner, executions, items, store, errors>>
      /\ errors \in 0 .. MaxErrors
  BY DEF EvidenceInv, EvidenceTypeOK, delivery, rows
<1>2. EvidenceTypeOK'
  BY <1>1, Dropped DEF EvidenceTypeOK, Held
<1>3. errors' \in errors .. MaxErrors
  BY <1>1, EvidenceAssumption
<1> QED
  BY <1>1, <1>2, <1>3, Dropped, StepInMemory DEF rows

LEMMA ClaimStep ==
  ASSUME EvidenceInv, NEW w \in Worker, Claim(w)
  PROVE  EvidenceInv'
<1>1. PICK key \in Keys :
        /\ owner' = [owner EXCEPT ![key] = {w}]
        /\ mem' = [mem EXCEPT ![w] = [NoMem EXCEPT !.stage = run.stage, !.key = key]]
  BY DEF Claim, Keys
<1> DEFINE held == [NoMem EXCEPT !.stage = run.stage, !.key = key]
<1>2. run.stage \in 1 .. Reporting /\ run.stage <= run.stage
  BY EvidenceAssumption DEF EvidenceInv, EvidenceTypeOK, Reporting
<1>3. held \in Held /\ held.stage = run.stage /\ held.exit = "return"
  <2>1. run.stage \in 0 .. Reporting
    BY <1>2, EvidenceAssumption DEF Reporting
  <2>2. NoMem \in Held /\ NoMem.exit = "return"
    <3>1. 0 \in 0 .. Reporting
      BY EvidenceAssumption DEF Reporting
    <3> QED
      BY <3>1 DEF NoMem, Held, Nothing, Exits, Keys
  <2>3. key \in Keys
    OBVIOUS
  <2> QED
    BY <2>1, <2>2, <2>3 DEF Held
<1>4. mem' = [mem EXCEPT ![w] = held] /\ pc' = [pc EXCEPT ![w] = "claimed"]
  BY <1>1 DEF Claim, GoTo
<1>5. UNCHANGED <<run, rows, store, leftovers, errors>>
  BY DEF Claim, files
<1> HIDE DEF held
<1>6. EvidenceTypeOK'
  <2>1. owner' \in [Keys -> {Nothing} \union {{v} : v \in Worker}]
    BY <1>1 DEF EvidenceInv, EvidenceTypeOK
  <2>2. mem' \in [Worker -> Held] /\ pc' \in [Worker -> Phases]
    BY <1>3, <1>4 DEF EvidenceInv, EvidenceTypeOK, Held, Phases
  <2> QED
    BY <1>5, <2>1, <2>2 DEF EvidenceInv, EvidenceTypeOK, Held, rows
<1>7. pc'[w] = "claimed" /\ mem'[w] = held
  BY <1>4 DEF EvidenceInv, EvidenceTypeOK
<1>8. WorkerInv(w)'
  BY <1>2, <1>3, <1>5, <1>7 DEF EvidenceInv, RecordInv, WorkerInv, Collecting, rows
<1>9. errors' \in errors .. MaxErrors
  BY <1>5, EvidenceAssumption DEF EvidenceInv, EvidenceTypeOK
<1>10. \A v \in Worker \ {w} : pc'[v] = pc[v] /\ mem'[v] = mem[v]
  BY <1>4 DEF EvidenceInv, EvidenceTypeOK
<1> QED
  BY <1>5, <1>6, <1>8, <1>9, <1>10, StepInMemory

(* finalize may read with the stage done, or with the run to be cancelled, *)
(* after a row or an error was written too.                                *)
LEMMA ReadToFinalize ==
  ASSUME EvidenceInv, NEW w \in Worker, pc[w] # "idle", FinalizeRead(w), Grows,
         UNCHANGED <<delivery, executions, files>>,
         items' \in [Item -> Nat], errors' \in 0 .. MaxErrors,
         mem[w].stage = run.stage /\ run.outcome = "RUNNING" => run.cancel \/ Done(w)
  PROVE  /\ EvidenceTypeOK'
         /\ WorkerInv(w)'
         /\ \A v \in Worker \ {w} : pc'[v] = pc[v] /\ mem'[v] = mem[v]
<1> DEFINE held == [mem[w] EXCEPT !.temporary = Nothing, !.cancel = run.cancel]
<1>1. mem \in [Worker -> Held] /\ run.cancel \in BOOLEAN /\ WorkerInv(w)
  BY DEF EvidenceInv, EvidenceTypeOK, Held
<1>2. /\ held \in Held /\ held.stage = mem[w].stage /\ held.exit = mem[w].exit
      /\ held.cancel = run.cancel
  BY <1>1 DEF Held, Nothing
<1>3. mem' = [mem EXCEPT ![w] = held] /\ pc' = [pc EXCEPT ![w] = "finalizing"]
  BY <1>1 DEF FinalizeRead, GoTo
<1> HIDE DEF held
<1>4. EvidenceTypeOK'
  <2>1. mem' \in [Worker -> Held] /\ pc' \in [Worker -> Phases]
    BY <1>1, <1>2, <1>3 DEF EvidenceInv, EvidenceTypeOK, Phases
  <2> QED
    BY <2>1 DEF EvidenceInv, EvidenceTypeOK, Held, delivery, files
<1>5. pc'[w] = "finalizing" /\ mem'[w] = held
  BY <1>1, <1>3 DEF EvidenceInv, EvidenceTypeOK
<1>6. Done(w) => Done(w)'
  <2>1. mem[w].stage # Reporting => mem[w].stage \in Action
    BY <1>1, EvidenceAssumption DEF WorkerInv, Action, Reporting
  <2>2. mem'[w].stage = mem[w].stage
    BY <1>2, <1>5
  <2>3. ASSUME mem[w].stage = Reporting, Done(w)
        PROVE  Done(w)'
    BY <2>2, <2>3 DEF Done, Grows, Reporting
  <2>4. ASSUME mem[w].stage # Reporting, Done(w)
        PROVE  Done(w)'
    BY <2>1, <2>2, <2>4 DEF Done, Grows, Reporting
  <2> QED
    BY <2>3, <2>4
<1>7. WorkerInv(w)'
  <2>1. /\ pc'[w] = "finalizing" /\ mem'[w].stage = mem[w].stage
        /\ mem'[w].exit = mem[w].exit /\ mem'[w].cancel = run.cancel
        /\ run' = run /\ executions' = executions
    BY <1>2, <1>5 DEF delivery
  <2>2. errors > 0 => errors' > 0
    BY DEF Grows
  <2>3. mem[w].stage = run.stage /\ run.outcome = "RUNNING" => run.cancel \/ Done(w)'
    BY <1>6
  <2> HIDE DEF held
  <2> QED
    BY <1>1, <2>1, <2>2, <2>3 DEF WorkerInv, Collecting
<1> QED
  BY <1>1, <1>3, <1>4, <1>7 DEF EvidenceInv, EvidenceTypeOK

(* The same when nothing is written.                                       *)
LEMMA ReadStep ==
  ASSUME EvidenceInv, NEW w \in Worker, pc[w] # "idle", FinalizeRead(w), OnlyWorker,
         errors' \in errors .. MaxErrors, run.cancel \/ Done(w)
  PROVE  EvidenceInv'
<1>1. UNCHANGED <<delivery, run, executions, items, rows, files, store>>
  BY DEF OnlyWorker, delivery, rows, files
<1>2. errors \in Nat /\ errors' \in 0 .. MaxErrors /\ items' \in [Item -> Nat]
  BY <1>1, EvidenceAssumption DEF EvidenceInv, EvidenceTypeOK
<1>3. Grows
  BY <1>1, <1>2 DEF Grows
<1> QED
  BY <1>1, <1>2, <1>3, ReadToFinalize, StepInMemory

(* A worker that goes on to a cancellation or a failure.                   *)
LEMMA RaiseStep ==
  ASSUME EvidenceInv, NEW w \in Worker,
         NEW exit \in {"cancel", "runner", "evidence"},
         pc[w] # "idle", Raise(w, exit), OnlyWorker, UNCHANGED errors,
         exit = "cancel" => run.cancel, exit = "evidence" => errors > 0
  PROVE  EvidenceInv'
<1>1. errors' \in errors .. MaxErrors
  BY EvidenceAssumption DEF EvidenceInv, EvidenceTypeOK
<1>2. CASE FinalizeRead(w) /\ exit = "cancel"
  BY <1>1, <1>2, ReadStep
<1>3. CASE /\ mem' = [mem EXCEPT ![w].exit = exit]
           /\ GoTo(w, IF mem[w].stage \in EvidenceStages THEN "gather" ELSE "failing")
           /\ mem[w].stage \notin EvidenceStages => exit # "cancel"
  <2>1. EvidenceTypeOK'
    <3>1. mem \in [Worker -> Held] /\ exit \in Exits
      BY DEF EvidenceInv, EvidenceTypeOK, Held, Exits
    <3>2. [mem[w] EXCEPT !.exit = exit] \in Held
      BY <3>1 DEF Held
    <3>3. mem' \in [Worker -> Held]
      BY <1>3, <3>1, <3>2
    <3>4. pc' \in [Worker -> Phases]
      BY <1>3 DEF EvidenceInv, EvidenceTypeOK, GoTo, Phases, Collecting
    <3>5. errors' \in 0 .. MaxErrors
      BY <1>1, EvidenceAssumption DEF EvidenceInv, EvidenceTypeOK
    <3> QED
      BY <3>3, <3>4, <3>5
         DEF EvidenceInv, EvidenceTypeOK, Held, OnlyWorker, delivery, rows, files
  <2>2. /\ pc'[w] \in {"gather", "failing"} /\ mem'[w].stage = mem[w].stage
        /\ mem'[w].exit = exit /\ (pc'[w] = "failing" => exit # "cancel")
    BY <1>3 DEF EvidenceInv, EvidenceTypeOK, GoTo
  <2>3. WorkerInv(w)'
    BY <2>2 DEF EvidenceInv, WorkerInv, Collecting, OnlyWorker, delivery, rows, files
  <2> QED
    BY <1>1, <1>3, <2>1, <2>3, StepInMemory
       DEF EvidenceInv, EvidenceTypeOK, GoTo, OnlyWorker, delivery, rows, files
<1> QED
  BY <1>2, <1>3 DEF Raise

(* A worker that goes on in its stage.                                     *)
LEMMA GoOnStep ==
  ASSUME EvidenceInv, NEW w \in Worker, NEW next \in Phases,
         GoTo(w, next), UNCHANGED <<mem, errors>>, OnlyWorker, WorkerInv(w)'
  PROVE  EvidenceInv'
<1>1. EvidenceTypeOK'
  BY DEF EvidenceInv, EvidenceTypeOK, GoTo, OnlyWorker, delivery, rows, files
<1> QED
  BY <1>1, StepInMemory
     DEF EvidenceInv, EvidenceTypeOK, GoTo, OnlyWorker, delivery, rows, files

LEMMA CheckpointStep ==
  ASSUME EvidenceInv, NEW w \in Worker,
         NEW from \in Phases, NEW next \in Phases, from # "idle",
         Checkpoint(w, from, next),
         pc' = [pc EXCEPT ![w] = next] /\ UNCHANGED mem => WorkerInv(w)'
  PROVE  EvidenceInv'
<1>1. CASE ~Holds(w)
  BY <1>1, DropStep
     DEF Checkpoint, OnlyWorker, delivery, rows, files, EvidenceInv, EvidenceTypeOK
<1>2. CASE Holds(w) /\ run.cancel
  BY <1>2, RaiseStep DEF Checkpoint
<1>3. CASE Holds(w) /\ ~run.cancel
  BY <1>3, GoOnStep DEF Checkpoint, GoTo
<1> QED
  BY <1>1, <1>2, <1>3

LEMMA BeginStep ==
  ASSUME EvidenceInv, NEW w \in Worker, Begin(w)
  PROVE  EvidenceInv'
<1>1. CASE ~Holds(w)
  BY <1>1, DropStep
     DEF Begin, OnlyWorker, delivery, rows, files, EvidenceInv, EvidenceTypeOK
<1>2. CASE Holds(w) /\ run.cancel
  <2>1. FinalizeRead(w) /\ UNCHANGED errors /\ OnlyWorker /\ pc[w] = "claimed"
    BY <1>2 DEF Begin
  <2>2. errors' \in errors .. MaxErrors
    BY <2>1, EvidenceAssumption DEF EvidenceInv, EvidenceTypeOK
  <2> QED
    BY <1>2, <2>1, <2>2, ReadStep
<1>3. CASE Holds(w) /\ ~run.cancel
  <2> DEFINE next == IF run.stage = Reporting THEN "reporting" ELSE "recall"
  <2>1. GoTo(w, next) /\ UNCHANGED <<mem, errors>> /\ OnlyWorker /\ next \in Phases
    BY <1>3 DEF Begin, Phases
  <2>2. mem[w].stage = run.stage /\ pc[w] = "claimed"
    BY <1>3 DEF Begin, Holds
  <2>3. pc'[w] = next /\ mem'[w] = mem[w] /\ errors' = errors
        /\ UNCHANGED <<run, executions, items, store>>
    BY <2>1 DEF GoTo, EvidenceInv, EvidenceTypeOK, OnlyWorker, delivery, rows, files
  <2>4. next = "recall" => mem[w].stage \in Action
    BY <2>2, EvidenceAssumption DEF EvidenceInv, EvidenceTypeOK, Action, Reporting
  <2>6. next = "reporting" => mem[w].stage = Reporting
    BY <2>2
  <2>7. next \in {"reporting", "recall"}
    OBVIOUS
  <2> HIDE DEF next
  <2>8. WorkerInv(w)'
    BY <2>2, <2>3, <2>4, <2>6, <2>7 DEF EvidenceInv, WorkerInv, Collecting
  <2> QED
    BY <2>1, <2>8, GoOnStep
<1> QED
  BY <1>1, <1>2, <1>3

LEMMA AuditStep ==
  ASSUME EvidenceInv, NEW w \in Worker, Audit(w)
  PROVE  EvidenceInv'
<1>1. CASE Recall(w)
  <2>1. mem[w].stage \in Action /\ mem[w].stage # Reporting
    BY <1>1, EvidenceAssumption DEF Recall, EvidenceInv, WorkerInv, Action, Reporting
  <2>2. CASE Raise(w, "runner")
    BY <1>1, <2>2, RaiseStep DEF Recall
  <2>3. CASE GoTo(w, "returned") /\ UNCHANGED mem /\ executions[mem[w].stage] = "SUCCEEDED"
    <3>1. WorkerInv(w)'
      BY <1>1, <2>1, <2>3
         DEF Recall, EvidenceInv, EvidenceTypeOK, WorkerInv, Done, GoTo, Collecting,
             OnlyWorker, delivery, rows, files
    <3> QED
      BY <1>1, <2>3, <3>1, GoOnStep DEF Recall, Phases
  <2>4. CASE GoTo(w, "verify") /\ UNCHANGED mem
    <3>1. WorkerInv(w)'
      BY <1>1, <2>1, <2>4
         DEF Recall, EvidenceInv, EvidenceTypeOK, WorkerInv, GoTo, Collecting,
             OnlyWorker, delivery, rows, files
    <3> QED
      BY <1>1, <2>4, <3>1, GoOnStep DEF Recall, Phases
  <2>5. executions[mem[w].stage] \in {"NONE", "SUCCEEDED", "FAILED"}
    BY <2>1 DEF EvidenceInv, EvidenceTypeOK
  <2> QED
    BY <1>1, <2>2, <2>3, <2>4, <2>5 DEF Recall
<1>2. CASE VerifyClaim(w)
  <2>1. pc' = [pc EXCEPT ![w] = "store"] /\ UNCHANGED mem => WorkerInv(w)'
    BY <1>2 DEF VerifyClaim, Checkpoint, EvidenceInv, EvidenceTypeOK, WorkerInv,
                Collecting, OnlyWorker, delivery, rows, files
  <2> QED
    BY <1>2, <2>1, CheckpointStep DEF VerifyClaim, Phases
<1>3. CASE StoreExecution(w)
  <2> DEFINE a == mem[w].stage
  <2>1. a \in Action /\ a # Reporting
    BY <1>3, EvidenceAssumption
       DEF StoreExecution, EvidenceInv, WorkerInv, Action, Reporting
  <2>2. PICK status \in {"SUCCEEDED", "FAILED"} :
          IF executions[a] = "NONE"
          THEN /\ executions' = [executions EXCEPT ![a] = status]
               /\ IF status = "SUCCEEDED" THEN GoTo(w, "returned") /\ UNCHANGED mem
                                          ELSE Raise(w, "runner")
          ELSE Raise(w, "runner") /\ UNCHANGED executions
    BY <1>3 DEF StoreExecution
  <2>3. CASE executions[a] # "NONE"
    BY <1>3, <2>2, <2>3, RaiseStep
       DEF StoreExecution, OnlyWorker, rows, delivery, files
  <2>4. CASE executions[a] = "NONE"
    <3>1. UNCHANGED <<run, items, store, leftovers, owner, errors>>
      BY <1>3 DEF StoreExecution, delivery, files
    <3>2. Grows
      BY <2>1, <2>2, <2>4, <3>1 DEF Grows, EvidenceInv, EvidenceTypeOK
    <3>3. ~(run.outcome = "COMPLETED")
      BY <2>1, <2>4 DEF EvidenceInv, RecordInv, CompletedHasEvidence, Executed
    <3>4. RecordInv'
      BY <2>1, <2>2, <2>4, <3>1, <3>2, <3>3
         DEF EvidenceInv, EvidenceTypeOK, RecordInv, ItemsHaveArtifacts,
             CompletedHasEvidence, CollectionConverges, Grows
    <3>5. EvidenceTypeOK' /\ WorkerInv(w)'
      <4>1. CASE status = "SUCCEEDED"
        <5>1. /\ pc' = [pc EXCEPT ![w] = "returned"] /\ mem' = mem
              /\ executions' = [executions EXCEPT ![a] = "SUCCEEDED"]
          BY <2>2, <2>4, <4>1 DEF GoTo
        <5>2. /\ executions' \in [Action -> {"NONE", "SUCCEEDED", "FAILED"}]
              /\ executions'[a] = "SUCCEEDED"
          BY <2>1, <5>1 DEF EvidenceInv, EvidenceTypeOK
        <5>3. pc' \in [Worker -> Phases] /\ pc'[w] = "returned"
          BY <5>1 DEF EvidenceInv, EvidenceTypeOK, Phases
        <5>4. EvidenceTypeOK'
          BY <3>1, <5>1, <5>2, <5>3 DEF EvidenceInv, EvidenceTypeOK
        <5>5. a # Reporting
          BY <2>1, EvidenceAssumption DEF Action, Reporting
        <5>6. Done(w)'
          BY <5>1, <5>2, <5>5 DEF Done
        <5>7. WorkerInv(w) /\ pc[w] = "store"
          BY <1>3 DEF EvidenceInv, StoreExecution
        <5>8. WorkerInv(w)'
          BY <3>1, <3>2, <5>1, <5>3, <5>6, <5>7 DEF WorkerInv, Collecting, Grows
        <5> QED
          BY <5>4, <5>8
      <4>2. CASE status = "FAILED"
        <5>1. Raise(w, "runner")
          BY <2>2, <2>4, <4>2
        <5>2. EvidenceTypeOK'
          <6>1. executions' \in [Action -> {"NONE", "SUCCEEDED", "FAILED"}]
            BY <2>1, <2>2, <2>4 DEF EvidenceInv, EvidenceTypeOK
          <6>2. pc' \in [Worker -> Phases]
            BY <5>1 DEF EvidenceInv, EvidenceTypeOK, Raise, GoTo, Phases, Collecting
          <6>3. mem' \in [Worker -> Held]
            <7>1. mem \in [Worker -> Held] /\ "runner" \in Exits
              BY DEF EvidenceInv, EvidenceTypeOK, Held, Exits
            <7>2. [mem[w] EXCEPT !.exit = "runner"] \in Held
              BY <7>1 DEF Held
            <7> QED
              BY <5>1, <7>1, <7>2 DEF Raise
          <6> QED
            BY <3>1, <6>1, <6>2, <6>3 DEF EvidenceInv, EvidenceTypeOK, Held
        <5>3. mem'[w] = [mem[w] EXCEPT !.exit = "runner"] /\ pc'[w] \in {"gather", "failing"}
          BY <5>1 DEF EvidenceInv, EvidenceTypeOK, Raise, GoTo
        <5>4. WorkerInv(w)'
          BY <1>3, <3>1, <3>2, <5>3
             DEF StoreExecution, EvidenceInv, EvidenceTypeOK, WorkerInv, Collecting, Grows
        <5> QED
          BY <5>2, <5>4
      <4> QED
        BY <4>1, <4>2
    <3>6. \A v \in Worker \ {w} : pc'[v] = pc[v] /\ mem'[v] = mem[v]
      BY <2>2, <2>4 DEF Raise, GoTo, EvidenceInv, EvidenceTypeOK
    <3> QED
      BY <3>2, <3>4, <3>5, <3>6, StepOfOne
  <2> QED
    BY <2>3, <2>4
<1> QED
  BY <1>1, <1>2, <1>3 DEF Audit

-----------------------------------------------------------------------------
(* The collection.                                                         *)

(* Where a collection ends.                                                *)
LEMMA EndOfCollection ==
  ASSUME EvidenceInv, NEW w \in Worker, NEW ok \in BOOLEAN,
         pc[w] \in Collecting, CollectionEnds(w, ok), Grows,
         UNCHANGED <<delivery, executions, files>>,
         items' \in [Item -> Nat], errors' \in 0 .. MaxErrors,
         ok /\ mem[w].exit = "report" => \A i \in Item : items'[i] = 1,
         ~ok /\ mem[w].exit = "report" => errors' > 0
  PROVE  /\ EvidenceTypeOK'
         /\ WorkerInv(w)'
         /\ \A v \in Worker \ {w} : pc'[v] = pc[v] /\ mem'[v] = mem[v]
<1>0. CASE mem[w].exit = "cancel"
  <2>1. FinalizeRead(w) /\ WorkerInv(w) /\ pc[w] # "idle"
    BY <1>0 DEF CollectionEnds, EvidenceInv, Collecting
  <2>2. mem[w].stage = run.stage /\ run.outcome = "RUNNING" => run.cancel
    BY <1>0, <2>1 DEF WorkerInv
  <2> QED
    BY <2>1, <2>2, ReadToFinalize
<1> SUFFICES ASSUME mem[w].exit # "cancel"
             PROVE  /\ EvidenceTypeOK'
                    /\ WorkerInv(w)'
                    /\ \A v \in Worker \ {w} : pc'[v] = pc[v] /\ mem'[v] = mem[v]
  BY <1>0
<1> DEFINE next == IF mem[w].exit = "report"
                   THEN IF ok THEN "returned" ELSE "gather"
                   ELSE "failing"
           exit == IF mem[w].exit = "report" /\ ~ok THEN "evidence" ELSE mem[w].exit
<1>1. WorkerInv(w) /\ pc[w] # "idle"
  BY DEF EvidenceInv, Collecting
<1>2. mem[w] \in Held
  BY DEF EvidenceInv, EvidenceTypeOK, Held
<1>3. mem \in [Worker -> Held]
  BY DEF EvidenceInv, EvidenceTypeOK, Held
<1>4. GoTo(w, next)
  BY DEF CollectionEnds
<1>5. mem' = [mem EXCEPT ![w].exit = exit, ![w].temporary = Nothing]
  <2>1. CASE mem[w].exit = "report" /\ ~ok
    BY <2>1 DEF CollectionEnds
  <2>2. CASE ~(mem[w].exit = "report" /\ ~ok)
    <3>1. mem' = [mem EXCEPT ![w].temporary = Nothing]
      BY <2>2 DEF CollectionEnds
    <3> QED
      BY <1>3, <2>2, <3>1 DEF Held
  <2> QED
    BY <2>1, <2>2
<1>6. exit \in Exits
  BY <1>2 DEF Exits, Held
<1>7. next \in {"returned", "gather", "failing"}
  OBVIOUS
<1>8. /\ next = "returned" => mem[w].exit = "report" /\ ok
      /\ next = "gather" => exit = "evidence"
      /\ next = "failing" => exit \in {"runner", "evidence"}
  BY <1>1, <1>2 DEF WorkerInv, Exits, Held
<1>9. exit = "evidence" => errors' > 0
  BY <1>1 DEF WorkerInv, Grows
<1> HIDE DEF next, exit
<1>10. EvidenceTypeOK'
  <2> DEFINE held == [mem[w] EXCEPT !.exit = exit, !.temporary = Nothing]
  <2>1. mem' \in [Worker -> Held]
    <3>1. held \in Held
      BY <1>2, <1>6 DEF Nothing, Held
    <3>2. mem' = [mem EXCEPT ![w] = held]
      BY <1>2, <1>3, <1>5 DEF Held
    <3> HIDE DEF held
    <3> QED
      BY <1>3, <3>1, <3>2
  <2>2. pc' \in [Worker -> Phases]
    BY <1>4, <1>7 DEF EvidenceInv, EvidenceTypeOK, GoTo, Phases, Collecting
  <2> QED
    BY <2>1, <2>2 DEF EvidenceInv, EvidenceTypeOK, Held, delivery, files
<1>11. /\ pc'[w] = next /\ mem'[w].exit = exit /\ mem'[w].stage = mem[w].stage
  BY <1>3, <1>4, <1>5 DEF EvidenceInv, EvidenceTypeOK, GoTo, Held
<1>12. run' = run /\ executions' = executions
  BY DEF delivery
<1>13. next = "returned" => Done(w)'
  BY <1>1, <1>8, <1>11 DEF Done, WorkerInv, Reporting
<1>15. WorkerInv(w)'
  BY <1>1, <1>7, <1>8, <1>9, <1>11, <1>12, <1>13 DEF WorkerInv, Collecting
<1>16. \A v \in Worker \ {w} : pc'[v] = pc[v] /\ mem'[v] = mem[v]
  BY <1>3, <1>4, <1>5 DEF GoTo, EvidenceInv, EvidenceTypeOK
<1> QED
  BY <1>10, <1>15, <1>16

(* A collection that fails or is over without writing anything.            *)
LEMMA FailedCollection ==
  ASSUME EvidenceInv, NEW w \in Worker,
         pc[w] \in Collecting, CollectionEnds(w, FALSE), OnlyWorker,
         errors' \in errors .. MaxErrors, errors' > 0
  PROVE  EvidenceInv'
<1>1. errors \in Nat /\ errors' \in 0 .. MaxErrors
  BY EvidenceAssumption DEF EvidenceInv, EvidenceTypeOK
<1>2. Grows
  BY <1>1 DEF Grows, OnlyWorker, delivery, rows, files
<1>3. UNCHANGED <<delivery, executions, files, items>>
  BY DEF OnlyWorker, rows
<1>4. items' \in [Item -> Nat]
  BY <1>3 DEF EvidenceInv, EvidenceTypeOK
<1>5. /\ EvidenceTypeOK' /\ WorkerInv(w)'
      /\ \A v \in Worker \ {w} : pc'[v] = pc[v] /\ mem'[v] = mem[v]
  BY <1>1, <1>2, <1>3, <1>4, EndOfCollection
<1> QED
  BY <1>3, <1>5, StepInMemory DEF OnlyWorker, delivery, rows, files

LEMMA CollectionFailsStep ==
  ASSUME EvidenceInv, NEW w \in Worker, CollectionFails(w)
  PROVE  EvidenceInv'
<1>1. errors' \in errors .. MaxErrors /\ errors' > 0
  BY EvidenceAssumption DEF CollectionFails, EvidenceInv, EvidenceTypeOK
<1> QED
  BY <1>1, FailedCollection DEF CollectionFails

LEMMA ReportStep ==
  ASSUME EvidenceInv, NEW w \in Worker, Report(w)
  PROVE  EvidenceInv'
<1>1. CASE ~Holds(w)
  BY <1>1, DropStep
     DEF Report, OnlyWorker, delivery, rows, files, EvidenceInv, EvidenceTypeOK
<1>2. CASE Holds(w) /\ run.cancel
  BY <1>2, RaiseStep DEF Report
<1>3. CASE Holds(w) /\ ~run.cancel
  <2>1. GoTo(w, "gather") /\ mem' = [mem EXCEPT ![w].exit = "report"]
    BY <1>3 DEF Report
  <2>2. EvidenceTypeOK'
    <3>1. mem \in [Worker -> Held] /\ "report" \in Exits
      BY DEF EvidenceInv, EvidenceTypeOK, Held, Exits
    <3>2. [mem[w] EXCEPT !.exit = "report"] \in Held
      BY <3>1 DEF Held
    <3>3. mem' \in [Worker -> Held]
      BY <2>1, <3>1, <3>2
    <3>4. pc' \in [Worker -> Phases]
      BY <2>1 DEF EvidenceInv, EvidenceTypeOK, GoTo, Phases, Collecting
    <3> QED
      BY <3>3, <3>4
         DEF Report, EvidenceInv, EvidenceTypeOK, Held, OnlyWorker, delivery, rows, files
  <2>3. pc'[w] = "gather" /\ mem'[w] = [mem[w] EXCEPT !.exit = "report"]
    BY <2>1 DEF EvidenceInv, EvidenceTypeOK, GoTo
  <2>4. WorkerInv(w)'
    BY <2>3 DEF Report, EvidenceInv, EvidenceTypeOK, WorkerInv, Collecting,
                OnlyWorker, delivery, rows, files
  <2>5. \A v \in Worker \ {w} : pc'[v] = pc[v] /\ mem'[v] = mem[v]
    BY <2>1 DEF EvidenceInv, EvidenceTypeOK, GoTo
  <2>6. UNCHANGED <<run, rows, store>> /\ errors' \in errors .. MaxErrors
    BY EvidenceAssumption
       DEF Report, OnlyWorker, delivery, files, EvidenceInv, EvidenceTypeOK
  <2> QED
    BY <2>2, <2>4, <2>5, <2>6, StepInMemory
<1> QED
  BY <1>1, <1>2, <1>3

LEMMA GatherStep ==
  ASSUME EvidenceInv, NEW w \in Worker, Gather(w)
  PROVE  EvidenceInv'
<1> DEFINE found == ItemsOf(Executed)
<1>1. found \subseteq Item
  BY DEF ItemsOf
<1>2. Contents(found) \subseteq Content
  BY <1>1, ItemType DEF Contents
<1>3. \A i \in found : i.content \in Contents(found)
  BY DEF Contents
<1>4. mem[w].exit = "report" => found = Item
  <2>1. SUFFICES ASSUME mem[w].exit = "report", NEW i \in Item
                 PROVE  i \in found
    BY <1>1
  <2>2. mem[w].stage = Reporting /\ \A a \in Action : a < mem[w].stage => executions[a] = "SUCCEEDED"
    BY <2>1 DEF EvidenceInv, WorkerInv, Gather, Collecting
  <2>3. i.action \in Action /\ i.action < Reporting
    BY ItemType, EvidenceAssumption DEF Action, Reporting
  <2> QED
    BY <2>2, <2>3 DEF Executed, ItemsOf
<1> HIDE DEF found
<1>5. /\ mem' = [mem EXCEPT ![w].items = found, ![w].todo = Contents(found)]
      /\ pc[w] = "gather" /\ GoTo(w, "put") /\ UNCHANGED <<delivery, rows, files, errors>>
  BY DEF Gather, found, OnlyWorker
<1>6. EvidenceTypeOK'
  <2>1. mem' \in [Worker -> Held]
    <3>1. mem \in [Worker -> Held]
      BY DEF EvidenceInv, EvidenceTypeOK, Held
    <3>2. [mem[w] EXCEPT !.items = found, !.todo = Contents(found)]
            \in Held
      BY <1>1, <1>2, <3>1 DEF Held
    <3>3. mem' = [mem EXCEPT ![w] = [mem[w] EXCEPT !.items = found, !.todo = Contents(found)]]
      BY <1>5, <3>1 DEF Held
    <3> QED
      BY <3>1, <3>2, <3>3
  <2>2. pc' \in [Worker -> Phases]
    BY <1>5 DEF EvidenceInv, EvidenceTypeOK, GoTo, Phases, Collecting
  <2> QED
    BY <1>5, <2>1, <2>2 DEF EvidenceInv, EvidenceTypeOK, Held, delivery, rows, files
<1>7. WorkerInv(w)'
  <2>1. /\ pc'[w] = "put" /\ mem'[w].items = found /\ mem'[w].todo = Contents(found)
        /\ mem'[w].stage = mem[w].stage /\ mem'[w].exit = mem[w].exit
    BY <1>5 DEF GoTo, EvidenceInv, EvidenceTypeOK, Held
  <2>2. WorkerInv(w) /\ pc[w] \in Collecting /\ pc[w] # "idle"
    BY <1>5 DEF EvidenceInv, Collecting
  <2> QED
    BY <1>3, <1>4, <1>5, <2>1, <2>2 DEF WorkerInv, Collecting, delivery, rows, files
<1>8. \A v \in Worker \ {w} : pc'[v] = pc[v] /\ mem'[v] = mem[v]
  BY DEF Gather, GoTo, EvidenceInv, EvidenceTypeOK
<1>9. UNCHANGED <<run, rows, store>> /\ errors' \in errors .. MaxErrors
  BY EvidenceAssumption
     DEF Gather, OnlyWorker, delivery, files, EvidenceInv, EvidenceTypeOK
<1> QED
  BY <1>6, <1>7, <1>8, <1>9, StepInMemory

LEMMA FindArtifactStep ==
  ASSUME EvidenceInv, NEW w \in Worker, FindArtifact(w)
  PROVE  EvidenceInv'
<1>1. PICK c \in mem[w].todo :
        /\ store[c] # "ABSENT"
        /\ IF store[c] = "WHOLE"
           THEN mem' = [mem EXCEPT ![w].todo = @ \ {c}] /\ UNCHANGED pc
           ELSE CollectionEnds(w, FALSE)
  BY DEF FindArtifact
<1>2. mem \in [Worker -> Held]
  BY DEF EvidenceInv, EvidenceTypeOK, Held
<1>3. c \in Content
  BY <1>2 DEF Held
<1>4. store[c] = "WHOLE"
  BY <1>1, <1>3 DEF EvidenceInv, EvidenceTypeOK, RecordInv
<1>5. /\ mem' = [mem EXCEPT ![w].todo = @ \ {c}] /\ UNCHANGED <<pc, errors>>
      /\ pc[w] = "put" /\ UNCHANGED <<delivery, rows, files>>
  BY <1>1, <1>4 DEF FindArtifact, OnlyWorker
<1>6. EvidenceTypeOK'
  <2>1. [mem[w] EXCEPT !.todo = @ \ {c}] \in Held
    BY <1>2 DEF Held
  <2>2. mem' \in [Worker -> Held]
    BY <1>2, <1>5, <2>1
  <2> QED
    BY <1>5, <2>2 DEF EvidenceInv, EvidenceTypeOK, Held, delivery, rows, files
<1>7. WorkerInv(w)'
  <2>1. /\ pc'[w] = pc[w] /\ mem'[w].items = mem[w].items
        /\ mem'[w].todo = mem[w].todo \ {c}
        /\ mem'[w].stage = mem[w].stage /\ mem'[w].exit = mem[w].exit
    BY <1>2, <1>5 DEF Held
  <2> QED
    BY <1>4, <1>5, <2>1 DEF EvidenceInv, WorkerInv, Collecting, delivery, rows, files
<1>8. \A v \in Worker \ {w} : pc'[v] = pc[v] /\ mem'[v] = mem[v]
  BY <1>2, <1>5
<1>9. UNCHANGED <<run, rows, store>> /\ errors' \in errors .. MaxErrors
  BY <1>5, EvidenceAssumption DEF delivery, files, EvidenceInv, EvidenceTypeOK
<1> QED
  BY <1>6, <1>7, <1>8, <1>9, StepInMemory

LEMMA WriteTemporaryStep ==
  ASSUME EvidenceInv, NEW w \in Worker, WriteTemporary(w)
  PROVE  EvidenceInv'
<1>1. PICK c \in mem[w].todo : mem' = [mem EXCEPT ![w].temporary = {c}]
  BY DEF WriteTemporary
<1>2. mem \in [Worker -> Held]
  BY DEF EvidenceInv, EvidenceTypeOK, Held
<1>3. c \in Content
  BY <1>2 DEF Held
<1>4. /\ pc[w] = "put" /\ GoTo(w, "written") /\ UNCHANGED <<delivery, rows, files, errors>>
  BY DEF WriteTemporary, OnlyWorker
<1>5. EvidenceTypeOK'
  <2>1. mem' \in [Worker -> Held]
    BY <1>1, <1>2, <1>3 DEF Held
  <2>2. pc' \in [Worker -> Phases]
    BY <1>4 DEF EvidenceInv, EvidenceTypeOK, GoTo, Phases, Collecting
  <2> QED
    BY <1>4, <2>1, <2>2 DEF EvidenceInv, EvidenceTypeOK, Held, delivery, rows, files
<1>6. WorkerInv(w)'
  <2>1. /\ pc'[w] = "written" /\ mem'[w].items = mem[w].items
        /\ mem'[w].todo = mem[w].todo
        /\ mem'[w].stage = mem[w].stage /\ mem'[w].exit = mem[w].exit
    BY <1>1, <1>2, <1>4 DEF GoTo, EvidenceInv, EvidenceTypeOK, Held
  <2> QED
    BY <1>4, <2>1 DEF EvidenceInv, WorkerInv, Collecting, delivery, rows, files
<1>7. \A v \in Worker \ {w} : pc'[v] = pc[v] /\ mem'[v] = mem[v]
  BY <1>1, <1>2, <1>4 DEF GoTo, EvidenceInv, EvidenceTypeOK
<1>8. UNCHANGED <<run, rows, store>> /\ errors' \in errors .. MaxErrors
  BY <1>4, EvidenceAssumption DEF delivery, files, EvidenceInv, EvidenceTypeOK
<1> QED
  BY <1>5, <1>6, <1>7, <1>8, StepInMemory

LEMMA ReplaceStep ==
  ASSUME EvidenceInv, NEW w \in Worker, Replace(w)
  PROVE  EvidenceInv'
<1> DEFINE put == mem[w].temporary
<1>1. mem \in [Worker -> Held]
  BY DEF EvidenceInv, EvidenceTypeOK, Held
<1>2. store' = [c \in Content |-> IF c \in put THEN "WHOLE" ELSE store[c]]
  BY DEF Replace
<1>3. mem' = [mem EXCEPT ![w].todo = @ \ put, ![w].temporary = {}]
  BY DEF Replace, Nothing
<1>4. /\ pc[w] = "written" /\ GoTo(w, "put")
      /\ UNCHANGED <<delivery, rows, leftovers, errors>>
  BY DEF Replace
<1>5. Grows
  BY <1>2, <1>4 DEF Grows, delivery, rows
<1>6. RecordInv'
  BY <1>2, <1>4, ItemType
     DEF EvidenceInv, RecordInv, ItemsHaveArtifacts, CompletedHasEvidence,
         CollectionConverges, Executed, delivery, rows
<1>7. EvidenceTypeOK'
  <2> DEFINE held == [mem[w] EXCEPT !.todo = @ \ put, !.temporary = {}]
  <2>1. mem' \in [Worker -> Held]
    <3>1. held \in Held
      BY <1>1 DEF Held
    <3>2. mem' = [mem EXCEPT ![w] = held]
      BY <1>1, <1>3 DEF Held
    <3> HIDE DEF held
    <3> QED
      BY <1>1, <3>1, <3>2
  <2>2. pc' \in [Worker -> Phases]
    BY <1>4 DEF EvidenceInv, EvidenceTypeOK, GoTo, Phases, Collecting
  <2>3. store' \in [Content -> {"ABSENT", "PARTIAL", "WHOLE"}]
    BY <1>2 DEF EvidenceInv, EvidenceTypeOK
  <2> QED
    BY <1>4, <2>1, <2>2, <2>3 DEF EvidenceInv, EvidenceTypeOK, Held, delivery, rows
<1>8. WorkerInv(w)'
  <2>1. /\ pc'[w] = "put" /\ mem'[w].items = mem[w].items
        /\ mem'[w].todo = mem[w].todo \ put
        /\ mem'[w].stage = mem[w].stage /\ mem'[w].exit = mem[w].exit
    BY <1>1, <1>3, <1>4 DEF GoTo, EvidenceInv, EvidenceTypeOK, Held
  <2>2. \A i \in mem[w].items : i.content \in Content
    BY <1>1, ItemType DEF Held
  <2> QED
    BY <1>2, <1>4, <2>1, <2>2 DEF EvidenceInv, WorkerInv, Collecting, delivery, rows
<1>9. \A v \in Worker \ {w} : pc'[v] = pc[v] /\ mem'[v] = mem[v]
  BY <1>1, <1>3, <1>4 DEF GoTo, EvidenceInv, EvidenceTypeOK
<1> QED
  BY <1>5, <1>6, <1>7, <1>8, <1>9, StepOfOne

LEMMA AllPutStep ==
  ASSUME EvidenceInv, NEW w \in Worker, AllPut(w)
  PROVE  EvidenceInv'
<1>1. GoTo(w, "save") /\ UNCHANGED <<mem, errors>> /\ OnlyWorker /\ pc[w] = "put"
      /\ mem[w].todo = {}
  BY DEF AllPut, Nothing
<1>2. pc'[w] = "save"
  BY <1>1 DEF GoTo, EvidenceInv, EvidenceTypeOK
<1>3. WorkerInv(w)'
  BY <1>1, <1>2 DEF EvidenceInv, WorkerInv, Collecting, OnlyWorker, delivery, rows, files
<1> QED
  BY <1>1, <1>3, GoOnStep DEF Phases, Collecting

LEMMA SaveStep ==
  ASSUME EvidenceInv, NEW w \in Worker, Save(w)
  PROVE  EvidenceInv'
<1>1. /\ pc[w] = "save" /\ CollectionEnds(w, TRUE)
      /\ UNCHANGED <<delivery, executions, files, errors>>
      /\ items' = [i \in Item |-> IF i \in mem[w].items /\ items[i] = 0 THEN 1 ELSE items[i]]
  BY DEF Save, CreateOrGet
<1>2. WorkerInv(w) /\ pc[w] \in Collecting
  BY <1>1 DEF EvidenceInv, Collecting
<1>3. \A i \in mem[w].items : store[i.content] = "WHOLE"
  BY <1>1, <1>2 DEF WorkerInv
<1>4. mem[w].exit = "report" => mem[w].items = Item
  BY <1>1, <1>2 DEF WorkerInv
<1>5. \A i \in Item : items[i] \in {0, 1}
  BY DEF EvidenceInv, RecordInv
<1>6. items' \in [Item -> Nat] /\ \A i \in Item : items'[i] \in {0, 1}
  BY <1>1, <1>5 DEF EvidenceInv, EvidenceTypeOK
<1>7. Grows
  BY <1>1, <1>5 DEF Grows, delivery, files
<1>8. mem[w].exit = "report" => \A i \in Item : items'[i] = 1
  BY <1>1, <1>4, <1>5
<1>9. RecordInv'
  BY <1>1, <1>3, <1>5, <1>6
     DEF EvidenceInv, RecordInv, ItemsHaveArtifacts, CompletedHasEvidence,
         CollectionConverges, Executed, delivery, files
<1>10. errors' \in 0 .. MaxErrors
  BY <1>1 DEF EvidenceInv, EvidenceTypeOK
<1>11. /\ EvidenceTypeOK' /\ WorkerInv(w)'
       /\ \A v \in Worker \ {w} : pc'[v] = pc[v] /\ mem'[v] = mem[v]
  BY <1>1, <1>2, <1>6, <1>7, <1>8, <1>10, EndOfCollection
<1> QED
  BY <1>7, <1>9, <1>11, StepOfOne

-----------------------------------------------------------------------------
(* Delivery.                                                               *)

LEMMA ReturnedStep ==
  ASSUME EvidenceInv, NEW w \in Worker, Returned(w)
  PROVE  EvidenceInv'
<1>1. /\ pc[w] = "returned" /\ Done(w) /\ UNCHANGED errors /\ OnlyWorker
      /\ errors' \in errors .. MaxErrors
  BY EvidenceAssumption DEF Returned, EvidenceInv, EvidenceTypeOK, WorkerInv
<1>2. CASE ~Holds(w)
  BY <1>1, <1>2, DropStep
     DEF Returned, OnlyWorker, delivery, rows, files, EvidenceInv, EvidenceTypeOK
<1>3. CASE Holds(w) /\ run.cancel
  BY <1>1, <1>3, RaiseStep DEF Returned
<1>4. CASE Holds(w) /\ ~run.cancel
  BY <1>1, <1>4, ReadStep DEF Returned
<1> QED
  BY <1>2, <1>3, <1>4

(* A run that moves on or ends.                                            *)
LEMMA MoveStep ==
  ASSUME EvidenceInv, NEW w \in Worker, NEW moved,
         MoveRun(w, moved), Holds(w) => moved \in
           [stage : 1 .. Reporting, cancel : BOOLEAN,
            outcome : {"RUNNING", "COMPLETED", "CANCELLED", "FAILED"},
            cause : {"none", "runner", "evidence", "exhausted"}],
         Holds(w) => /\ \/ run.stage < moved.stage
                        \/ run.stage = moved.stage /\ moved.outcome # "RUNNING"
                     /\ \A a \in Action : a < moved.stage => executions[a] = "SUCCEEDED"
                     /\ moved.outcome = "COMPLETED" =>
                          /\ Executed = Action
                          /\ \A i \in Item : items[i] = 1
                     /\ moved.cause = "evidence" => errors > 0
  PROVE  EvidenceInv'
<1>1. CASE ~Holds(w)
  BY <1>1, DropStep
     DEF MoveRun, delivery, files, EvidenceInv, EvidenceTypeOK
<1>2. CASE Holds(w)
  <2>1. run' = moved /\ owner' = NotClaimed /\ Drop(w) /\ UNCHANGED <<rows, files, errors>>
    BY <1>2 DEF MoveRun
  <2>2. Grows
    <3>1. run.stage \in Nat /\ run'.stage \in Nat /\ run.outcome = "RUNNING"
      BY <1>2, <2>1 DEF Holds, EvidenceInv, EvidenceTypeOK
    <3>2. RunGrows
      BY <1>2, <2>1, <3>1 DEF RunGrows
    <3> QED
      BY <2>1, <3>2 DEF Grows, rows, files
  <2>3. RecordInv'
    BY <1>2, <2>1 DEF EvidenceInv, RecordInv, ItemsHaveArtifacts, CompletedHasEvidence,
                      CollectionConverges, Executed, rows, files
  <2>4. EvidenceTypeOK'
    BY <1>2, <2>1, EvidenceAssumption
       DEF EvidenceInv, EvidenceTypeOK, Drop, GoTo, NoMem, Nothing, Phases, Exits, rows,
           files, Reporting, Keys, NotClaimed
  <2>5. WorkerInv(w)'
    BY <2>1, Dropped DEF EvidenceInv
  <2>6. \A v \in Worker \ {w} : pc'[v] = pc[v] /\ mem'[v] = mem[v]
    BY <2>1 DEF Drop, GoTo, EvidenceInv, EvidenceTypeOK
  <2> QED
    BY <2>2, <2>3, <2>4, <2>5, <2>6, StepOfOne
<1> QED
  BY <1>1, <1>2

LEMMA FinalizeStep ==
  ASSUME EvidenceInv, NEW w \in Worker, Finalize(w)
  PROVE  EvidenceInv'
<1> DEFINE completed == [run EXCEPT !.outcome = "COMPLETED", !.cancel = FALSE]
           onwards == [run EXCEPT !.stage = @ + 1, !.cancel = FALSE]
           moved == IF mem[w].cancel THEN [run EXCEPT !.outcome = "CANCELLED"]
                    ELSE IF run.stage = Reporting THEN completed ELSE onwards
<1>1. MoveRun(w, moved) /\ pc[w] = "finalizing"
  BY DEF Finalize
<1>2. run \in [stage : 1 .. Reporting, cancel : BOOLEAN,
              outcome : {"RUNNING", "COMPLETED", "CANCELLED", "FAILED"},
              cause : {"none", "runner", "evidence", "exhausted"}]
  BY DEF EvidenceInv, EvidenceTypeOK
<1>3. /\ \A a \in Action : a < run.stage => executions[a] = "SUCCEEDED"
      /\ run.cause = "evidence" => errors > 0
      /\ run.outcome = "COMPLETED" => Executed = Action /\ \A i \in Item : items[i] = 1
  BY DEF EvidenceInv, RecordInv, CollectionConverges, CompletedHasEvidence
<1>4. WorkerInv(w)
  BY DEF EvidenceInv
<1>5. SUFFICES ASSUME Holds(w)
      PROVE /\ moved \in [stage : 1 .. Reporting, cancel : BOOLEAN,
                          outcome : {"RUNNING", "COMPLETED", "CANCELLED", "FAILED"},
                          cause : {"none", "runner", "evidence", "exhausted"}]
            /\ \/ run.stage < moved.stage
               \/ run.stage = moved.stage /\ moved.outcome # "RUNNING"
            /\ \A a \in Action : a < moved.stage => executions[a] = "SUCCEEDED"
            /\ moved.outcome = "COMPLETED" =>
                  Executed = Action /\ \A i \in Item : items[i] = 1
            /\ moved.cause = "evidence" => errors > 0
  <2> HIDE DEF moved
  <2> QED
    BY <1>1, MoveStep
<1>6. mem[w].stage = run.stage /\ run.outcome = "RUNNING"
  BY <1>5 DEF Holds
<1>7. CASE mem[w].cancel
  BY <1>2, <1>3, <1>7
<1>8. CASE ~mem[w].cancel /\ run.stage = Reporting
  <2>1. \A i \in Item : items[i] = 1
    BY <1>1, <1>4, <1>6, <1>8 DEF WorkerInv, Done
  <2>2. Executed = Action
    BY <1>3, <1>8, EvidenceAssumption DEF Executed, Action, Reporting
  <2> QED
    BY <1>2, <1>3, <1>8, <2>1, <2>2
<1>9. CASE ~mem[w].cancel /\ run.stage # Reporting
  <2>1. executions[run.stage] = "SUCCEEDED"
    BY <1>1, <1>4, <1>6, <1>9 DEF WorkerInv, Done
  <2>2. run.stage \in Nat /\ run.stage + 1 \in 1 .. Reporting
    BY <1>2, <1>9, EvidenceAssumption DEF Reporting
  <2>3. \A a \in Action : a < run.stage + 1 => executions[a] = "SUCCEEDED"
    BY <1>3, <2>1, <2>2, EvidenceAssumption DEF Action
  <2>4. moved = onwards
    BY <1>9
  <2>5. /\ onwards \in [stage : 1 .. Reporting, cancel : BOOLEAN,
                        outcome : {"RUNNING", "COMPLETED", "CANCELLED", "FAILED"},
                        cause : {"none", "runner", "evidence", "exhausted"}]
        /\ onwards.stage = run.stage + 1 /\ onwards.outcome = run.outcome
        /\ onwards.cause = run.cause
    BY <1>2, <2>2
  <2> HIDE DEF moved, onwards
  <2>6. run.stage < onwards.stage /\ onwards.outcome # "COMPLETED"
    BY <1>6, <2>2, <2>5
  <2> QED
    BY <1>3, <2>3, <2>4, <2>5, <2>6
<1> QED
  BY <1>7, <1>8, <1>9

LEMMA FailStep ==
  ASSUME EvidenceInv, NEW w \in Worker, Fail(w)
  PROVE  EvidenceInv'
<1> DEFINE moved == [run EXCEPT !.outcome = "FAILED", !.cause = mem[w].exit]
<1>1. MoveRun(w, moved)
  BY DEF Fail
<1>2. mem[w].exit \in {"runner", "evidence"} /\ (mem[w].exit = "evidence" => errors > 0)
  BY DEF Fail, EvidenceInv, WorkerInv
<1>3. run \in [stage : 1 .. Reporting, cancel : BOOLEAN,
              outcome : {"RUNNING", "COMPLETED", "CANCELLED", "FAILED"},
              cause : {"none", "runner", "evidence", "exhausted"}]
  BY DEF EvidenceInv, EvidenceTypeOK
<1>4. \A a \in Action : a < run.stage => executions[a] = "SUCCEEDED"
  BY DEF EvidenceInv, RecordInv
<1>5. /\ moved \in [stage : 1 .. Reporting, cancel : BOOLEAN,
                    outcome : {"RUNNING", "COMPLETED", "CANCELLED", "FAILED"},
                    cause : {"none", "runner", "evidence", "exhausted"}]
      /\ moved.stage = run.stage
      /\ moved.outcome = "FAILED" /\ moved.cause = mem[w].exit
  BY <1>2, <1>3
<1> HIDE DEF moved
<1> QED
  BY <1>1, <1>2, <1>4, <1>5, MoveStep

LEMMA CrashStep ==
  ASSUME EvidenceInv, NEW w \in Worker, Crash(w)
  PROVE  EvidenceInv'
<1>1. /\ Drop(w) /\ UNCHANGED <<run, rows, store, errors>>
      /\ owner' = [k \in Keys |-> owner[k] \ {w}]
      /\ leftovers' = leftovers \union mem[w].temporary
  BY DEF Crash
<1>2. EvidenceTypeOK'
  <2>1. owner' \in [Keys -> {Nothing} \union {{v} : v \in Worker}]
    BY <1>1 DEF EvidenceInv, EvidenceTypeOK, Nothing
  <2>2. leftovers' \subseteq Content
    BY <1>1 DEF EvidenceInv, EvidenceTypeOK
  <2> QED
    BY <1>1, <2>1, <2>2, EvidenceAssumption
       DEF EvidenceInv, EvidenceTypeOK, Drop, GoTo, NoMem, Nothing, Phases, Exits, rows,
           Reporting, Keys
<1>3. WorkerInv(w)'
  BY <1>1, Dropped DEF EvidenceInv
<1>4. \A v \in Worker \ {w} : pc'[v] = pc[v] /\ mem'[v] = mem[v]
  BY <1>1 DEF Drop, GoTo, EvidenceInv, EvidenceTypeOK
<1>5. errors' \in errors .. MaxErrors
  BY <1>1, EvidenceAssumption DEF EvidenceInv, EvidenceTypeOK
<1> QED
  BY <1>1, <1>2, <1>3, <1>4, <1>5, StepInMemory

LEMMA CollectStep ==
  ASSUME EvidenceInv, NEW w \in Worker, Collect(w)
  PROVE  EvidenceInv'
BY ReportStep, GatherStep, FindArtifactStep, WriteTemporaryStep, ReplaceStep, AllPutStep,
   SaveStep, CollectionFailsStep DEF Collect

LEMMA WorkStep ==
  ASSUME EvidenceInv, NEW w \in Worker, Work(w)
  PROVE  EvidenceInv'
BY ClaimStep, BeginStep, AuditStep, CollectStep, ReturnedStep, FinalizeStep, FailStep,
   CrashStep DEF Work

(* The steps of the API and the reconciler.                                *)
LEMMA OutsideStep ==
  ASSUME EvidenceInv, RequestCancel \/ GiveUp
  PROVE  EvidenceInv'
<1>1. /\ UNCHANGED <<owner, rows, files, errors, pc, mem>> /\ run.outcome = "RUNNING"
      /\ \/ run' = [run EXCEPT !.cancel = TRUE]
         \/ run' = [run EXCEPT !.outcome = "FAILED", !.cause = "exhausted"]
  BY DEF RequestCancel, GiveUp
<1>2. run \in [stage : 1 .. Reporting, cancel : BOOLEAN,
              outcome : {"RUNNING", "COMPLETED", "CANCELLED", "FAILED"},
              cause : {"none", "runner", "evidence", "exhausted"}]
  BY DEF EvidenceInv, EvidenceTypeOK
<1>3. /\ run'.stage = run.stage /\ run'.outcome # "COMPLETED"
      /\ run.cancel => run'.cancel
      /\ run'.cause = "evidence" => run.cause = "evidence"
  BY <1>1, <1>2
<1>4. EvidenceTypeOK'
  BY <1>1, <1>2 DEF EvidenceInv, EvidenceTypeOK, rows, files
<1>5. Grows
  <2>1. RunGrows
    BY <1>1, <1>2, <1>3 DEF RunGrows
  <2> QED
    BY <1>1, <2>1 DEF Grows, rows, files
<1>6. RecordInv'
  <2>1. UNCHANGED <<executions, items, store, errors>>
    BY <1>1 DEF rows, files
  <2>2. RecordInv
    BY DEF EvidenceInv
  <2> QED
    BY <1>3, <2>1, <2>2 DEF RecordInv, ItemsHaveArtifacts, CompletedHasEvidence,
                            CollectionConverges
<1>7. \A v \in Worker : WorkerInv(v)'
  BY <1>1, <1>4, <1>5, Others
<1> QED
  BY <1>4, <1>6, <1>7 DEF EvidenceInv

LEMMA EvidenceStep ==
  ASSUME EvidenceInv, [EvidenceNext]_evidenceVars
  PROVE  EvidenceInv'
<1>1. CASE EvidenceNext
  BY <1>1, WorkStep, OutsideStep DEF EvidenceNext
<1>2. CASE UNCHANGED evidenceVars
  <2>1. UNCHANGED <<run, owner, executions, items, store, leftovers, errors, pc, mem>>
    BY <1>2 DEF evidenceVars, delivery, rows, files
  <2>2. EvidenceTypeOK' /\ RecordInv'
    BY <2>1 DEF EvidenceInv, EvidenceTypeOK, RecordInv, ItemsHaveArtifacts,
                CompletedHasEvidence, CollectionConverges, Executed
  <2>3. \A v \in Worker : WorkerInv(v)'
    BY <2>1 DEF EvidenceInv, WorkerInv, Done
  <2> QED
    BY <2>2, <2>3 DEF EvidenceInv
<1> QED
  BY <1>1, <1>2

-----------------------------------------------------------------------------

(* The inductive invariant: it holds in every state of every behaviour.    *)
THEOREM EvidenceInvariant ==
  EvidenceSpec => []EvidenceInv
<1>1. EvidenceInit => EvidenceInv
  BY InitEvidenceInv
<1>2. EvidenceInv /\ [EvidenceNext]_evidenceVars => EvidenceInv'
  BY EvidenceStep
<1> QED
  BY <1>1, <1>2, PTL DEF EvidenceSpec

(* No evidence row refers to an artifact that is not there as a whole.     *)
THEOREM ItemsAlwaysHaveArtifacts ==
  EvidenceSpec => []ItemsHaveArtifacts
<1>1. EvidenceInv => ItemsHaveArtifacts
  BY DEF EvidenceInv, RecordInv
<1> QED
  BY <1>1, EvidenceInvariant, PTL

(* A completed run has executed every action and has exactly one row for   *)
(* each thing its runners said.                                            *)
THEOREM CompletedAlwaysHasEvidence ==
  EvidenceSpec => []CompletedHasEvidence
<1>1. EvidenceInv => CompletedHasEvidence
  BY DEF EvidenceInv, RecordInv
<1> QED
  BY <1>1, EvidenceInvariant, PTL

(* Without an error of the file system or the database no run fails with   *)
(* EVIDENCE_COLLECTION_FAILED.                                             *)
THEOREM CollectionAlwaysConverges ==
  EvidenceSpec => []CollectionConverges
<1>1. EvidenceInv => CollectionConverges
  BY DEF EvidenceInv, RecordInv
<1> QED
  BY <1>1, EvidenceInvariant, PTL

-----------------------------------------------------------------------------
(* Refinement: a worker claims, works, decides, and moves the run or       *)
(* leaves; all that a collector does in between is work.                   *)

At == [w \in Worker |-> WorkOf(w)]
Moves(w) == pc[w] # "idle" /\ Holds(w)
Movers == {w \in Worker : Moves(w)}

DeliveryStep == [Delivery!DeliveryNext]_(Delivery!deliveryVars)

LEMMA IdleView ==
  ASSUME NEW w \in Worker, pc[w] = "idle"
  PROVE  WorkOf(w) = Delivery!NoWork /\ ~Moves(w)
BY DEF WorkOf, Moves, Delivery!NoWork

LEMMA BusyView ==
  ASSUME EvidenceInv, NEW w \in Worker, pc[w] # "idle"
  PROVE  /\ WorkOf(w) = [stage |-> mem[w].stage, key |-> mem[w].key, exit |-> Decision(w)]
         /\ WorkOf(w) # Delivery!NoWork
         /\ WorkOf(w).exit = Decision(w) /\ WorkOf(w).key = mem[w].key
<1>1. WorkOf(w) = [stage |-> mem[w].stage, key |-> mem[w].key, exit |-> Decision(w)]
  BY DEF WorkOf
<1>2. mem[w].stage \in 1 .. Reporting /\ 0 \notin 1 .. Reporting
  BY DEF EvidenceInv, WorkerInv
<1>3. WorkOf(w).stage = mem[w].stage /\ Delivery!NoWork.stage = 0
  BY <1>1 DEF Delivery!NoWork
<1> QED
  BY <1>1, <1>2, <1>3

LEMMA WorkerDelivers ==
  ASSUME NEW w \in Worker,
         \/ Delivery!Start(w, "STAGE") \/ Delivery!Start(w, "CANCELLED")
         \/ Delivery!Move(w) \/ Delivery!Leave(w)
         \/ Delivery!Decide(w, "ONWARDS") \/ Delivery!Decide(w, "CANCELLED")
         \/ Delivery!Decide(w, "FAILED")
  PROVE  DeliveryStep
<1>1. /\ "STAGE" \in Delivery!Keys /\ "CANCELLED" \in Delivery!Keys
      /\ "ONWARDS" \in Delivery!Exits /\ "CANCELLED" \in Delivery!Exits
      /\ "FAILED" \in Delivery!Exits
  BY DEF Delivery!Keys, Delivery!Exits
<1> QED
  BY <1>1 DEF DeliveryStep, Delivery!DeliveryNext

(* What is seen of the workers that a step of one leaves as they are.      *)
SeesNoChange(u) == WorkOf(u)' = WorkOf(u) /\ (Moves(u)' <=> Moves(u))

OthersSeeNoChange(w) ==
  \A u \in Worker \ {w} : pc'[u] = pc[u] /\ mem'[u] = mem[u] /\ SeesNoChange(u)

LEMMA Undisturbed ==
  ASSUME NEW u \in Worker, pc'[u] = pc[u], mem'[u] = mem[u], UNCHANGED <<run, owner>>
  PROVE  SeesNoChange(u)
BY DEF SeesNoChange, WorkOf, Decision, Moves, Holds

LEMMA UnseenStep ==
  ASSUME run' = run, \A u \in Worker : SeesNoChange(u)
  PROVE  DeliveryStep
<1>1. At' = At /\ Movers' = Movers
  BY DEF SeesNoChange, At, Movers
<1> QED
  BY <1>1 DEF At, Movers, Moves, DeliveryStep, Delivery!deliveryVars

LEMMA AtChanges ==
  ASSUME NEW w \in Worker, \A u \in Worker \ {w} : WorkOf(u)' = WorkOf(u)
  PROVE  At' = [At EXCEPT ![w] = WorkOf(w)']
BY DEF At

(* What a worker does between its claim and its end.                       *)
Works(w) ==
  /\ pc[w] \notin {"idle", "finalizing", "failing"}
  /\ UNCHANGED delivery
  /\ \/ Drop(w)
     \/ /\ pc'[w] # "idle"
        /\ mem'[w].stage = mem[w].stage /\ mem'[w].key = mem[w].key
        /\ pc'[w] = "finalizing" => mem'[w].cancel = run.cancel
        /\ \A u \in Worker \ {w} : pc'[u] = pc[u] /\ mem'[u] = mem[u]

LEMMA LeavesView ==
  ASSUME EvidenceInv, NEW w \in Worker, pc[w] # "idle", Drop(w), run' = run,
         OthersSeeNoChange(w)
  PROVE  DeliveryStep
<1>1. pc'[w] = "idle"
  BY Dropped DEF EvidenceInv
<1>2. WorkOf(w)' = Delivery!NoWork /\ ~Moves(w)'
  BY <1>1 DEF WorkOf, Moves, Delivery!NoWork
<1>3. At' = [At EXCEPT ![w] = Delivery!NoWork]
  BY <1>2, AtChanges DEF SeesNoChange, OthersSeeNoChange
<1>4. Movers' = Movers \ {w}
  BY <1>2 DEF Movers, SeesNoChange, OthersSeeNoChange
<1>5. At[w] # Delivery!NoWork
  BY BusyView DEF At
<1>6. Delivery!Leave(w)
  BY <1>3, <1>4, <1>5 DEF At, Movers, Moves, Delivery!Leave
<1> QED
  BY <1>6, WorkerDelivers

LEMMA WorksView ==
  ASSUME EvidenceInv, NEW w \in Worker, Works(w)
  PROVE  DeliveryStep
<1>1. pc[w] # "idle" /\ Decision(w) = "NONE" /\ run' = run /\ owner' = owner
  BY DEF Works, Decision, delivery
<1>2. OthersSeeNoChange(w)
  BY <1>1, Dropped, Undisturbed DEF Works, OthersSeeNoChange, EvidenceInv
<1>3. CASE Drop(w)
  BY <1>1, <1>2, <1>3, LeavesView
<1>4. CASE ~Drop(w)
  <2>1. /\ pc'[w] # "idle"
        /\ mem'[w].stage = mem[w].stage /\ mem'[w].key = mem[w].key
        /\ pc'[w] = "finalizing" => mem'[w].cancel = run.cancel
    BY <1>4 DEF Works
  <2>2. Moves(w)' <=> Moves(w)
    BY <1>1, <2>1 DEF Moves, Holds
  <2>3. WorkOf(w) = [stage |-> mem[w].stage, key |-> mem[w].key, exit |-> "NONE"]
    BY <1>1, BusyView
  <2>4. WorkOf(w)' = [stage |-> mem[w].stage, key |-> mem[w].key, exit |-> Decision(w)']
    BY <2>1 DEF WorkOf
  <2>5. CASE pc'[w] \notin {"finalizing", "failing"}
    <3>1. Decision(w)' = "NONE"
      BY <2>5 DEF Decision
    <3>2. SeesNoChange(w)
      BY <2>2, <2>3, <2>4, <3>1 DEF SeesNoChange
    <3> QED
      BY <1>1, <1>2, <3>2, UnseenStep DEF OthersSeeNoChange
  <2>6. CASE pc'[w] \in {"finalizing", "failing"}
    <3> DEFINE exit == IF pc'[w] = "failing" THEN "FAILED"
                       ELSE IF run.cancel THEN "CANCELLED" ELSE "ONWARDS"
    <3>1. exit \in {IF run.cancel THEN "CANCELLED" ELSE "ONWARDS", "FAILED"}
      OBVIOUS
    <3>2. Decision(w)' = exit
      BY <2>1, <2>6 DEF Decision
    <3>3. exit \in {"ONWARDS", "CANCELLED", "FAILED"}
      OBVIOUS
    <3> HIDE DEF exit
    <3>4. WorkOf(w)' = [WorkOf(w) EXCEPT !.exit = exit]
      BY <2>3, <2>4, <3>2
    <3>5. At[w] = WorkOf(w) /\ At' = [At EXCEPT ![w] = WorkOf(w)']
      BY <1>2, AtChanges DEF At, SeesNoChange, OthersSeeNoChange
    <3>6. At' = [At EXCEPT ![w].exit = exit]
      BY <3>4, <3>5
    <3>7. Movers' = Movers
      BY <1>2, <2>2 DEF Movers, SeesNoChange, OthersSeeNoChange
    <3>8. At[w] # Delivery!NoWork /\ At[w].exit = "NONE"
      BY <1>1, <3>5, BusyView
    <3>9. Delivery!Decide(w, exit)
      BY <1>1, <3>1, <3>6, <3>7, <3>8 DEF At, Movers, Moves, Delivery!Decide
    <3> QED
      BY <3>3, <3>9, WorkerDelivers
  <2> QED
    BY <2>5, <2>6
<1> QED
  BY <1>3, <1>4

LEMMA ClaimView ==
  ASSUME EvidenceInv, NEW w \in Worker, Claim(w)
  PROVE  DeliveryStep
<1>0. EvidenceTypeOK /\ mem \in [Worker -> Held]
  BY DEF EvidenceInv, EvidenceTypeOK, Held
<1>1. PICK key \in Keys :
        /\ key = "CANCELLED" => run.cancel
        /\ owner' = [owner EXCEPT ![key] = {w}]
        /\ mem' = [mem EXCEPT ![w] = [NoMem EXCEPT !.stage = run.stage, !.key = key]]
  BY DEF Claim, Keys
<1> DEFINE held == [NoMem EXCEPT !.stage = run.stage, !.key = key]
<1>2. held.stage = run.stage /\ held.key = key
  BY DEF NoMem
<1> HIDE DEF held
<1>3. /\ pc[w] = "idle" /\ pc'[w] = "claimed" /\ mem'[w] = held
      /\ run.outcome = "RUNNING" /\ run' = run
      /\ \A u \in Worker \ {w} : pc'[u] = pc[u] /\ mem'[u] = mem[u]
  BY <1>0, <1>1 DEF Claim, GoTo, held, EvidenceTypeOK
<1>4. \A k \in Keys : owner'[k] = IF k = key THEN {w} ELSE owner[k]
  BY <1>0, <1>1 DEF EvidenceTypeOK
<1>5. ASSUME NEW u \in Worker \ {w}
      PROVE  /\ WorkOf(u)' = WorkOf(u)
             /\ Moves(u)' <=> Moves(u) /\ WorkOf(u).key # key
  <2>1. WorkOf(u)' = WorkOf(u)
    BY <1>3 DEF WorkOf, Decision
  <2>2. CASE pc[u] = "idle"
    BY <1>3, <2>1, <2>2 DEF Moves
  <2>3. CASE pc[u] # "idle"
    <3>1. WorkOf(u).key = mem[u].key /\ mem[u].key \in Keys
      BY <1>0, <2>3, BusyView DEF Held
    <3>2. {w} # {u}
      OBVIOUS
    <3> QED
      BY <1>3, <1>4, <2>1, <2>3, <3>1, <3>2 DEF Moves, Holds
  <2> QED
    BY <2>2, <2>3
<1>6. At' = [At EXCEPT ![w] = [stage |-> run.stage, key |-> key, exit |-> "NONE"]]
  <2>1. WorkOf(w)' = [stage |-> run.stage, key |-> key, exit |-> "NONE"]
    BY <1>2, <1>3 DEF WorkOf, Decision
  <2> QED
    BY <1>5, <2>1, AtChanges
<1>7. Moves(w)' /\ ~Moves(w) /\ At[w] = Delivery!NoWork
  BY <1>2, <1>3, <1>4, IdleView DEF Moves, Holds, At
<1>8. Movers' = {x \in Movers : At[x].key # key} \union {w}
  BY <1>5, <1>7 DEF Movers, At
<1>9. Delivery!Start(w, key)
  BY <1>1, <1>3, <1>6, <1>7, <1>8 DEF At, Movers, Moves, Delivery!Start
<1> QED
  BY <1>9, WorkerDelivers DEF Keys

(* Only who holds the claim moves the run; then nobody does.               *)
LEMMA MoveView ==
  ASSUME EvidenceInv, NEW w \in Worker, Finalize(w) \/ Fail(w)
  PROVE  DeliveryStep
<1>0. EvidenceTypeOK /\ mem \in [Worker -> Held]
  BY DEF EvidenceInv, EvidenceTypeOK, Held
<1>1. /\ pc[w] # "idle" /\ Drop(w)
      /\ pc'[w] = "idle" /\ \A u \in Worker \ {w} : pc'[u] = pc[u] /\ mem'[u] = mem[u]
      /\ Holds(w) \/ UNCHANGED <<run, owner>>
  BY <1>0, Dropped DEF Finalize, Fail, MoveRun, delivery
<1>2. CASE ~Holds(w)
  <2>1. UNCHANGED <<run, owner>>
    BY <1>1, <1>2
  <2>2. OthersSeeNoChange(w)
    BY <1>1, <2>1, Undisturbed DEF OthersSeeNoChange
  <2> QED
    BY <1>1, <2>1, <2>2, LeavesView
<1>3. CASE Holds(w)
  <2>1. owner' = NotClaimed /\ run.outcome = "RUNNING" /\ run.stage \in 1 .. Reporting
        /\ run \in [stage : 1 .. Reporting, cancel : BOOLEAN,
                    outcome : {"RUNNING", "COMPLETED", "CANCELLED", "FAILED"},
                    cause : {"none", "runner", "evidence", "exhausted"}]
    BY <1>0, <1>3 DEF Finalize, Fail, MoveRun, Holds, EvidenceTypeOK
  <2>2. ASSUME NEW u \in Worker PROVE ~Moves(u)'
    <3>1. CASE u = w
      BY <1>1, <3>1 DEF Moves
    <3>2. CASE u # w
      <4>1. mem'[u].key \in Keys
        BY <1>0, <1>1, <3>2 DEF Held
      <4>2. owner'[mem'[u].key] = {}
        BY <2>1, <4>1 DEF NotClaimed, Nothing
      <4>3. {u} # {}
        OBVIOUS
      <4> QED
        BY <4>2, <4>3 DEF Moves, Holds
    <3> QED
      BY <3>1, <3>2
  <2>3. Movers' = {} /\ w \in Movers
    BY <1>1, <1>3, <2>2 DEF Movers, Moves
  <2>4. At' = [At EXCEPT ![w] = Delivery!NoWork] /\ At[w] = WorkOf(w)
    <3>1. \A u \in Worker \ {w} : WorkOf(u)' = WorkOf(u)
      BY <1>1 DEF WorkOf, Decision
    <3>2. WorkOf(w)' = Delivery!NoWork
      BY <1>1 DEF WorkOf, Delivery!NoWork
    <3> QED
      BY <3>1, <3>2, AtChanges DEF At
  <2>5. At[w].exit = Decision(w)
    BY <1>1, <2>4, BusyView
  <2>6. CASE Decision(w) = "ONWARDS"
    <3>1. pc[w] = "finalizing" /\ ~mem[w].cancel /\ Finalize(w)
      BY <2>6 DEF Decision, Finalize, Fail
    <3>2. run' = IF run.stage = Reporting
                 THEN [run EXCEPT !.outcome = "COMPLETED", !.cancel = FALSE]
                 ELSE [run EXCEPT !.stage = @ + 1, !.cancel = FALSE]
      BY <1>3, <3>1 DEF Finalize, MoveRun
    <3>3. Delivery!MoveOnwards
      BY <2>1, <3>2 DEF Delivery!MoveOnwards
    <3> QED
      BY <2>3, <2>4, <2>5, <2>6, <3>3, WorkerDelivers DEF At, Movers, Moves, Delivery!Move
  <2>7. CASE Decision(w) # "ONWARDS"
    <3>1. Decision(w) \in {"CANCELLED", "FAILED"}
          /\ run'.outcome = Decision(w) /\ run'.stage = run.stage
          /\ run'.cancel = run.cancel
      BY <1>3, <2>1, <2>7 DEF Decision, Finalize, Fail, MoveRun
    <3>2. Delivery!MoveToEnd(At[w].exit)
      BY <2>1, <2>5, <3>1 DEF Delivery!MoveToEnd
    <3> QED
      BY <2>3, <2>4, <2>5, <3>1, <3>2, WorkerDelivers DEF At, Movers, Moves, Delivery!Move
  <2> QED
    BY <2>6, <2>7
<1> QED
  BY <1>2, <1>3

(* The lease of a worker that dies runs out.                               *)
LEMMA CrashView ==
  ASSUME EvidenceInv, NEW w \in Worker, Crash(w)
  PROVE  DeliveryStep
<1>1. /\ EvidenceTypeOK /\ mem \in [Worker -> Held]
      /\ pc[w] # "idle" /\ Drop(w) /\ run' = run
      /\ owner' = [k \in Keys |-> owner[k] \ {w}]
  BY DEF Crash, EvidenceInv, EvidenceTypeOK, Held
<1>2. ASSUME NEW u \in Worker \ {w}
      PROVE  pc'[u] = pc[u] /\ mem'[u] = mem[u] /\ SeesNoChange(u)
  <2>1. pc'[u] = pc[u] /\ mem'[u] = mem[u] /\ mem[u].key \in Keys
    BY <1>1, Dropped DEF Held
  <2>2. owner[mem[u].key] \in {Nothing} \union {{v} : v \in Worker}
    BY <1>1, <2>1 DEF EvidenceTypeOK
  <2>3. owner'[mem[u].key] = {u} <=> owner[mem[u].key] = {u}
    BY <1>1, <2>1, <2>2 DEF Nothing
  <2>4. WorkOf(u)' = WorkOf(u)
    BY <2>1 DEF WorkOf, Decision
  <2>5. Moves(u)' <=> Moves(u)
    BY <1>1, <2>1, <2>3 DEF Moves, Holds
  <2> QED
    BY <2>1, <2>4, <2>5 DEF SeesNoChange
<1> QED
  BY <1>1, <1>2, LeavesView DEF OthersSeeNoChange

-----------------------------------------------------------------------------
(* All that a collector does is work.                                      *)

KeepsStage(w) ==
  /\ mem'[w].stage = mem[w].stage /\ mem'[w].key = mem[w].key
  /\ \A u \in Worker \ {w} : mem'[u] = mem[u]

LEMMA Writes ==
  ASSUME EvidenceTypeOK, NEW w \in Worker, NEW a, NEW b,
         \/ mem' = [mem EXCEPT ![w].exit = a]
         \/ mem' = [mem EXCEPT ![w].todo = a]
         \/ mem' = [mem EXCEPT ![w].temporary = a]
         \/ mem' = [mem EXCEPT ![w].exit = a, ![w].temporary = b]
         \/ mem' = [mem EXCEPT ![w].items = a, ![w].todo = b]
         \/ mem' = [mem EXCEPT ![w].todo = a, ![w].temporary = b]
         \/ mem' = [mem EXCEPT ![w].temporary = a, ![w].cancel = b]
  PROVE  KeepsStage(w)
<1>1. mem \in [Worker -> Held]
  BY DEF EvidenceTypeOK, Held
<1>2. CASE mem' = [mem EXCEPT ![w].exit = a]
  BY <1>1, <1>2 DEF KeepsStage, Held
<1>3. CASE mem' = [mem EXCEPT ![w].todo = a]
  BY <1>1, <1>3 DEF KeepsStage, Held
<1>4. CASE mem' = [mem EXCEPT ![w].temporary = a]
  BY <1>1, <1>4 DEF KeepsStage, Held
<1>5. CASE mem' = [mem EXCEPT ![w].exit = a, ![w].temporary = b]
  BY <1>1, <1>5 DEF KeepsStage, Held
<1>6. CASE mem' = [mem EXCEPT ![w].items = a, ![w].todo = b]
  BY <1>1, <1>6 DEF KeepsStage, Held
<1>7. CASE mem' = [mem EXCEPT ![w].todo = a, ![w].temporary = b]
  BY <1>1, <1>7 DEF KeepsStage, Held
<1>8. CASE mem' = [mem EXCEPT ![w].temporary = a, ![w].cancel = b]
  BY <1>1, <1>8 DEF KeepsStage, Held
<1> QED
  BY <1>2, <1>3, <1>4, <1>5, <1>6, <1>7, <1>8

(* A step that keeps the stage a worker holds.                             *)
LEMMA InMemory ==
  ASSUME EvidenceTypeOK, NEW w \in Worker, NEW place \in Phases \ {"idle", "finalizing"},
         pc[w] \notin {"idle", "finalizing", "failing"}, UNCHANGED delivery,
         GoTo(w, place), KeepsStage(w)
  PROVE  Works(w)
<1>1. pc'[w] = place /\ \A u \in Worker \ {w} : pc'[u] = pc[u]
  BY DEF GoTo, EvidenceTypeOK
<1> QED
  BY <1>1 DEF Works, KeepsStage

LEMMA GoesOn ==
  ASSUME EvidenceTypeOK, NEW w \in Worker, NEW place \in Phases \ {"idle", "finalizing"},
         pc[w] \notin {"idle", "finalizing", "failing"}, UNCHANGED delivery,
         GoTo(w, place), UNCHANGED mem
  PROVE  Works(w)
<1>1. KeepsStage(w)
  BY DEF KeepsStage
<1> QED
  BY <1>1, InMemory

LEMMA ReadsView ==
  ASSUME EvidenceTypeOK, NEW w \in Worker,
         pc[w] \notin {"idle", "finalizing", "failing"}, UNCHANGED delivery, FinalizeRead(w)
  PROVE  Works(w)
<1>1. KeepsStage(w)
  BY Writes DEF FinalizeRead
<1>2. mem'[w].cancel = run.cancel
  <2>1. mem \in [Worker -> Held]
    BY DEF EvidenceTypeOK, Held
  <2> QED
    BY <2>1 DEF FinalizeRead, Held
<1>3. pc'[w] = "finalizing" /\ \A u \in Worker \ {w} : pc'[u] = pc[u]
  BY DEF FinalizeRead, GoTo, EvidenceTypeOK
<1> QED
  BY <1>1, <1>2, <1>3 DEF Works, KeepsStage

LEMMA Raises ==
  ASSUME EvidenceTypeOK, NEW w \in Worker, NEW exit,
         pc[w] \notin {"idle", "finalizing", "failing"}, UNCHANGED delivery, Raise(w, exit)
  PROVE  Works(w)
<1>1. CASE FinalizeRead(w)
  BY <1>1, ReadsView
<1>2. CASE ~FinalizeRead(w)
  <2>1. PICK place \in {"gather", "failing"} :
          GoTo(w, place) /\ mem' = [mem EXCEPT ![w].exit = exit]
    BY <1>2 DEF Raise
  <2>2. place \in Phases \ {"idle", "finalizing"} /\ KeepsStage(w)
    BY <2>1, Writes DEF Phases, Collecting
  <2> QED
    BY <2>1, <2>2, InMemory
<1> QED
  BY <1>1, <1>2

LEMMA GivesUpWork ==
  ASSUME NEW w \in Worker, pc[w] \notin {"idle", "finalizing", "failing"},
         UNCHANGED delivery, Drop(w)
  PROVE  Works(w)
BY DEF Works

LEMMA EndsView ==
  ASSUME EvidenceTypeOK, NEW w \in Worker, NEW ok \in BOOLEAN, pc[w] \in Collecting,
         UNCHANGED delivery, CollectionEnds(w, ok)
  PROVE  Works(w)
<1>0. pc[w] \notin {"idle", "finalizing", "failing"}
  BY DEF Collecting
<1>1. CASE mem[w].exit = "cancel"
  BY <1>0, <1>1, ReadsView DEF CollectionEnds
<1>2. CASE mem[w].exit # "cancel"
  <2>1. KeepsStage(w)
    BY <1>2, Writes DEF CollectionEnds
  <2>2. PICK place \in {"returned", "gather", "failing"} : GoTo(w, place)
    BY <1>2 DEF CollectionEnds
  <2>3. place \in Phases \ {"idle", "finalizing"}
    BY <2>2 DEF Phases, Collecting
  <2> QED
    BY <1>0, <2>1, <2>2, <2>3, InMemory
<1> QED
  BY <1>1, <1>2

LEMMA AuditView ==
  ASSUME EvidenceInv, NEW w \in Worker, Begin(w) \/ Audit(w) \/ Returned(w)
  PROVE  Works(w)
<1>0. EvidenceTypeOK /\ UNCHANGED delivery /\ pc[w] \notin {"idle", "finalizing", "failing"}
  BY DEF EvidenceInv, Begin, Audit, Recall, VerifyClaim, Checkpoint, StoreExecution,
         Returned, OnlyWorker
<1>1. /\ "store" \in Phases \ {"idle", "finalizing"}
      /\ "verify" \in Phases \ {"idle", "finalizing"}
      /\ "returned" \in Phases \ {"idle", "finalizing"}
      /\ "recall" \in Phases \ {"idle", "finalizing"}
      /\ "reporting" \in Phases \ {"idle", "finalizing"}
  BY DEF Phases
<1>2. \/ Drop(w) \/ FinalizeRead(w) \/ Raise(w, "cancel") \/ Raise(w, "runner")
      \/ /\ UNCHANGED mem
         /\ \E place \in {"store", "verify", "returned", "recall", "reporting"} :
              GoTo(w, place)
  <2>1. CASE Begin(w)
    BY <2>1 DEF Begin
  <2>2. CASE Recall(w)
    <3>1. mem[w].stage \in Action
      BY <2>2 DEF Recall, EvidenceInv, WorkerInv
    <3>2. executions[mem[w].stage] \in {"NONE", "SUCCEEDED", "FAILED"}
      BY <1>0, <3>1 DEF EvidenceTypeOK
    <3> QED
      BY <2>2, <3>2 DEF Recall
  <2>3. CASE VerifyClaim(w)
    BY <2>3 DEF VerifyClaim, Checkpoint
  <2>4. CASE StoreExecution(w)
    BY <2>4 DEF StoreExecution
  <2>5. CASE Returned(w)
    BY <2>5 DEF Returned
  <2> QED
    BY <2>1, <2>2, <2>3, <2>4, <2>5 DEF Audit
<1> QED
  BY <1>0, <1>1, <1>2, GivesUpWork, ReadsView, Raises, GoesOn

LEMMA CollectView ==
  ASSUME EvidenceInv, NEW w \in Worker, Collect(w)
  PROVE  Works(w)
<1>0. /\ EvidenceTypeOK /\ UNCHANGED delivery
      /\ pc[w] \notin {"idle", "finalizing", "failing"}
      /\ pc \in [Worker -> Phases]
  BY DEF EvidenceInv, EvidenceTypeOK, Collect, Report, Gather, FindArtifact,
         WriteTemporary, Replace, AllPut, Save, CollectionFails, Collecting, OnlyWorker
<1>2. /\ "gather" \in Phases \ {"idle", "finalizing"}
      /\ "put" \in Phases \ {"idle", "finalizing"}
      /\ "written" \in Phases \ {"idle", "finalizing"}
      /\ "save" \in Phases \ {"idle", "finalizing"}
  BY DEF Phases, Collecting
<1>3. CASE Report(w)
  BY <1>0, <1>2, <1>3, GivesUpWork, Raises, Writes, InMemory DEF Report
<1>4. CASE Gather(w)
  BY <1>0, <1>2, <1>4, Writes, InMemory DEF Gather
<1>5. CASE FindArtifact(w)
  <2>1. CASE CollectionEnds(w, FALSE)
    BY <1>0, <1>5, <2>1, EndsView DEF FindArtifact, Collecting
  <2>2. CASE ~CollectionEnds(w, FALSE)
    <3>1. PICK c : mem' = [mem EXCEPT ![w].todo = @ \ {c}] /\ UNCHANGED pc
      BY <1>5, <2>2 DEF FindArtifact
    <3>2. GoTo(w, "put")
      BY <1>0, <1>5, <3>1 DEF FindArtifact, GoTo
    <3> QED
      BY <1>0, <1>2, <3>1, <3>2, Writes, InMemory
  <2> QED
    BY <2>1, <2>2
<1>6. CASE WriteTemporary(w)
  BY <1>0, <1>2, <1>6, Writes, InMemory DEF WriteTemporary
<1>7. CASE Replace(w)
  BY <1>0, <1>2, <1>7, Writes, InMemory DEF Replace
<1>8. CASE AllPut(w)
  BY <1>0, <1>2, <1>8, GoesOn DEF AllPut
<1>9. CASE Save(w)
  BY <1>0, <1>9, EndsView DEF Save, Collecting
<1>10. CASE CollectionFails(w)
  BY <1>0, <1>10, EndsView DEF CollectionFails
<1> QED
  BY <1>3, <1>4, <1>5, <1>6, <1>7, <1>8, <1>9, <1>10 DEF Collect

-----------------------------------------------------------------------------

LEMMA RequestView ==
  ASSUME EvidenceInv, RequestCancel \/ GiveUp
  PROVE  DeliveryStep
<1>1. /\ run.outcome = "RUNNING" /\ UNCHANGED <<owner, pc, mem>>
      /\ run \in [stage : 1 .. Reporting, cancel : BOOLEAN,
                  outcome : {"RUNNING", "COMPLETED", "CANCELLED", "FAILED"},
                  cause : {"none", "runner", "evidence", "exhausted"}]
  BY DEF RequestCancel, GiveUp, EvidenceInv, EvidenceTypeOK
<1>2. At' = At
  BY <1>1 DEF At, WorkOf, Decision
<1>3. CASE RequestCancel
  <2>1. run'.cancel = TRUE /\ run'.stage = run.stage /\ run'.outcome = run.outcome
    BY <1>1, <1>3 DEF RequestCancel
  <2>2. Movers' = Movers
    BY <1>1, <2>1 DEF Movers, Moves, Holds
  <2>3. Delivery!Ask
    BY <1>1, <1>2, <2>1, <2>2 DEF At, Movers, Moves, Delivery!Ask
  <2> QED
    BY <2>3 DEF DeliveryStep, Delivery!DeliveryNext
<1>4. CASE GiveUp
  <2>1. run'.cancel = run.cancel /\ run'.stage = run.stage /\ run'.outcome = "FAILED"
    BY <1>1, <1>4 DEF GiveUp
  <2>2. Movers' = {}
    BY <1>1, <2>1 DEF Movers, Moves, Holds
  <2>3. Delivery!Exhaust
    BY <1>1, <1>2, <2>1, <2>2 DEF At, Movers, Moves, Delivery!Exhaust
  <2> QED
    BY <2>3 DEF DeliveryStep, Delivery!DeliveryNext
<1> QED
  BY <1>3, <1>4

LEMMA NextDelivers ==
  ASSUME EvidenceInv, [EvidenceNext]_evidenceVars
  PROVE  DeliveryStep
<1>1. ASSUME NEW w \in Worker, Work(w) PROVE DeliveryStep
  BY <1>1, ClaimView, AuditView, CollectView, WorksView, MoveView, CrashView DEF Work
<1>2. CASE UNCHANGED evidenceVars
  BY <1>2, Undisturbed, UnseenStep DEF evidenceVars, delivery
<1> QED
  BY <1>1, <1>2, RequestView DEF EvidenceNext

LEMMA InitDelivers ==
  ASSUME EvidenceInit
  PROVE  Delivery!DeliveryInit
<1>1. \A w \in Worker : WorkOf(w) = Delivery!NoWork /\ ~Moves(w)
  BY IdleView DEF EvidenceInit
<1> QED
  BY <1>1 DEF EvidenceInit, Moves, Delivery!DeliveryInit

(* The stages that execute and collect start, decide, move the run and     *)
(* lose it as StageDelivery allows and in no other way, wherever a         *)
(* collector dies and whatever the store or the database refuses.          *)
THEOREM EvidenceDeliveryRefinement == EvidenceSpec => EvidenceDelivered
<1>1. EvidenceInit => Delivery!DeliveryInit
  BY InitDelivers
<1>2. EvidenceInv /\ [EvidenceNext]_evidenceVars =>
        [Delivery!DeliveryNext]_(Delivery!deliveryVars)
  BY NextDelivers DEF DeliveryStep
<1> QED
  BY <1>1, <1>2, EvidenceInvariant, PTL
     DEF EvidenceSpec, EvidenceDelivered, Delivery!DeliverySpec
=============================================================================
