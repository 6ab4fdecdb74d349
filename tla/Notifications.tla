---------------------------- MODULE Notifications ----------------------------
(***************************************************************************)
(* The notification spine (observability/src/lib.rs) and the home shell's  *)
(* consumer (feature-home/src/lib.rs): tasks record events into a bounded  *)
(* log and broadcast them; the consumer subscribes, copies the log, and    *)
(* applies what it receives.  The broadcast channel is the library's: a    *)
(* receiver that falls behind its capacity loses the oldest and is told.   *)
(***************************************************************************)
EXTENDS Naturals, Sequences, SequencesExt

CONSTANTS Recorder, Severities, LogCapacity, ChannelCapacity, MaxEvents

Severity == {"Low", "Medium", "High", "Critical"}
Surface  == {"Toast", "Banner", "Modal"}

VARIABLES
  log,      \* ErrorLog::entries
  told,     \* what went into the channel so far
  writing,  \* per recorder: the event logged and not yet told, at most one
  recorded, \* the number of events recorded
  consumer, \* "none", "subscribed", or "ready" once it has copied the log
  next,     \* its receiver: the number of the next message
  lagged,   \* history: it has been told of a loss
  state     \* HomeNotificationPresenterState

vars == <<log, told, writing, recorded, consumer, next, lagged, state>>

Event == [by : Recorder, n : 1..MaxEvents, severity : Severity]
NoState == [toast |-> {}, banner |-> {}, modal |-> {}, panel |-> <<>>]

TypeOK ==
  /\ log \in Seq(Event) /\ Len(log) <= LogCapacity
  /\ told \in Seq(Event)
  /\ \A r \in Recorder : writing[r] \subseteq Event
  /\ recorded \in 0..MaxEvents
  /\ consumer \in {"none", "subscribed", "ready"}
  /\ next \in 1..(MaxEvents + 1)
  /\ lagged \in BOOLEAN
  /\ state.panel \in Seq(Event)
  /\ state.toast \cup state.banner \cup state.modal \subseteq Event

Init ==
  /\ log = <<>> /\ told = <<>>
  /\ writing = [r \in Recorder |-> {}]
  /\ recorded = 0
  /\ consumer = "none" /\ next = 1 /\ lagged = FALSE
  /\ state = NoState

(***************************************************************************)
(* ErrorLog::record: the oldest makes room; a log of no capacity keeps     *)
(* nothing.                                                                *)
(***************************************************************************)
Logged(events, event) ==
  IF LogCapacity = 0
  THEN events
  ELSE Append(IF Len(events) = LogCapacity THEN Tail(events) ELSE events, event)

(***************************************************************************)
(* Observability::record takes the log's lock and lets it go before it     *)
(* broadcasts: two recorders may log in one order and tell in the other.   *)
(***************************************************************************)
Record(r, severity) ==
  LET event == [by |-> r, n |-> recorded + 1, severity |-> severity]
  IN /\ writing[r] = {} /\ recorded < MaxEvents
     /\ recorded' = recorded + 1
     /\ log' = Logged(log, event)
     /\ writing' = [writing EXCEPT ![r] = {event}]
     /\ UNCHANGED <<told, consumer, next, lagged, state>>

Tell(r) ==
  /\ \E event \in writing[r] : told' = Append(told, event)
  /\ writing' = [writing EXCEPT ![r] = {}]
  /\ UNCHANGED <<log, recorded, consumer, next, lagged, state>>

-----------------------------------------------------------------------------
(***************************************************************************)
(* HomeNotificationConsumer::new: subscribe, then copy the log.  What the  *)
(* log holds already is listed and raised on no surface.                   *)
(***************************************************************************)
Subscribe ==
  /\ consumer = "none"
  /\ consumer' = "subscribed"
  /\ next' = Len(told) + 1
  /\ UNCHANGED <<log, told, writing, recorded, lagged, state>>

(***************************************************************************)
(* Mutation of CopyLog: the subscription comes last.                       *)
(***************************************************************************)
CopyLogFirst ==
  /\ consumer = "subscribed"
  /\ consumer' = "ready"
  /\ next' = Len(told) + 1
  /\ UNCHANGED <<log, told, writing, recorded, lagged, state>>

CopyLog ==
  /\ consumer = "subscribed"
  /\ consumer' = "ready"
  /\ state' = [NoState EXCEPT !.panel = log]
  /\ UNCHANGED <<log, told, writing, recorded, next, lagged>>

(***************************************************************************)
(* apply: the event joins the panel, which has no bound, and takes the     *)
(* surface of its severity from the one that is there.                     *)
(***************************************************************************)
Apply(event) ==
  [state EXCEPT !.panel = Append(@, event),
                !.toast  = IF event.severity = "Medium"   THEN {event} ELSE @,
                !.banner = IF event.severity = "High"     THEN {event} ELSE @,
                !.modal  = IF event.severity = "Critical" THEN {event} ELSE @]

Oldest == IF Len(told) > ChannelCapacity THEN Len(told) - ChannelCapacity + 1 ELSE 1

SyncNext ==
  /\ consumer = "ready" /\ Oldest <= next /\ next <= Len(told)
  /\ state' = Apply(told[next])
  /\ next' = next + 1
  /\ UNCHANGED <<log, told, writing, recorded, consumer, lagged>>

(***************************************************************************)
(* The receiver is too far behind: it is moved to the oldest message left, *)
(* and sync_next returns the error without applying anything.              *)
(***************************************************************************)
SyncLagged ==
  /\ consumer = "ready" /\ next < Oldest
  /\ next' = Oldest
  /\ lagged' = TRUE
  /\ UNCHANGED <<log, told, writing, recorded, consumer, state>>

Next ==
  \/ \E r \in Recorder, severity \in Severities : Record(r, severity)
  \/ \E r \in Recorder : Tell(r)
  \/ Subscribe \/ CopyLog \/ SyncNext \/ SyncLagged

-----------------------------------------------------------------------------
(***************************************************************************)
(* Nothing falls between the copy of the log and the subscription: when    *)
(* the consumer has caught up and has never been told of a loss, all that  *)
(* the log holds is in the panel, and the events of one recorder first     *)
(* come up in their order.  (An event may come up twice: logged before the *)
(* copy and told after the subscription.)                                  *)
(***************************************************************************)
CaughtUp == consumer = "ready" /\ next = Len(told) + 1 /\ \A r \in Recorder : writing[r] = {}

PanelHoldsLog ==
  CaughtUp /\ ~lagged =>
    /\ Range(log) \subseteq Range(state.panel)
    /\ \A e, f \in Range(log) :
         e.by = f.by /\ e.n < f.n =>
           SelectInSeq(state.panel, LAMBDA x : x = e) < SelectInSeq(state.panel, LAMBDA x : x = f)
=============================================================================
