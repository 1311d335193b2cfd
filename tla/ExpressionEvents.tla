-------------------------- MODULE ExpressionEvents --------------------------
(***************************************************************************)
(* How the voice service tells the round screen what it is doing           *)
(* (apps/expression-ui/expression_events.py, hermes_expression_bridge.py): *)
(* a publisher writes each event to a snapshot file and sends it as a      *)
(* datagram; the bridge puts both in order and hands them to the display.  *)
(*                                                                         *)
(* An event is identified by its publisher (`life', which orders           *)
(* publisher_started_at) and its sequence number.  The interaction index   *)
(* grows with the sequence under the publisher's lock, so its check never  *)
(* decides and is left out.                                                *)
(***************************************************************************)
EXTENDS Naturals, Sequences

CONSTANTS Face,        \* states of an event other than "idle"
          InboxSize,   \* datagrams the bridge's socket holds
          MaxEvents,   \* bound on the events of one publisher
          MaxLives     \* bound on the starts of publisher and of bridge

ASSUME EventsAssumption == /\ "idle" \notin Face
                           /\ InboxSize \in Nat \ {0}
                           /\ MaxEvents \in Nat \ {0} /\ MaxLives \in Nat \ {0}

VARIABLES publisher,   \* the publisher: its life, its sequence, what it still has to send
          snapshot,    \* the event in the snapshot file
          aged,        \* it is older than MAX_EVENT_AGE_SECONDS
          inbox,       \* datagrams in the bridge's socket
          bridge,      \* the bridge process and its starts
          consumer,    \* the last event the consumer accepted
          delivered,   \* last_delivery_ok
          display,     \* the renderer listens
          screen       \* the event the screen shows

eventVars == <<publisher, snapshot, aged, inbox, bridge, consumer, delivered, display, screen>>

Event == [life : 0..MaxLives, seq : 0..MaxEvents, state : Face \cup {"idle"}]

\* No event: the screen at rest, an empty consumer, no file.
None == [life |-> 0, seq |-> 0, state |-> "idle"]

Newer(e, f) == \/ e.life > f.life
               \/ e.life = f.life /\ e.seq > f.seq

EventsTypeOK ==
  /\ publisher \in [life : 0..MaxLives, seq : 0..MaxEvents, sending : Event]
  /\ snapshot \in Event
  /\ aged \in BOOLEAN
  /\ inbox \in Seq(Event) /\ Len(inbox) <= InboxSize
  /\ bridge \in [at : {"down", "bound", "serving"}, starts : 0..MaxLives]
  /\ consumer \in Event
  /\ delivered \in BOOLEAN
  /\ display \in BOOLEAN
  /\ screen \in Event

EventsInit ==
  /\ publisher = [life |-> 0, seq |-> 0, sending |-> None]
  /\ snapshot = None
  /\ aged = FALSE
  /\ inbox = <<>>
  /\ bridge = [at |-> "down", starts |-> 0]
  /\ consumer = None
  /\ delivered = FALSE
  /\ display = FALSE
  /\ screen = None

-----------------------------------------------------------------------------
(* The publisher *)

\* The voice service starts, or starts again after a crash at any point.
PublisherStarts ==
  /\ publisher.life < MaxLives
  /\ publisher' = [life |-> publisher.life + 1, seq |-> 0, sending |-> None]
  /\ UNCHANGED <<snapshot, aged, inbox, bridge, consumer, delivered, display, screen>>

\* publish, first half: the event gets its number and replaces the snapshot.
\* The first event of a started service is idle.
Publish(state) ==
  LET event == [life |-> publisher.life, seq |-> publisher.seq + 1, state |-> state]
  IN /\ publisher.life > 0 /\ publisher.sending = None
     /\ publisher.seq < MaxEvents
     /\ publisher.seq = 0 => state = "idle"
     /\ publisher' = [publisher EXCEPT !.seq = event.seq, !.sending = event]
     /\ snapshot' = event
     /\ aged' = FALSE
     /\ UNCHANGED <<inbox, bridge, consumer, delivered, display, screen>>

\* publish, second half: the datagram.  Without a listener it is dropped; a
\* full socket holds the publisher up.
SendDatagram ==
  /\ publisher.sending # None
  /\ \/ bridge.at = "down" /\ UNCHANGED inbox
     \/ /\ bridge.at # "down"
        /\ Len(inbox) < InboxSize
        /\ inbox' = Append(inbox, publisher.sending)
  /\ publisher' = [publisher EXCEPT !.sending = None]
  /\ UNCHANGED <<snapshot, aged, bridge, consumer, delivered, display, screen>>

\* Thirty seconds without an event.
SnapshotAges ==
  /\ snapshot # None /\ ~aged
  /\ aged' = TRUE
  /\ UNCHANGED <<publisher, snapshot, inbox, bridge, consumer, delivered, display, screen>>

-----------------------------------------------------------------------------
(* The bridge *)

\* deliver: send_display succeeds when the renderer has bound its socket.
Deliver(e) == /\ delivered' = display
              /\ screen' = IF display THEN e ELSE screen

\* validate, for an event young enough: a publisher other than the current
\* one must have started later, and the sequence must have grown.
Acceptable(e) == Newer(e, consumer)

\* The socket is bound before the snapshot is read: what is sent meanwhile
\* waits in the socket.
BridgeBinds ==
  /\ bridge.at = "down" /\ bridge.starts < MaxLives
  /\ bridge' = [at |-> "bound", starts |-> bridge.starts + 1]
  /\ inbox' = <<>>
  /\ consumer' = None
  /\ delivered' = FALSE
  /\ UNCHANGED <<publisher, snapshot, aged, display, screen>>

\* reconcile_snapshot: a missing snapshot, or an old one that is not idle,
\* puts the display to rest.
Reconcile ==
  /\ bridge.at = "bound"
  /\ bridge' = [bridge EXCEPT !.at = "serving"]
  /\ IF snapshot # None /\ (aged => snapshot.state = "idle")
       THEN consumer' = snapshot /\ Deliver(snapshot)
       ELSE Deliver(None) /\ UNCHANGED consumer
  /\ UNCHANGED <<publisher, snapshot, aged, inbox, display>>

\* One datagram.  It is handled long before it is thirty seconds old.
Receive ==
  /\ bridge.at = "serving" /\ inbox # <<>>
  /\ inbox' = Tail(inbox)
  /\ IF Acceptable(Head(inbox))
       THEN consumer' = Head(inbox) /\ Deliver(Head(inbox))
       ELSE UNCHANGED <<consumer, delivered, screen>>
  /\ UNCHANGED <<publisher, snapshot, aged, bridge, display>>

\* A mutant of Retry: the snapshot file was good enough.
NoRetry ==
  /\ FALSE
  /\ UNCHANGED eventVars

\* retry_pending_delivery, after a second of silence: the last accepted
\* event again, or idle.
Retry ==
  /\ bridge.at = "serving" /\ inbox = <<>> /\ ~delivered
  /\ Deliver(consumer)
  /\ UNCHANGED <<publisher, snapshot, aged, inbox, bridge, consumer, display>>

BridgeDies ==
  /\ bridge.at # "down"
  /\ bridge' = [bridge EXCEPT !.at = "down"]
  /\ UNCHANGED <<publisher, snapshot, aged, inbox, consumer, delivered, display, screen>>

\* The renderer binds its socket, possibly long after the bridge started.
DisplayStarts ==
  /\ ~display
  /\ display' = TRUE
  /\ UNCHANGED <<publisher, snapshot, aged, inbox, bridge, consumer, delivered, screen>>

-----------------------------------------------------------------------------
BridgeStep == BridgeBinds \/ Reconcile \/ Receive \/ Retry

EventsNext ==
  \/ PublisherStarts \/ (\E state \in Face \cup {"idle"} : Publish(state)) \/ SendDatagram
  \/ SnapshotAges
  \/ BridgeStep \/ BridgeDies
  \/ DisplayStarts

Greet == publisher.seq = 0 /\ Publish("idle")

EventsFairness == /\ WF_eventVars(BridgeStep)
                  /\ WF_eventVars(SendDatagram \/ Greet)
                  /\ WF_eventVars(DisplayStarts)

EventsSpec == EventsInit /\ [][EventsNext]_eventVars
EventsFairSpec == EventsSpec /\ EventsFairness

-----------------------------------------------------------------------------
(* Properties *)

\* Once publishers and bridge stay up, the screen comes to show the last
\* event that was published, also if that was sent while the bridge was down
\* or before the display listened, unless the event had grown old by then
\* (hermes_expression_bridge.py:110 and :153).
ScreenCatchesUp ==
  <>[](bridge.at = "serving")
    => <>[](\/ screen = snapshot
            \/ aged /\ screen = None)
=============================================================================
