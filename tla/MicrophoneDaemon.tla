-------------------------- MODULE MicrophoneDaemon --------------------------
(***************************************************************************)
(* The daemon of the microphone array (apps/listengo-mic): one thread      *)
(* reads the serial line, request threads send commands and wait for the   *)
(* message that carries their number.                                      *)
(*                                                                         *)
(* A message arrives whole or not at all: one with a wrong checksum is     *)
(* dropped, and the search for the next one may drop others with it.       *)
(* Numbers do not come round (there are 65536 of them, and a request waits *)
(* for three seconds), but the device numbers its own messages itself.     *)
(***************************************************************************)
EXTENDS Naturals, Sequences

CONSTANTS Asker,         \* request threads, each with one command
          MaxConnects,   \* bound on connections of the serial port
          MaxSpoken,     \* bound on messages of the device's own accord
          MaxLine        \* bound on messages on the line

ASSUME DaemonAssumption == MaxConnects \in Nat \ {0} /\ MaxSpoken \in Nat /\ MaxLine \in Nat

VARIABLES serial,      \* where serial_loop is
          portOpen,    \* is self.serial_port set?
          connects,    \* connections so far
          nextId,      \* self.message_id
          asks,        \* where a request thread is in send_control
          number,      \* its message_id
          sentOn,      \* the connection it wrote on
          holder,      \* what its event was set with, and it will return
          owed,        \* commands the device has not answered
          line,        \* messages of the device on their way
          spoken       \* messages of its own accord so far

thread == <<serial, portOpen, connects>>
asker == <<asks, number, sentOn>>
array == <<owed, line, spoken>>
daemonVars == <<thread, asker, array, nextId, holder>>

Nothing == [kind |-> "nothing", id |-> 0]
Disconnected == [kind |-> "disconnected", id |-> 0]

DaemonTypeOK ==
  /\ serial \in {"closed", "greeting", "reading", "lost", "closing"}
  /\ portOpen \in BOOLEAN /\ connects \in 0..MaxConnects
  /\ nextId \in Nat
  /\ asks \in [Asker -> {"idle", "numbered", "registered", "waiting", "done"}]
  /\ number \in [Asker -> Nat] /\ sentOn \in [Asker -> 0..MaxConnects]
  /\ holder \in [Asker -> [kind : {"nothing", "disconnected", "control"}, id : Nat]]
  /\ owed \subseteq Nat /\ Len(line) <= MaxLine /\ spoken \in 0..MaxSpoken

DaemonInit ==
  /\ serial = "closed" /\ portOpen = FALSE /\ connects = 0
  /\ nextId = 0
  /\ asks = [a \in Asker |-> "idle"]
  /\ number = [a \in Asker |-> 0] /\ sentOn = [a \in Asker |-> 0]
  /\ holder = [a \in Asker |-> Nothing]
  /\ owed = {} /\ line = <<>> /\ spoken = 0

-----------------------------------------------------------------------------
(* serial_loop *)

Connects ==
  /\ serial = "closed"
  /\ connects < MaxConnects
  /\ connects' = connects + 1
  /\ portOpen' = TRUE
  /\ serial' = "greeting"
  /\ UNCHANGED <<asker, array, nextId, holder>>

\* The version is asked for, on nobody's behalf; Speaks may answer it.
AsksVersion == nextId' = nextId + 1

Greets ==
  /\ serial = "greeting"
  /\ serial' = "reading"
  /\ AsksVersion
  /\ UNCHANGED <<portOpen, connects, asker, holder, array>>

Pending(i) == {a \in Asker : asks[a] \in {"registered", "waiting"} /\ number[a] = i}

\* handle_message: an answer goes to the request of its number, if there is
\* still one; a handshake is acknowledged and the version asked for; a wake
\* word goes to the state file.
HandlesMessage ==
  /\ serial = "reading" /\ line # <<>>
  /\ line' = Tail(line)
  /\ LET m == Head(line)
     IN /\ holder' = [a \in Asker |->
                        IF m.kind = "control" /\ a \in Pending(m.id) THEN m ELSE holder[a]]
        /\ IF m.kind = "handshake" THEN AsksVersion ELSE UNCHANGED nextId
  /\ UNCHANGED <<thread, asker, owed, spoken>>

DropsMessages ==
  /\ serial = "reading"
  /\ \E n \in 1..Len(line) : line' = SubSeq(line, n + 1, Len(line))
  /\ UNCHANGED <<thread, asker, nextId, holder, owed, spoken>>

\* The device is gone or cannot be opened, or handle_message raises, for
\* instance over the state file.
Fails ==
  /\ serial \in {"closed", "greeting", "reading"}
  /\ serial' = "lost"
  /\ UNCHANGED <<portOpen, connects, asker, array, nextId, holder>>

Tell == holder' = [a \in Asker |-> IF asks[a] \in {"registered", "waiting"}
                                     THEN Disconnected ELSE holder[a]]

\* Mutant: the requests are told before the port is closed.
TellsFirst ==
  /\ \/ /\ serial = "lost" /\ serial' = "closing"
        /\ Tell /\ UNCHANGED portOpen
     \/ /\ serial = "closing" /\ serial' = "closed"
        /\ portOpen' = FALSE /\ UNCHANGED holder
  /\ UNCHANGED <<connects, asker, array, nextId>>

\* The port is closed under its lock, then every request that is registered
\* is told, under another, whether it has been answered or not.
Finally ==
  /\ \/ /\ serial = "lost" /\ serial' = "closing"
        /\ portOpen' = FALSE /\ UNCHANGED holder
     \/ /\ serial = "closing" /\ serial' = "closed"
        /\ Tell /\ UNCHANGED portOpen
  /\ UNCHANGED <<connects, asker, array, nextId>>

-----------------------------------------------------------------------------
(* send_control, in the thread of a request *)

TakesNumber(a) ==
  /\ asks[a] = "idle"
  /\ asks' = [asks EXCEPT ![a] = "numbered"]
  /\ number' = [number EXCEPT ![a] = nextId]
  /\ nextId' = nextId + 1
  /\ UNCHANGED <<thread, sentOn, holder, array>>

Enters(a) ==
  /\ asks[a] = "numbered"
  /\ asks' = [asks EXCEPT ![a] = "registered"]
  /\ UNCHANGED <<thread, nextId, number, sentOn, holder, array>>

\* send_control returns or raises, and its request is forgotten.
Forgets(a) ==
  /\ asks' = [asks EXCEPT ![a] = "done"]
  /\ number' = [number EXCEPT ![a] = 0]
  /\ sentOn' = [sentOn EXCEPT ![a] = 0]
  /\ holder' = [holder EXCEPT ![a] = Nothing]

\* The command is written, or the write fails; without a port it raises.
Writes(a) ==
  /\ asks[a] = "registered"
  /\ \/ /\ portOpen
        /\ asks' = [asks EXCEPT ![a] = "waiting"]
        /\ sentOn' = [sentOn EXCEPT ![a] = connects]
        /\ owed' = owed \cup {number[a]}
        /\ UNCHANGED <<number, holder>>
     \/ Forgets(a) /\ UNCHANGED owed
  /\ UNCHANGED <<thread, nextId, line, spoken>>

\* The event is set, or three seconds have passed.
Returns(a) ==
  /\ asks[a] = "waiting"
  /\ Forgets(a)
  /\ UNCHANGED <<thread, nextId, array>>

-----------------------------------------------------------------------------
(* The device *)

Sends(m) == Len(line) < MaxLine /\ line' = Append(line, m)

\* Commands are answered in any order, also on a later connection.
Replies ==
  /\ \E i \in owed : owed' = owed \ {i} /\ Sends([kind |-> "control", id |-> i])
  /\ UNCHANGED <<thread, asker, nextId, holder, spoken>>

\* A handshake, a wake word under a number the device chose, or the answer
\* to a command of the daemon itself.
Speaks ==
  /\ spoken < MaxSpoken
  /\ spoken' = spoken + 1
  /\ \/ Sends([kind |-> "handshake", id |-> 0])
     \/ \E i \in 0..nextId : Sends([kind |-> "wake", id |-> i])
     \/ \E i \in 0..(nextId - 1) : /\ \A a \in Asker : number[a] # i
                                   /\ Sends([kind |-> "control", id |-> i])
  /\ UNCHANGED <<thread, asker, nextId, holder, owed>>

-----------------------------------------------------------------------------
DaemonNext ==
  \/ Connects \/ Greets \/ HandlesMessage \/ DropsMessages \/ Fails \/ Finally
  \/ \E a \in Asker : TakesNumber(a) \/ Enters(a) \/ Writes(a) \/ Returns(a)
  \/ Replies \/ Speaks

DaemonSpec == DaemonInit /\ [][DaemonNext]_daemonVars

-----------------------------------------------------------------------------
\* Whoever asks the array something hears the answer to the own command and
\* no other, however late answers and the device's own messages fall; and a
\* command that went out on a connection that is gone has been told so
\* when the next one can be tried, never left to its timeout, at whatever
\* moment of its registration and its sending the connection went
\* (listengo_daemon.py:288).
AskersAreTold ==
  \A a \in Asker :
    /\ holder[a].kind = "control" => holder[a].id = number[a]
    /\ asks[a] = "waiting" /\ (sentOn[a] < connects \/ serial = "closed")
         => holder[a] # Nothing
=============================================================================
