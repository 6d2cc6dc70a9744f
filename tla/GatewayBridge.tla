----------------------------- MODULE GatewayBridge -----------------------------
(***************************************************************************)
(* The gateway end to end: the radio chip, the board's loop (pump the      *)
(* serial port, poll the radio, hand a packet up, await the reply, relay   *)
(* it), the daemon that answers, and the nodes whose receive windows are   *)
(* the deadline                                                            *)
(* (firmware/src/gateway/main.cpp, core/gateway_bridge.cpp,                *)
(* esp32/sx1262_radio.cpp, gateway/soundings_gateway/gateway.py).          *)
(*                                                                         *)
(* A frame on the cable is a pair of halves, so that it can straddle two   *)
(* windows; its bytes are in SerialFraming.  Time is counted in ticks that *)
(* pass only when nothing is ready to run: the board's loop, 115200 baud   *)
(* and the chip's interrupts are all far shorter than a tick.              *)
(***************************************************************************)
EXTENDS Integers, Sequences, FiniteSets

CONSTANTS
  Nodes,
  MaxPackets,   \* packets a node sends, at most
  UpAir,        \* ticks a packet is on the air
  DownAir,      \* ticks a downlink is on the air
  NodeWindow,   \* kDefaultRxWindowMs
  ReplyWindow,  \* kReplyWindowMs
  DaemonMax,    \* longest from a packet's last byte to its answer's last byte
  Budget,       \* how much of that leaves the answer time to be in NodeWindow
  SleepMin,     \* shortest sleep between two packets of a node
  None

ASSUME TimesAssumption ==
  /\ MaxPackets \in Nat /\ UpAir \in Nat /\ DownAir \in Nat /\ NodeWindow \in Nat
  /\ ReplyWindow \in Nat /\ DaemonMax \in Nat /\ SleepMin \in Nat
  /\ Budget \in Nat

Packet == [node : Nodes, no : 1 .. MaxPackets]
ASSUME NoneAssumption == None \notin Packet
ASSUME BufferAssumption == None \notin [packet : Packet, ok : BOOLEAN]

VARIABLES
  up,        \* Sx1262Radio::up_ (and continuous_, set with it in setup)
  chip,      \* what the transceiver is doing
  rxBuf,     \* the chip's one receive buffer, RX_DONE set; or None
  pc,        \* where the board's loop is
  wait,      \* ticks left of the reply window
  relaying,  \* the reply being transmitted, or None
  airLeft,   \* ticks left of its transmission
  half,      \* what g_reader holds: the first half of a frame, or None
  cable,     \* halves in the board's UART, not yet read
  inbox,     \* packets handed up, not yet read by the daemon
  task,      \* the packet the daemon is answering, or None
  age,       \* ticks it has been at it
  writing,   \* has half of the answer been written
  node,      \* what each node is doing, and the ticks left of it
  sent,      \* packets each node has sent
  intact,    \* nodes whose packet the chip has followed from its start
  tuned,     \* nodes listening since the start of the downlink on the air
  due,       \* last packet of each node answered in budget, no failure since
  reached,   \* last packet of each node whose answer fell whole in its window
  written,   \* replies written by the daemon, in order
  relayed    \* replies handed to the radio, in order

chipVars == <<up, chip, rxBuf>>
boardVars == <<pc, wait, relaying, airLeft, half, relayed>>
daemonVars == <<task, age, writing, written>>
airVars == <<node, sent, intact, tuned, reached>>
vars == <<chipVars, boardVars, cable, inbox, daemonVars, airVars, due>>

Listening == {n \in Nodes : node[n].doing = "listening"}
Sending == {n \in Nodes : node[n].doing = "sending"}
PacketOf(n) == [node |-> n, no |-> sent[n]]

\* setup(): the sketch runs on whether or not the radio came up.
Init ==
  /\ up \in BOOLEAN
  /\ chip = IF up THEN "rx" ELSE "off"
  /\ rxBuf = None
  /\ pc = "loop"
  /\ wait = 0
  /\ relaying = None
  /\ airLeft = 0
  /\ half = None
  /\ cable = <<>>
  /\ inbox = <<>>
  /\ task = None
  /\ age = 0
  /\ writing = FALSE
  /\ node = [n \in Nodes |-> [doing |-> "asleep", left |-> 0]]
  /\ sent = [n \in Nodes |-> 0]
  /\ intact = {}
  /\ tuned = {}
  /\ due = [n \in Nodes |-> 0]
  /\ reached = [n \in Nodes |-> 0]
  /\ written = <<>>
  /\ relayed = <<>>

-----------------------------------------------------------------------------
(* The nodes and the air *)

Becomes(n, what, ticks) == [node EXCEPT ![n] = [doing |-> what, left |-> ticks]]

\* A node wakes and transmits.  The chip follows the packet if it is receiving;
\* of packets that overlap it follows one, or none.
NodeSends(n) ==
  /\ node[n] = [doing |-> "asleep", left |-> 0]
  /\ sent[n] < MaxPackets
  /\ node' = Becomes(n, "sending", UpAir)
  /\ sent' = [sent EXCEPT ![n] = @ + 1]
  /\ \E caught \in SUBSET (intact \cup {n}) :
       /\ chip # "rx" => caught = {}
       /\ Sending # {} => Cardinality(caught) <= 1
       /\ intact' = caught
  /\ UNCHANGED <<chipVars, boardVars, cable, inbox, daemonVars, tuned, due, reached>>

\* The packet ends and the node opens its window.  What the chip followed lands
\* in its buffer, over whatever is there, whole or corrupt; otherwise nothing does.
NodeSent(n) ==
  /\ node[n] = [doing |-> "sending", left |-> 0]
  /\ node' = Becomes(n, "listening", NodeWindow)
  /\ \/ /\ n \in intact
        /\ \E ok \in BOOLEAN : rxBuf' = [packet |-> PacketOf(n), ok |-> ok]
     \/ /\ n \notin intact
        /\ UNCHANGED rxBuf
  /\ intact' = intact \ {n}
  /\ UNCHANGED <<up, chip, boardVars, cable, inbox, daemonVars, sent, tuned, due, reached>>

\* receive() times out: the window is closed, and a frame in flight is cut off.
WindowCloses(n) ==
  /\ node[n] = [doing |-> "listening", left |-> 0]
  /\ node' = Becomes(n, "asleep", SleepMin)
  /\ tuned' = tuned \ {n}
  /\ UNCHANGED <<chipVars, boardVars, cable, inbox, daemonVars, sent, intact, due, reached>>

-----------------------------------------------------------------------------
(* Sx1262Radio::send, in three steps *)

\* relay(): transmit() takes the chip out of receive, and with it any packet it
\* was following.  A radio that never came up refuses at once.
Relay(reply) ==
  /\ relayed' = Append(relayed, reply)
  /\ \/ /\ up
        /\ chip' = "tx"
        /\ pc' = "tx"
        /\ relaying' = reply
        /\ airLeft' = DownAir
        /\ intact' = {}
        /\ tuned' = Listening
     \/ /\ ~up
        /\ pc' = "loop"
        /\ UNCHANGED <<chip, relaying, airLeft, intact, tuned>>

\* Every node tuned to the whole frame has had its one receive() end, whether
\* or not the frame was for it; any of them may have missed it.
Transmitted ==
  /\ pc = "tx" /\ airLeft = 0
  /\ chip' = "standby"
  /\ pc' = "rearm"
  /\ \E hearers \in SUBSET tuned :
       node' = [n \in Nodes |-> IF n \in hearers
                                THEN [doing |-> "asleep", left |-> SleepMin]
                                ELSE node[n]]
  /\ reached' = [n \in Nodes |->
                   IF n = relaying.node /\ n \in tuned THEN relaying.no ELSE reached[n]]
  /\ tuned' = {}
  /\ relaying' = None
  /\ UNCHANGED <<up, rxBuf, wait, airLeft, half, relayed, cable, inbox, daemonVars,
                 sent, intact, due>>

\* transmit() reports a failure, part of the frame radiated or none of it.
TransmitFails ==
  /\ pc = "tx"
  /\ chip' = "standby"
  /\ pc' = "rearm"
  /\ airLeft' = 0
  /\ due' = [due EXCEPT ![relaying.node] = 0]
  /\ tuned' = {}
  /\ relaying' = None
  /\ UNCHANGED <<up, rxBuf, wait, half, relayed, cable, inbox, daemonVars, node,
                 sent, intact, reached>>

\* Mutant: send() does not put the chip back into receive.
NoRearm ==
  /\ pc = "rearm"
  /\ pc' = "loop"
  /\ UNCHANGED <<chipVars, wait, relaying, airLeft, half, relayed, cable, inbox, daemonVars,
                 airVars, due>>

\* Whether the transmit succeeded or not.
Rearm ==
  /\ pc = "rearm"
  /\ chip' = "rx"
  /\ pc' = "loop"
  /\ UNCHANGED <<up, rxBuf, wait, relaying, airLeft, half, relayed, cable, inbox,
                 daemonVars, airVars, due>>

-----------------------------------------------------------------------------
(* The board's loop *)

\* Elapsed::expired().
Expired(left) == left = 0

\* The reader takes one half: a first half is held, a second completes it.
Feed ==
  /\ cable # <<>>
  /\ cable' = Tail(cable)
  /\ half' = IF Head(cable).last THEN None ELSE Head(cable).reply
Completes == Head(cable).last /\ half = Head(cable).reply

\* pumpSerial(): every byte there is, relaying each frame it completes.
Pump ==
  /\ pc = "loop"
  /\ Feed
  /\ \/ Completes /\ Relay(half)
     \/ ~Completes /\ UNCHANGED <<relayed, chip, pc, relaying, airLeft, intact, tuned>>
  /\ UNCHANGED <<up, rxBuf, wait, inbox, daemonVars, node, sent, reached, due>>

\* Mutant: poll() returns on a bad CRC without reading the packet out.
LeaveCorrupt == rxBuf
\* readData() reads the packet out whatever its CRC says.
ReadOut == None

\* poll() and the rest of loop(), once the port has been pumped dry: a good
\* packet goes up and its reply is awaited; a corrupt or unframable one is dropped.
Poll ==
  /\ pc = "loop"
  /\ cable = <<>>
  /\ rxBuf # None
  /\ \/ /\ rxBuf.ok
        /\ rxBuf' = None
        /\ inbox' = Append(inbox, rxBuf.packet)
        /\ pc' = "await"
        /\ wait' = ReplyWindow
     \/ /\ ~rxBuf.ok
        /\ rxBuf' = ReadOut
        /\ UNCHANGED <<inbox, pc, wait>>
  /\ UNCHANGED <<up, chip, relaying, airLeft, half, relayed, cable, daemonVars,
                 airVars, due>>

\* Mutant: the port is read only once the window has run out.
ReadsAtTheEnd == Expired(wait)
\* The wait comes round for every byte, and when its time is up.
WaitTurns == cable # <<>> \/ Expired(wait)

\* awaitFramedPayload(): one byte at a time, the frame relayed the instant it is
\* complete -- any frame, whichever packet it answers -- and the deadline looked
\* at after the read.
AwaitByte ==
  /\ pc = "await"
  /\ WaitTurns
  /\ Feed
  /\ \/ Completes /\ Relay(half)
     \/ /\ ~Completes
        /\ pc' = IF Expired(wait) THEN "loop" ELSE "await"
        /\ UNCHANGED <<relayed, chip, relaying, airLeft, intact, tuned>>
  /\ UNCHANGED <<up, rxBuf, wait, inbox, daemonVars, node, sent, reached, due>>

\* Mutant: what the reader holds is dropped with the window.
AwaitForgets ==
  /\ pc = "await"
  /\ Expired(wait)
  /\ cable = <<>>
  /\ pc' = "loop"
  /\ half' = None
  /\ UNCHANGED <<chipVars, wait, relaying, airLeft, relayed, cable, inbox, daemonVars,
                 airVars, due>>

\* Nothing to read and the window has expired; what the reader holds stays held.
AwaitExpires ==
  /\ pc = "await"
  /\ Expired(wait)
  /\ cable = <<>>
  /\ pc' = "loop"
  /\ UNCHANGED <<chipVars, wait, relaying, airLeft, half, relayed, cable, inbox, daemonVars,
                 airVars, due>>

-----------------------------------------------------------------------------
(* The daemon: Gateway.run with a responder that always answers *)

DaemonTakes ==
  /\ task = None
  /\ inbox # <<>>
  /\ task' = Head(inbox)
  /\ inbox' = Tail(inbox)
  /\ age' = 0
  /\ UNCHANGED <<chipVars, boardVars, cable, writing, written, airVars, due>>

DaemonWrites ==
  /\ task # None
  /\ ~writing
  /\ writing' = TRUE
  /\ cable' = Append(cable, [reply |-> task, last |-> FALSE])
  /\ UNCHANGED <<chipVars, boardVars, inbox, task, age, written, airVars, due>>

\* The rest of the frame arrives.
DaemonWrote ==
  /\ writing
  /\ writing' = FALSE
  /\ cable' = Append(cable, [reply |-> task, last |-> TRUE])
  /\ written' = Append(written, task)
  /\ due' = IF age <= Budget THEN [due EXCEPT ![task.node] = task.no] ELSE due
  /\ task' = None
  /\ UNCHANGED <<chipVars, boardVars, inbox, age, airVars>>

\* SerialDownlinkSink.send() catches a dead port: the packet goes unanswered.
WriteFails ==
  /\ task # None
  /\ ~writing
  /\ task' = None
  /\ UNCHANGED <<chipVars, boardVars, cable, inbox, age, writing, written, airVars, due>>

\* The daemon restarts: open_port() flushes whatever the board had said.
DaemonRestarts ==
  /\ ~writing
  /\ task # None \/ inbox # <<>>
  /\ task' = None
  /\ inbox' = <<>>
  /\ UNCHANGED <<chipVars, boardVars, cable, age, writing, written, airVars, due>>

-----------------------------------------------------------------------------
(* Time *)

BoardReady ==
  \/ pc = "loop" /\ (cable # <<>> \/ rxBuf # None)
  \/ pc = "await" /\ WaitTurns
  \/ pc = "tx" /\ airLeft = 0
  \/ pc = "rearm"

DaemonReady ==
  \/ task = None /\ inbox # <<>>
  \/ task # None /\ age = DaemonMax

NodeReady == \E n \in Sending \cup Listening : node[n].left = 0

Less(t) == IF t = 0 THEN 0 ELSE t - 1

Tick ==
  /\ ~BoardReady /\ ~DaemonReady /\ ~NodeReady
  /\ node' = [n \in Nodes |-> [node[n] EXCEPT !.left = Less(@)]]
  /\ wait' = Less(wait)
  /\ airLeft' = Less(airLeft)
  /\ age' = IF task = None THEN 0 ELSE age + 1
  /\ UNCHANGED <<chipVars, pc, relaying, half, relayed, cable, inbox, task, writing, written,
                 sent, intact, tuned, reached, due>>

-----------------------------------------------------------------------------
Radio == Transmitted \/ TransmitFails \/ Rearm
Loop == Pump \/ Poll \/ AwaitByte \/ AwaitExpires
Daemon == DaemonTakes \/ DaemonWrites \/ DaemonWrote \/ WriteFails \/ DaemonRestarts
Node(n) == NodeSends(n) \/ NodeSent(n) \/ WindowCloses(n)

Next == Radio \/ Loop \/ Daemon \/ (\E n \in Nodes : Node(n)) \/ Tick

Spec == Init /\ [][Next]_vars

\* The board's loop never stops, time passes, a frame begun reaches the board,
\* and a packet's time on the air and a window end.
FairSpec ==
  /\ Spec
  /\ WF_vars(Transmitted \/ Rearm) /\ WF_vars(Loop) /\ WF_vars(Tick)
  /\ WF_vars(DaemonTakes) /\ WF_vars(DaemonWrote) /\ WF_vars(DaemonWrites \/ WriteFails)
  /\ \A n \in Nodes : WF_vars(NodeSent(n) \/ WindowCloses(n))

-----------------------------------------------------------------------------
(* Properties *)

RadioTyped ==
  /\ up \in BOOLEAN
  /\ chip \in {"off", "rx", "tx", "standby"}
  /\ rxBuf \in [packet : Packet, ok : BOOLEAN] \cup {None}
BoardTyped ==
  /\ pc \in {"loop", "await", "tx", "rearm"}
  /\ wait \in 0 .. ReplyWindow /\ airLeft \in 0 .. DownAir
  /\ relaying \in Packet \cup {None} /\ half \in Packet \cup {None}
  /\ relaying # None <=> pc = "tx"
  /\ relayed \in Seq(Packet)
  /\ cable \in Seq([reply : Packet, last : BOOLEAN])
DaemonTyped ==
  /\ task \in Packet \cup {None} /\ age \in 0 .. DaemonMax
  /\ writing \in BOOLEAN /\ writing => task # None
  /\ inbox \in Seq(Packet) /\ written \in Seq(Packet)
AirTyped ==
  /\ node \in [Nodes -> [doing : {"asleep", "sending", "listening"}, left : Nat]]
  /\ sent \in [Nodes -> 0 .. MaxPackets] /\ due \in [Nodes -> 0 .. MaxPackets]
  /\ reached \in [Nodes -> 0 .. MaxPackets]
  /\ intact \subseteq Nodes /\ tuned \subseteq Nodes
\* Every variable has its type; a reply is being relayed exactly while the radio
\* transmits, and half a reply written is half of the one being answered.
TypeOK == RadioTyped /\ BoardTyped /\ DaemonTyped /\ AirTyped

\* A gateway whose radio came up is in receive whenever it is not in the middle
\* of a send, failed sends included: it never goes deaf after a downlink (the
\* seam's invariant, iradio.h:76-89; sx1262_radio.cpp:32-40).
NeverDeaf == up /\ pc \in {"loop", "await"} => chip = "rx"

\* A node whose packet was answered within the daemon's budget had the answer
\* wholly on the air inside the window it held for it (gateway/main.cpp:58-69).
AnsweredInTime ==
  \A n \in Nodes :
    /\ node[n].doing = "asleep"
    /\ up
    /\ sent[n] > 0
    /\ due[n] = sent[n]
    => reached[n] = sent[n]

\* Replies are handed to the radio in the order they were written, each once, and
\* none is missing when the cable is empty: a frame that straddles the reply window
\* and the idle pump, or two windows, is not lost (gateway/main.cpp:104-139).
RepliesInOrder ==
  /\ Len(relayed) <= Len(written)
  /\ relayed = SubSeq(written, 1, Len(relayed))
  /\ cable = <<>> => relayed = written

\* Every packet that lands is read out, a corrupt one too: no stale packet keeps
\* the poll from the next (sx1262_radio.cpp:112-116), and no reply window, failed
\* send or dead daemon keeps the board from its poll (gateway_bridge.cpp:22-31).
PollNeverWedges == (rxBuf # None) ~> (rxBuf = None)

\* Every reply written is in the end handed to the radio.
RepliesLeave == \A k \in 1 .. MaxPackets : (Len(written) >= k) ~> (Len(relayed) >= k)
=============================================================================
