-------------------------- MODULE GatewayBridgeProofs --------------------------
(***************************************************************************)
(* What holds of the gateway for any airtimes, windows and daemon, and, but *)
(* for the last theorem, for any number of nodes.                          *)
(*                                                                         *)
(* NeverDeaf is inductive as it stands: every action that takes the chip   *)
(* out of receive leaves the board inside a send, and the one way out of a *)
(* send is through Rearm.  TypeOK needs that a node which is sending has   *)
(* counted the packet it sends.  That an answer in time reaches its node's *)
(* window (Prompt) follows one packet and its answer through the board,    *)
(* clock by clock; it is a promise to a node alone on the air.             *)
(***************************************************************************)
EXTENDS GatewayBridge, TLAPS

CountedWhenSent == \A n \in Nodes : node[n].doing = "sending" => sent[n] > 0
Typed == TypeOK /\ CountedWhenSent

Half == [reply : Packet, last : BOOLEAN]
Doing == [doing : {"asleep", "sending", "listening"}, left : Nat]

-----------------------------------------------------------------------------
(* Types *)

USE TimesAssumption, NoneAssumption

LEMMA SequenceParts ==
  ASSUME NEW S, NEW s \in Seq(S)
  PROVE /\ s # <<>> => Head(s) \in S /\ Tail(s) \in Seq(S)
        /\ \A e \in S : Append(s, e) \in Seq(S)
OBVIOUS

LEMMA NodeUpdate ==
  ASSUME AirTyped, NEW n \in Nodes, NEW ticks \in Nat,
         NEW what \in {"asleep", "sending", "listening"}
  PROVE /\ Becomes(n, what, ticks) \in [Nodes -> Doing]
        /\ \A m \in Nodes : m # n => Becomes(n, what, ticks)[m] = node[m]
        /\ Becomes(n, what, ticks)[n].doing = what
BY DEF AirTyped, Becomes, Doing

LEMMA RelayTyped ==
  ASSUME RadioTyped, BoardTyped, AirTyped, pc \in {"loop", "await"},
         NEW r \in Packet, Relay(r)
  PROVE /\ chip' \in {"off", "rx", "tx", "standby"}
        /\ pc' \in {"loop", "tx"}
        /\ airLeft' \in 0 .. DownAir
        /\ relaying' \in Packet \cup {None}
        /\ relaying' # None <=> pc' = "tx"
        /\ relayed' \in Seq(Packet)
        /\ intact' \subseteq Nodes /\ tuned' \subseteq Nodes
<1> USE DEF RadioTyped, BoardTyped, AirTyped
<1>1. relayed' \in Seq(Packet)
  BY DEF Relay
<1>2. CASE up
  BY <1>1, <1>2 DEF Relay, Listening
<1>3. CASE ~up
  BY <1>1, <1>3 DEF Relay
<1> QED
  BY <1>2, <1>3

LEMMA FeedTyped ==
  ASSUME BoardTyped, Feed
  PROVE /\ half' \in Packet \cup {None}
        /\ cable' \in Seq([reply : Packet, last : BOOLEAN])
        /\ Completes => half \in Packet
<1>1. Head(cable) \in [reply : Packet, last : BOOLEAN] /\ Tail(cable) \in Seq([reply : Packet, last : BOOLEAN])
  BY SequenceParts DEF BoardTyped, Feed
<1> QED
  BY <1>1 DEF BoardTyped, Feed, Completes

\* A byte read by the pump or by the reply window.
LEMMA ReadTyped ==
  ASSUME Typed, Pump \/ AwaitByte
  PROVE Typed'
<1> USE DEF Typed, TypeOK
<1>1. Feed /\ pc \in {"loop", "await"}
  BY DEF Pump, AwaitByte
<1>2. CASE Completes /\ Relay(half)
  <2>1. half \in Packet
    BY <1>1, <1>2, FeedTyped
  <2>2. BoardTyped' /\ RadioTyped' /\ AirTyped'
    BY <1>1, <1>2, <2>1, FeedTyped, RelayTyped
    DEF Pump, AwaitByte, BoardTyped, RadioTyped, AirTyped
  <2> QED
    BY <2>2 DEF Pump, AwaitByte, daemonVars, DaemonTyped, CountedWhenSent
<1>3. CASE ~(Completes /\ Relay(half))
  BY <1>1, <1>3, FeedTyped
  DEF Pump, AwaitByte, daemonVars, BoardTyped, RadioTyped, AirTyped, DaemonTyped, CountedWhenSent
<1> QED
  BY <1>2, <1>3

LEMMA NodesTyped ==
  ASSUME Typed, NEW n \in Nodes, Node(n)
  PROVE Typed'
<1> USE DEF Typed, TypeOK, RadioTyped, AirTyped, CountedWhenSent, chipVars, boardVars, daemonVars
<1>1. CASE NodeSends(n)
  BY <1>1 DEF NodeSends, Becomes, BoardTyped, DaemonTyped
<1>2. CASE NodeSent(n)
  <2>1. PacketOf(n) \in Packet
    BY <1>2 DEF NodeSent, PacketOf, Packet
  <2> QED
    <3>1. RadioTyped'
      BY <1>2, <2>1 DEF NodeSent
    <3>2. node' \in [Nodes -> Doing]
      BY <1>2, NodeUpdate DEF NodeSent
    <3>3. AirTyped'
      BY <1>2, <3>2 DEF NodeSent, Doing
    <3>4. CountedWhenSent'
      <4>1. \A m \in Nodes : m # n => node'[m] = node[m]
        BY <1>2 DEF NodeSent, Becomes
      <4>2. node'[n].doing = "listening"
        BY <1>2 DEF NodeSent, Becomes
      <4> QED
        BY <1>2, <4>1, <4>2 DEF NodeSent
    <3> QED
      BY <1>2, <3>1, <3>3, <3>4 DEF NodeSent, BoardTyped, DaemonTyped
<1>3. CASE WindowCloses(n)
  BY <1>3 DEF WindowCloses, Becomes, BoardTyped, DaemonTyped
<1> QED
  BY <1>1, <1>2, <1>3 DEF Node

LEMMA DaemonStepTyped ==
  ASSUME Typed, Daemon
  PROVE Typed'
<1> USE DEF Typed, TypeOK
<1> USE DEF chipVars, boardVars, airVars
<1>1. RadioTyped'
  BY DEF Daemon, DaemonTakes, DaemonWrites, DaemonWrote, WriteFails, DaemonRestarts, RadioTyped
<1>2. AirTyped' /\ CountedWhenSent'
  <2>1. CASE DaemonWrote
    BY <2>1 DEF DaemonWrote, AirTyped, DaemonTyped, CountedWhenSent, Packet
  <2> QED
    BY <2>1 DEF Daemon, DaemonTakes, DaemonWrites, WriteFails, DaemonRestarts, AirTyped,
                CountedWhenSent
<1>3. BoardTyped'
  <2>1. CASE UNCHANGED cable
    BY <2>1 DEF Daemon, DaemonTakes, DaemonWrites, DaemonWrote, WriteFails, DaemonRestarts,
                BoardTyped
  <2>2. ASSUME NEW b \in BOOLEAN, task # None,
               cable' = Append(cable, [reply |-> task, last |-> b]), UNCHANGED boardVars
        PROVE BoardTyped'
    <3>1. cable' \in Seq([reply : Packet, last : BOOLEAN])
      BY <2>2, SequenceParts DEF BoardTyped, DaemonTyped
    <3> QED
      BY <2>2, <3>1 DEF BoardTyped
  <2>3. DaemonWrites \/ DaemonWrote => BoardTyped'
    BY <2>2 DEF DaemonWrites, DaemonWrote, DaemonTyped
  <2> QED
    BY <2>1, <2>3 DEF Daemon, DaemonTakes, WriteFails, DaemonRestarts
<1>4. DaemonTyped'
  <2>1. CASE DaemonTakes
    <3>1. Head(inbox) \in Packet /\ Tail(inbox) \in Seq(Packet)
      BY <2>1, SequenceParts DEF DaemonTakes, DaemonTyped
    <3> QED
      BY <2>1, <3>1 DEF DaemonTakes, DaemonTyped
  <2>2. CASE DaemonWrites
    BY <2>2 DEF DaemonWrites, DaemonTyped
  <2>3. CASE DaemonWrote
    BY <2>3, SequenceParts DEF DaemonWrote, DaemonTyped
  <2>4. CASE WriteFails
    BY <2>4 DEF WriteFails, DaemonTyped
  <2>5. CASE DaemonRestarts
    BY <2>5 DEF DaemonRestarts, DaemonTyped
  <2> QED
    BY <2>1, <2>2, <2>3, <2>4, <2>5 DEF Daemon
<1> QED
  BY <1>1, <1>2, <1>3, <1>4

LEMMA TypedInvariant ==
  /\ Init => Typed
  /\ Typed /\ [Next]_vars => Typed'
<1>1. Init => Typed
  <2> SUFFICES ASSUME Init PROVE Typed
    OBVIOUS
  <2>1. RadioTyped
    <3>1. up \in BOOLEAN /\ chip \in {"off", "rx"} /\ rxBuf = None
      BY Zenon DEF Init
    <3> QED
      BY <3>1 DEF RadioTyped
  <2>2. BoardTyped
    BY DEF Init, BoardTyped
  <2>3. DaemonTyped
    BY DEF Init, DaemonTyped
  <2>4. AirTyped /\ CountedWhenSent
    BY DEF Init, AirTyped, CountedWhenSent
  <2> QED
    BY <2>1, <2>2, <2>3, <2>4 DEF Typed, TypeOK
<1>2. Typed /\ [Next]_vars => Typed'
  <2> SUFFICES ASSUME Typed, [Next]_vars PROVE Typed'
    OBVIOUS
  <2> USE DEF Typed, TypeOK
  <2>1. CASE Transmitted
    BY <2>1 DEF Transmitted, daemonVars, RadioTyped, BoardTyped, AirTyped, DaemonTyped,
                CountedWhenSent, Packet
  <2>2. CASE TransmitFails
    <3>1. AirTyped' /\ CountedWhenSent'
      BY <2>2 DEF TransmitFails, BoardTyped, AirTyped, CountedWhenSent, Packet
    <3> QED
      BY <2>2, <3>1 DEF TransmitFails, daemonVars, RadioTyped, BoardTyped, DaemonTyped
  <2>3. CASE Rearm
    BY <2>3 DEF Rearm, daemonVars, airVars, RadioTyped, BoardTyped, AirTyped, DaemonTyped,
                CountedWhenSent
  <2>4. CASE Pump \/ AwaitByte
    BY <2>4, ReadTyped
  <2>5. CASE Poll
    <3>1. inbox' \in Seq(Packet)
      BY <2>5, SequenceParts DEF Poll, RadioTyped, DaemonTyped
    <3> QED
      BY <2>5, <3>1 DEF Poll, ReadOut, daemonVars, airVars, RadioTyped, BoardTyped, AirTyped,
                        DaemonTyped, CountedWhenSent
  <2>6. CASE AwaitExpires
    BY <2>6 DEF AwaitExpires, chipVars, daemonVars, airVars, RadioTyped, BoardTyped, AirTyped,
                DaemonTyped, CountedWhenSent
  <2>7. CASE Daemon
    BY <2>7, DaemonStepTyped
  <2>8. CASE \E n \in Nodes : Node(n)
    BY <2>8, NodesTyped
  <2>9. CASE Tick
    <3>1. RadioTyped' /\ BoardTyped'
      BY <2>9 DEF Tick, Less, chipVars, RadioTyped, BoardTyped
    <3>2. DaemonTyped'
      BY <2>9 DEF Tick, DaemonReady, DaemonTyped
    <3>3. \A n \in Nodes : [node[n] EXCEPT !.left = Less(@)] \in Doing
      BY DEF AirTyped, Doing, Less
    <3>4. AirTyped'
      BY <2>9, <3>3 DEF Tick, AirTyped, Doing
    <3>5. CountedWhenSent'
      BY <2>9 DEF Tick, CountedWhenSent, AirTyped
    <3> QED
      BY <3>1, <3>2, <3>4, <3>5
  <2>10. CASE UNCHANGED vars
    BY <2>10 DEF vars, chipVars, boardVars, daemonVars, airVars, RadioTyped, BoardTyped,
                 AirTyped, DaemonTyped, CountedWhenSent
  <2> QED
    BY <2>1, <2>2, <2>3, <2>4, <2>5, <2>6, <2>7, <2>8, <2>9, <2>10 DEF Next, Radio, Loop
<1> QED
  BY <1>1, <1>2

\* Type correctness of the whole gateway, for any constants.
THEOREM TypeCorrect == Spec => []TypeOK
<1>1. Typed => TypeOK
  BY DEF Typed
<1> QED
  BY <1>1, TypedInvariant, PTL DEF Spec

-----------------------------------------------------------------------------
(* Deafness *)

\* The first step leaves a gateway that came up in receive, and every step keeps it
\* so outside a send.
THEOREM DeafnessImpossible == Spec => []NeverDeaf
<1>1. Init => NeverDeaf
  BY DEF Init, NeverDeaf
<1>2. NeverDeaf /\ [Next]_vars => NeverDeaf'
  <2> SUFFICES ASSUME NeverDeaf, [Next]_vars PROVE NeverDeaf'
    OBVIOUS
  <2> USE DEF NeverDeaf
  <2>1. CASE Radio
    BY <2>1 DEF Radio, Transmitted, TransmitFails, Rearm
  <2>2. CASE Loop
    <3>1. CASE Pump
      BY <3>1 DEF Pump, Relay
    <3>2. CASE Poll
      BY <3>2 DEF Poll
    <3>3. CASE AwaitByte
      BY <3>3 DEF AwaitByte, Relay
    <3>4. CASE AwaitExpires
      BY <3>4 DEF AwaitExpires, chipVars
    <3> QED
      BY <2>2, <3>1, <3>2, <3>3, <3>4 DEF Loop
  <2>3. CASE Daemon
    BY <2>3 DEF Daemon, DaemonTakes, DaemonWrites, DaemonWrote, WriteFails,
                DaemonRestarts, chipVars, boardVars
  <2>4. CASE \E n \in Nodes : Node(n)
    BY <2>4 DEF Node, NodeSends, NodeSent, WindowCloses, chipVars, boardVars
  <2>5. CASE Tick
    BY <2>5 DEF Tick, chipVars
  <2>6. CASE UNCHANGED vars
    BY <2>6 DEF vars, chipVars, boardVars
  <2> QED
    BY <2>1, <2>2, <2>3, <2>4, <2>5, <2>6 DEF Next
<1> QED
  BY <1>1, <1>2, PTL DEF Spec

-----------------------------------------------------------------------------
(* Order *)

\* All replies begun, and the place of the reader in the stream of their halves:
\* the halves behind it are in `relayed` or in `half`, the ones before it are on
\* the cable.
Begun == IF writing THEN Append(written, task) ELSE written
Place == 2 * Len(relayed) + (IF half = None THEN 0 ELSE 1)
Unfinished == IF writing THEN 1 ELSE 0

\* c holds the halves of the replies b from the place p on.
HalvesFrom(p, c, b) ==
  \A i \in 1 .. Len(c), k \in 1 .. Len(b) :
    /\ p + i = 2 * k - 1 => c[i] = [reply |-> b[k], last |-> FALSE]
    /\ p + i = 2 * k => c[i] = [reply |-> b[k], last |-> TRUE]

InStep ==
  /\ Place + Len(cable) = 2 * Len(written) + Unfinished
  /\ \A k \in 1 .. Len(relayed) : k <= Len(written) => relayed[k] = written[k]
  /\ half # None => half = Begun[Len(relayed) + 1]
  /\ HalvesFrom(Place, cable, Begun)

LEMMA AppendFacts ==
  ASSUME NEW S, NEW s \in Seq(S), NEW e \in S
  PROVE /\ Append(s, e) \in Seq(S) /\ Len(Append(s, e)) = Len(s) + 1
        /\ \A i \in 1 .. Len(s) : Append(s, e)[i] = s[i]
        /\ Append(s, e)[Len(s) + 1] = e
OBVIOUS

LEMMA TailFacts ==
  ASSUME NEW S, NEW s \in Seq(S), s # <<>>
  PROVE /\ Tail(s) \in Seq(S) /\ Len(Tail(s)) = Len(s) - 1 /\ Head(s) = s[1]
        /\ Len(s) \in Nat \ {0}
        /\ \A i \in 1 .. Len(Tail(s)) : Tail(s)[i] = s[i + 1]
OBVIOUS

LEMMA Types ==
  ASSUME Typed
  PROVE /\ cable \in Seq(Half) /\ relayed \in Seq(Packet) /\ written \in Seq(Packet)
        /\ Len(cable) \in Nat /\ Len(relayed) \in Nat /\ Len(written) \in Nat
        /\ half \in Packet \cup {None} /\ Place \in Nat /\ Unfinished \in {0, 1}
        /\ writing => task \in Packet
<1>1. /\ cable \in Seq(Half) /\ relayed \in Seq(Packet) /\ written \in Seq(Packet)
      /\ half \in Packet \cup {None} /\ (writing => task \in Packet)
  BY DEF Typed, TypeOK, BoardTyped, DaemonTyped, Half
<1> QED
  BY <1>1 DEF Place, Unfinished

LEMMA BegunTyped ==
  ASSUME Typed
  PROVE /\ Begun \in Seq(Packet)
        /\ Len(Begun) = Len(written) + Unfinished
        /\ \A k \in 1 .. Len(written) : Begun[k] = written[k]
<1>1. CASE writing
  BY <1>1, Types, AppendFacts DEF Begun, Unfinished
<1>2. CASE ~writing
  BY <1>2, Types DEF Begun, Unfinished
<1> QED
  BY <1>1, <1>2

\* Reading one half moves the place on by one.
LEMMA HalfRead ==
  ASSUME NEW p \in Nat, NEW c \in Seq(Half), c # <<>>, NEW b \in Seq(Packet),
         HalvesFrom(p, c, b)
  PROVE HalvesFrom(p + 1, Tail(c), b)
<1> SUFFICES ASSUME NEW i \in 1 .. Len(Tail(c)), NEW k \in 1 .. Len(b)
             PROVE  /\ (p + 1) + i = 2 * k - 1 => Tail(c)[i] = [reply |-> b[k], last |-> FALSE]
                    /\ (p + 1) + i = 2 * k => Tail(c)[i] = [reply |-> b[k], last |-> TRUE]
  BY DEF HalvesFrom
<1>1. i + 1 \in 1 .. Len(c) /\ Tail(c)[i] = c[i + 1]
  BY TailFacts
<1>2. (p + 1) + i = p + (i + 1)
  OBVIOUS
<1> QED
  BY <1>1, <1>2 DEF HalvesFrom

\* Appending the half that comes next keeps the cable in step.
LEMMA HalfWritten ==
  ASSUME NEW p \in Nat, NEW c \in Seq(Half), NEW b \in Seq(Packet), NEW b2 \in Seq(Packet),
         HalvesFrom(p, c, b), NEW last \in BOOLEAN,
         Len(b2) \in {Len(b), Len(b) + 1}, \A k \in 1 .. Len(b) : b2[k] = b[k],
         Len(b2) > 0, last => Len(b2) = Len(b),
         p + Len(c) + 1 = 2 * Len(b2) - (IF last THEN 0 ELSE 1)
  PROVE HalvesFrom(p, Append(c, [reply |-> b2[Len(b2)], last |-> last]), b2)
<1> DEFINE e == [reply |-> b2[Len(b2)], last |-> last]
           c2 == Append(c, e)
<1>1. e \in Half
  BY DEF Half
<1>2. Len(c2) = Len(c) + 1 /\ c2[Len(c) + 1] = e /\ \A i \in 1 .. Len(c) : c2[i] = c[i]
  BY <1>1, AppendFacts
<1> SUFFICES ASSUME NEW i \in 1 .. Len(c2), NEW k \in 1 .. Len(b2)
             PROVE  /\ p + i = 2 * k - 1 => c2[i] = [reply |-> b2[k], last |-> FALSE]
                    /\ p + i = 2 * k => c2[i] = [reply |-> b2[k], last |-> TRUE]
  BY DEF HalvesFrom
<1> DEFINE L == Len(c)  L2 == Len(b2)
<1>a. L \in Nat /\ L2 \in Nat /\ Len(b) \in Nat
  OBVIOUS
<1>b. last => p + L + 1 = 2 * L2 /\ L2 = Len(b)
  OBVIOUS
<1>c. ~last => p + L + 2 = 2 * L2
  BY <1>a
<1> HIDE DEF c2, L, L2
<1>3. CASE i = L + 1
  <2>1. c2[i] = [reply |-> b2[L2], last |-> last]
    BY <1>2, <1>3 DEF L, L2
  <2>2. CASE last
    <3>1. /\ p + i # 2 * k - 1
          /\ p + i = 2 * k => k = L2
      BY <1>a, <1>b, <1>3, <2>2
    <3> QED
      BY <2>1, <2>2, <3>1
  <2>3. CASE ~last
    <3>1. /\ p + i # 2 * k
          /\ p + i = 2 * k - 1 => k = L2
      BY <1>a, <1>c, <1>3, <2>3
    <3> QED
      BY <2>1, <2>3, <3>1
  <2> QED
    BY <2>2, <2>3
<1>4. CASE i \in 1 .. L
  <2>1. p + i = 2 * k - 1 \/ p + i = 2 * k => k <= Len(b)
    <3>1. CASE last
      BY <1>a, <1>b, <3>1
    <3>2. CASE ~last
      BY <1>a, <1>c, <1>4, <3>2 DEF L2
    <3> QED
      BY <3>1, <3>2
  <2>2. k <= Len(b) => b2[k] = b[k]
    BY <1>a
  <2>3. c2[i] = c[i]
    BY <1>2, <1>4 DEF L
  <2> QED
    BY <1>a, <1>4, <2>1, <2>2, <2>3 DEF HalvesFrom, L
<1> QED
  BY <1>a, <1>2, <1>3, <1>4 DEF L

\* The half the reader takes is the next of the stream: a second half always
\* finds its first one held.
LEMMA FeedInStep ==
  ASSUME Typed, InStep, Feed, UNCHANGED <<written, writing, task>>,
         Completes => relayed' = Append(relayed, half),
         ~Completes => UNCHANGED relayed
  PROVE InStep'
<1> DEFINE R == Len(relayed)
<1>1. Begun' = Begun /\ Unfinished' = Unfinished
  BY DEF Begun, Unfinished
<1>2. /\ cable # <<>> /\ cable' = Tail(cable) /\ Len(cable') = Len(cable) - 1
      /\ Head(cable) = cable[1] /\ Len(cable) > 0
  BY Types, TailFacts DEF Feed
<1>3. Place + Len(cable) = Len(written) * 2 + Unfinished
  BY DEF InStep
<1>4. HalvesFrom(Place + 1, cable', Begun)
  BY <1>2, Types, BegunTyped, HalfRead DEF InStep
<1>5. CASE half = None
  <2>1. Place = 2 * R
    BY <1>5 DEF Place
  <2>2. R + 1 \in 1 .. Len(Begun)
    BY <1>2, <1>3, <2>1, Types, BegunTyped
  <2>3. cable[1] = [reply |-> Begun[R + 1], last |-> FALSE]
    <3>1. Place + 1 = 2 * (R + 1) - 1 /\ 1 \in 1 .. Len(cable)
      BY <1>2, <2>1, Types
    <3> QED
      BY <2>2, <3>1 DEF InStep, HalvesFrom
  <2>4. ~Completes /\ half' = Begun[R + 1] /\ half' \in Packet
    BY <1>2, <2>2, <2>3, BegunTyped DEF Completes, Feed
  <2>5. relayed' = relayed /\ Place' = Place + 1
    BY <2>1, <2>4, Types DEF Place
  <2> QED
    BY <1>1, <1>2, <1>3, <1>4, <2>4, <2>5, Types DEF InStep
<1>6. CASE half # None
  <2>1. Place = 2 * R + 1
    BY <1>6 DEF Place
  <2>2. R + 1 \in 1 .. Len(Begun) /\ R + 1 <= Len(written)
    BY <1>2, <1>3, <2>1, Types, BegunTyped
  <2>3. cable[1] = [reply |-> Begun[R + 1], last |-> TRUE]
    <3>1. Place + 1 = 2 * (R + 1) /\ 1 \in 1 .. Len(cable)
      BY <1>2, <2>1, Types
    <3> QED
      BY <2>2, <3>1 DEF InStep, HalvesFrom
  <2>4. half = Begun[R + 1] /\ half \in Packet
    BY <1>6, Types DEF InStep
  <2>5. Completes /\ half' = None /\ relayed' = Append(relayed, half)
    BY <1>2, <2>3, <2>4 DEF Completes, Feed
  <2>6. /\ Len(relayed') = R + 1 /\ relayed'[R + 1] = half
        /\ \A k \in 1 .. R : relayed'[k] = relayed[k]
    BY <2>4, <2>5, Types, AppendFacts
  <2>7. Place' = Place + 1
    <3>1. Place' = 2 * (R + 1)
      BY <2>5, <2>6, Types DEF Place
    <3> QED
      BY <2>1, <3>1, Types
  <2>8. \A k \in 1 .. Len(relayed') : k <= Len(written') => relayed'[k] = written'[k]
    <3> SUFFICES ASSUME NEW k \in 1 .. Len(relayed'), k <= Len(written)
                 PROVE  relayed'[k] = written[k]
      OBVIOUS
    <3>1. CASE k = R + 1
      BY <2>2, <2>4, <2>6, <3>1, BegunTyped, Types
    <3>2. CASE k \in 1 .. R
      BY <2>6, <3>2 DEF InStep
    <3> QED
      BY <2>6, <3>1, <3>2, Types
  <2> QED
    BY <1>1, <1>2, <1>3, <1>4, <2>5, <2>7, <2>8, Types DEF InStep
<1> QED
  BY <1>5, <1>6

\* The half the daemon writes is the next of the stream.
LEMMA WriteInStep ==
  ASSUME Typed, InStep, DaemonWrites \/ DaemonWrote
  PROVE InStep'
<1>1. Place' = Place /\ half' = half /\ relayed' = relayed
  BY DEF DaemonWrites, DaemonWrote, boardVars, Place
<1>2. /\ Len(Begun') \in {Len(Begun), Len(Begun) + 1} /\ Begun' \in Seq(Packet)
      /\ Len(Begun') > 0 /\ Begun'[Len(Begun')] = task
      /\ \A k \in 1 .. Len(Begun) : Begun'[k] = Begun[k]
      /\ Len(Begun') = Len(written') + Unfinished'
  <2>1. CASE DaemonWrites
    <3>1. /\ task \in Packet /\ Begun = written /\ Begun' = Append(written, task)
          /\ written' = written /\ Unfinished' = 1
      BY <2>1 DEF DaemonWrites, Begun, Unfinished, Typed, TypeOK, DaemonTyped
    <3> QED
      BY <3>1, Types, AppendFacts
  <2>2. CASE DaemonWrote
    <3>1. /\ task \in Packet /\ Begun = Append(written, task) /\ Begun' = Append(written, task)
          /\ written' = Append(written, task) /\ Unfinished' = 0
      BY <2>2 DEF DaemonWrote, Begun, Unfinished, Typed, TypeOK, DaemonTyped
    <3> QED
      BY <3>1, Types, AppendFacts
  <2> QED
    BY <2>1, <2>2
<1>3. PICK last \in BOOLEAN :
        /\ cable' = Append(cable, [reply |-> task, last |-> last])
        /\ Place + Len(cable) + 1 = 2 * Len(Begun') - (IF last THEN 0 ELSE 1)
        /\ 2 * Len(written') + Unfinished' = Place + Len(cable) + 1
        /\ task \in Packet
        /\ last => Len(Begun') = Len(Begun)
  <2> DEFINE C == Len(cable)  W == Len(written)
  <2>0. Place + C = 2 * W + Unfinished /\ C \in Nat /\ W \in Nat /\ Place \in Nat
    BY Types DEF InStep
  <2>1. CASE DaemonWrites
    <3>1. /\ task \in Packet /\ Unfinished = 0 /\ Unfinished' = 1 /\ written' = written
          /\ cable' = Append(cable, [reply |-> task, last |-> FALSE])
      BY <2>1 DEF DaemonWrites, Unfinished, Typed, TypeOK, DaemonTyped
    <3>2. Len(Begun') = W + 1
      BY <1>2, <2>0, <3>1
    <3> HIDE DEF C, W
    <3>3. Place + C + 1 = 2 * Len(Begun') - 1 /\ 2 * W + 1 = Place + C + 1
      BY <2>0, <3>1, <3>2
    <3> QED
      BY <3>1, <3>3 DEF C, W
  <2>2. CASE DaemonWrote
    <3>1. /\ task \in Packet /\ Unfinished = 1 /\ Unfinished' = 0
          /\ written' = Append(written, task) /\ Len(written') = Len(written) + 1
          /\ cable' = Append(cable, [reply |-> task, last |-> TRUE])
      BY <2>2, Types, AppendFacts DEF DaemonWrote, Unfinished, Typed, TypeOK, DaemonTyped
    <3>2. Len(Begun') = W + 1 /\ Len(Begun) = W + 1
      BY <1>2, <2>0, <3>1, BegunTyped
    <3> HIDE DEF C, W
    <3>3. Place + C + 1 = 2 * Len(Begun') - 0 /\ 2 * (W + 1) + 0 = Place + C + 1
      BY <2>0, <3>1, <3>2
    <3>4. 2 * Len(written') + Unfinished' = Place + Len(cable) + 1
      BY <3>1, <3>3 DEF C, W
    <3> WITNESS TRUE \in BOOLEAN
    <3> QED
      BY <3>1, <3>2, <3>3, <3>4 DEF C
  <2> QED
    BY <2>1, <2>2
<1>4. HalvesFrom(Place, cable', Begun')
  BY <1>2, <1>3, Types, BegunTyped, HalfWritten DEF InStep
<1>5. Len(cable') = Len(cable) + 1
  <2>1. [reply |-> task, last |-> last] \in Half
    BY <1>3 DEF Half
  <2> QED
    BY <1>3, <2>1, Types, AppendFacts
<1>6. half # None => half' = Begun'[Len(relayed') + 1]
  <2>1. half # None => Len(relayed) + 1 \in 1 .. Len(Begun)
    BY Types, BegunTyped DEF InStep, Place
  <2> QED
    BY <1>1, <1>2, <2>1 DEF InStep
<1>7. \A k \in 1 .. Len(relayed') : k <= Len(written') => relayed'[k] = written'[k]
  <2>1. Len(relayed) <= Len(written)
    BY Types DEF InStep, Place
  <2>2. \A k \in 1 .. Len(written) : written'[k] = written[k]
    <3>1. CASE DaemonWrites
      BY <3>1 DEF DaemonWrites
    <3>2. CASE DaemonWrote
      BY <1>3, <3>2, Types, AppendFacts DEF DaemonWrote
    <3> QED
      BY <3>1, <3>2
  <2> SUFFICES ASSUME NEW k \in 1 .. Len(relayed') PROVE relayed'[k] = written'[k]
    OBVIOUS
  <2>3. k \in 1 .. Len(relayed) /\ k \in 1 .. Len(written)
    BY <1>1, <2>1, Types
  <2> QED
    BY <1>1, <2>2, <2>3 DEF InStep
<1> QED
  BY <1>1, <1>3, <1>4, <1>5, <1>6, <1>7, Types DEF InStep

\* Whatever the timing of the daemon, the reply window and the pump, and however
\* many nodes there are, the replies reach the radio in the order the daemon wrote
\* them, none lost and none twice.
THEOREM RepliesReachTheRadioInOrder == Spec => []RepliesInOrder
<1>1. Init => InStep
  BY DEF Init, InStep, Place, Begun, Unfinished, HalvesFrom
<1>2. Init => Typed
  BY TypedInvariant
<1>3. Typed /\ InStep /\ [Next]_vars => InStep'
  <2> SUFFICES ASSUME Typed, InStep, [Next]_vars PROVE InStep'
    OBVIOUS
  <2>1. CASE Pump \/ AwaitByte
    <3>1. Feed /\ UNCHANGED <<written, writing, task>>
      BY <2>1 DEF Pump, AwaitByte, daemonVars
    <3>2. /\ Completes => relayed' = Append(relayed, half)
          /\ ~Completes => UNCHANGED relayed
      BY <2>1 DEF Pump, AwaitByte, Relay
    <3> QED
      BY <3>1, <3>2, FeedInStep
  <2>2. CASE DaemonWrites \/ DaemonWrote
    BY <2>2, WriteInStep
  <2>3. CASE UNCHANGED <<relayed, half, cable, written, writing>> /\ (writing => UNCHANGED task)
    <3>1. Begun' = Begun /\ Place' = Place /\ Unfinished' = Unfinished
      BY <2>3 DEF Begun, Place, Unfinished
    <3> QED
      BY <2>3, <3>1 DEF InStep
  <2>4. Radio \/ Poll \/ AwaitExpires \/ (\E n \in Nodes : Node(n)) \/ Tick \/ UNCHANGED vars
        => UNCHANGED <<relayed, half, cable, written, writing, task>>
    BY DEF Radio, Transmitted, TransmitFails, Rearm, Poll, AwaitExpires, Node, NodeSends,
           NodeSent, WindowCloses, Tick, vars, boardVars, daemonVars
  <2>5. DaemonTakes \/ WriteFails \/ DaemonRestarts
        => UNCHANGED <<relayed, half, cable, written, writing>> /\ (writing => UNCHANGED task)
    BY DEF DaemonTakes, WriteFails, DaemonRestarts, boardVars, Typed, TypeOK, DaemonTyped
  <2> QED
    BY <2>1, <2>2, <2>3, <2>4, <2>5 DEF Next, Loop, Daemon
<1>4. Typed /\ InStep => RepliesInOrder
  <2> SUFFICES ASSUME Typed, InStep PROVE RepliesInOrder
    OBVIOUS
  <2>1. /\ relayed \in Seq(Packet) /\ written \in Seq(Packet) /\ cable \in Seq(Half)
        /\ Len(relayed) \in Nat /\ Len(written) \in Nat /\ Len(cable) \in Nat
    BY Types
  <2>2. Len(relayed) <= Len(written)
    BY <2>1, Types DEF InStep, Place
  <2>3. relayed = SubSeq(written, 1, Len(relayed))
    BY <2>1, <2>2 DEF InStep
  <2>4. cable = <<>> => Len(relayed) = Len(written)
    BY <2>1, Types DEF InStep, Place
  <2>5. cable = <<>> => relayed = written
    BY <2>1, <2>3, <2>4
  <2> QED
    BY <2>2, <2>3, <2>5 DEF RepliesInOrder
<1> QED
  BY <1>1, <1>2, <1>3, <1>4, TypedInvariant, PTL DEF Spec

-----------------------------------------------------------------------------
(* The receive window *)

\* With one node, and a daemon and a reply window shorter than the node's cycle,
\* there is one packet at most between the chip and the cable, and the board is
\* free when the next one lands.
Cycle == NodeWindow + SleepMin + UpAir
OneInTime(n) ==
  /\ Nodes = {n}
  /\ Budget + DownAir < NodeWindow
  /\ DaemonMax < Cycle /\ ReplyWindow < Cycle

\* Ticks since the node's last packet ended, at least, unless a downlink has
\* closed its window since.
Since(n) ==
  CASE node[n].doing = "listening" -> NodeWindow - node[n].left
    [] node[n].doing = "asleep" -> NodeWindow + SleepMin - node[n].left
    [] OTHER -> Cycle - node[n].left

\* What a node does lasts no longer than it set out to.
Paced(n) ==
  /\ node[n].doing = "listening" => node[n].left <= NodeWindow
  /\ node[n].doing = "asleep" => node[n].left <= SleepMin
  /\ node[n].doing = "sending" => node[n].left <= UpAir

\* The last packet of the node to end.
Last(n) ==
  [node |-> n, no |-> IF node[n].doing = "sending" THEN sent[n] - 1 ELSE sent[n]]

Fresh(n) == node[n].doing = "listening" /\ node[n].left = NodeWindow
BoardFree == pc \in {"loop", "await"}
CableClear == cable = <<>> /\ half = None
First(r) == [reply |-> r, last |-> FALSE]
Second(r) == [reply |-> r, last |-> TRUE]

\* Where the one packet is.
Nowhere == rxBuf = None /\ inbox = <<>> /\ task = None /\ CableClear
Landed(n) ==
  /\ rxBuf # None /\ rxBuf.packet = Last(n) /\ inbox = <<>> /\ task = None /\ CableClear
  /\ Fresh(n) /\ pc = "loop"
HandedUp(n) ==
  /\ rxBuf = None /\ inbox = <<Last(n)>> /\ task = None /\ CableClear
  /\ Fresh(n) /\ BoardFree
Answered(n) ==
  /\ rxBuf = None /\ inbox = <<>> /\ task # None /\ task = Last(n)
  /\ \/ ~writing /\ CableClear
     \/ writing /\ cable = <<First(task)>> /\ half = None
     \/ writing /\ cable = <<>> /\ half = task
  /\ Since(n) <= age /\ BoardFree
Written(n) ==
  /\ rxBuf = None /\ inbox = <<>> /\ task = None
  /\ \/ cable = <<First(Last(n)), Second(Last(n))>> /\ half = None
     \/ cable = <<Second(Last(n))>> /\ half = Last(n)
  /\ Since(n) <= DaemonMax /\ BoardFree

OnePacket(n) == Nowhere \/ Landed(n) \/ HandedUp(n) \/ Answered(n) \/ Written(n)

\* A reply window still open was opened for the node's last packet.
WindowOpen(n) == pc = "await" => Since(n) <= ReplyWindow - wait

\* Only a chip in receive follows a packet, and only outside a send.
Followed ==
  /\ chip = "rx" => BoardFree
  /\ intact # {} => chip = "rx"

Numbered(n) ==
  /\ due[n] <= sent[n]
  /\ node[n].doing = "sending" => due[n] < sent[n]
  /\ relaying # None => relaying.no = sent[n] \/ due[n] < sent[n]

\* An answer in budget is in time: on the cable with all of its air time left in
\* the node's window, or on the air with the node tuned to it until its end.
OnTime(n) ==
  up /\ sent[n] > 0 /\ due[n] = sent[n] =>
    \/ reached[n] = sent[n]
    \/ Written(n) /\ node[n].doing = "listening" /\ node[n].left > DownAir
    \/ /\ pc = "tx" /\ n \in tuned
       /\ node[n].doing = "listening" /\ node[n].left > airLeft

Prompt(n) ==
  OnePacket(n) /\ WindowOpen(n) /\ Followed /\ Numbered(n) /\ OnTime(n) /\ Paced(n)

LEMMA NodeFacts ==
  ASSUME NEW n, OneInTime(n), Typed
  PROVE  /\ n \in Nodes /\ node[n].left \in Nat
         /\ node[n].doing \in {"asleep", "sending", "listening"}
         /\ sent[n] \in Nat /\ due[n] \in Nat /\ reached[n] \in Nat
         /\ wait \in Nat /\ airLeft \in Nat /\ age \in Nat /\ age <= DaemonMax
         /\ Since(n) \in Int
<1>1. n \in Nodes BY DEF OneInTime
<1>2. node[n] \in Doing BY <1>1 DEF Typed, TypeOK, AirTyped, Doing
<1>3. /\ node[n].left \in Nat
      /\ node[n].doing \in {"asleep", "sending", "listening"}
  BY <1>2 DEF Doing
<1>4. sent[n] \in Nat /\ due[n] \in Nat /\ reached[n] \in Nat
  BY <1>1 DEF Typed, TypeOK, AirTyped
<1>5. wait \in Nat /\ airLeft \in Nat /\ age \in Nat /\ age <= DaemonMax
  BY DEF Typed, TypeOK, BoardTyped, DaemonTyped
<1>6. Since(n) \in Int BY <1>3 DEF Since, Cycle
<1> QED BY <1>1, <1>3, <1>4, <1>5, <1>6

\* The node's part of the invariant moves only with the node.
LEMMA NodeStays ==
  ASSUME NEW n, UNCHANGED <<node, sent>>
  PROVE  /\ Since(n)' = Since(n) /\ Last(n)' = Last(n) /\ Fresh(n)' = Fresh(n)
         /\ Paced(n) => Paced(n)'
BY DEF Since, Last, Fresh, Paced

\* While the board is in a send there is no packet anywhere (a downlink is sent
\* from the pump or from the reply window, which it ends).
LEMMA NothingBehindSend ==
  ASSUME NEW n, OnePacket(n), ~BoardFree
  PROVE  Nowhere
BY DEF OnePacket, Landed, HandedUp, Answered, Written, BoardFree

LEMMA RadioPrompt ==
  ASSUME NEW n, OneInTime(n), Typed, Prompt(n), Radio
  PROVE  Prompt(n)'
<1> USE DEF Prompt
<1>1. ~BoardFree BY DEF Radio, Transmitted, TransmitFails, Rearm, BoardFree
<1>2. OnePacket(n)' /\ ~Written(n)
  <2>1. Nowhere BY <1>1, NothingBehindSend
  <2>2. Nowhere'
    BY <2>1 DEF Radio, Transmitted, TransmitFails, Rearm, Nowhere, CableClear, daemonVars
  <2> QED BY <1>1, <2>2 DEF OnePacket, Written
<1>3. WindowOpen(n)'
  BY DEF Radio, Transmitted, TransmitFails, Rearm, WindowOpen
<1>4. Followed'
  BY DEF Radio, Transmitted, TransmitFails, Rearm, Followed, BoardFree, airVars
<1>5. CASE Transmitted
  <2>1. relaying # None /\ relaying \in Packet /\ relaying.node = n
    BY <1>5 DEF Transmitted, Typed, TypeOK, BoardTyped, OneInTime, Packet
  <2>2. Numbered(n)'
    <3>1. node'[n].doing = "sending" => node[n].doing = "sending"
      BY <1>5, NodeFacts DEF Transmitted
    <3> QED BY <1>5, <3>1 DEF Transmitted, Numbered
  <2>3. OnTime(n)'
    <3> SUFFICES ASSUME up, sent[n] > 0, due[n] = sent[n]
                 PROVE  reached'[n] = sent[n]
      BY <1>5 DEF Transmitted, OnTime
    <3>1. relaying.no = sent[n] BY <2>1, NodeFacts DEF Numbered
    <3>2. reached[n] = sent[n] \/ n \in tuned BY <1>2 DEF OnTime
    <3> QED BY <1>5, <2>1, <3>1, <3>2, NodeFacts DEF Transmitted
  <2>4. Paced(n)'
    <3>1. \/ node'[n] = node[n]
          \/ node'[n] = [doing |-> "asleep", left |-> SleepMin]
      BY <1>5, NodeFacts DEF Transmitted
    <3> QED BY <3>1 DEF Paced
  <2> QED BY <1>2, <1>3, <1>4, <2>2, <2>3, <2>4
<1>6. CASE TransmitFails
  <2>1. relaying \in Packet /\ relaying.node = n
    BY <1>6 DEF TransmitFails, Typed, TypeOK, BoardTyped, OneInTime, Packet
  <2>2. due'[n] = 0 BY <1>6, <2>1, NodeFacts DEF TransmitFails, Typed, TypeOK, AirTyped
  <2>3. Numbered(n)'
    BY <1>6, <2>2, NodeFacts DEF TransmitFails, Numbered, Typed, CountedWhenSent
  <2>4. OnTime(n)' BY <1>6, <2>2, NodeFacts DEF TransmitFails, OnTime
  <2>5. Paced(n)' BY <1>6, NodeStays DEF TransmitFails
  <2> QED BY <1>2, <1>3, <1>4, <2>3, <2>4, <2>5
<1>7. CASE Rearm
  <2>1. Numbered(n)' BY <1>7 DEF Rearm, Numbered, airVars
  <2>2. OnTime(n)' BY <1>2, <1>7 DEF Rearm, OnTime, airVars
  <2>3. Paced(n)' BY <1>7, NodeStays DEF Rearm, airVars
  <2> QED BY <1>2, <1>3, <1>4, <2>1, <2>2, <2>3
<1> QED BY <1>5, <1>6, <1>7 DEF Radio

LEMMA ShortSequences ==
  ASSUME NEW a, NEW b
  PROVE  /\ <<a>> # <<>> /\ Head(<<a>>) = a /\ Tail(<<a>>) = <<>>
         /\ <<a, b>> # <<>> /\ Head(<<a, b>>) = a /\ Tail(<<a, b>>) = <<b>>
         /\ Append(<<>>, a) = <<a>> /\ Append(<<a>>, b) = <<a, b>>
<1> DEFINE s == Append(<<a>>, b)
<1>1. /\ <<a>> # <<>> /\ Head(<<a>>) = a /\ Tail(<<a>>) = <<>>
      /\ <<a, b>> # <<>> /\ Head(<<a, b>>) = a /\ Tail(<<a, b>>) = <<b>>
      /\ Append(<<>>, a) = <<a>>
  OBVIOUS
<1>2. <<a>> \in Seq({a, b}) /\ Len(<<a>>) = 1 /\ <<a>>[1] = a
  OBVIOUS
<1>3. s \in Seq({a, b}) /\ Len(s) = 2 /\ s[1] = a /\ s[2] = b
  BY <1>2
<1>4. /\ <<a, b>> \in Seq({a, b}) /\ Len(<<a, b>>) = 2
      /\ <<a, b>>[1] = a /\ <<a, b>>[2] = b
  OBVIOUS
<1> HIDE DEF s
<1>5. s = <<a, b>> BY <1>3, <1>4
<1> QED BY <1>1, <1>5 DEF s

\* What a byte read finds on the cable: a half of the one answer.
LEMMA HalfFound ==
  ASSUME NEW n, Typed, OnePacket(n), Feed
  PROVE  \/ /\ Answered(n) /\ writing /\ task # None
            /\ ~Completes /\ cable' = <<>> /\ half' = task
         \/ /\ Written(n) /\ task = None
            /\ ~Completes /\ cable' = <<Second(Last(n))>> /\ half' = Last(n)
         \/ /\ Written(n) /\ task = None
            /\ Completes /\ half = Last(n) /\ cable' = <<>> /\ half' = None
<1>1. /\ cable # <<>> /\ cable' = Tail(cable)
      /\ half' = IF Head(cable).last THEN None ELSE Head(cable).reply
  BY DEF Feed
<1>2. CASE Answered(n)
  <2>1. writing /\ cable = <<First(task)>> BY <1>1, <1>2 DEF Answered, CableClear
  <2>2. Head(cable) = First(task) /\ Tail(cable) = <<>> BY <2>1, ShortSequences
  <2>3. task # None BY <2>1 DEF Typed, TypeOK, DaemonTyped
  <2> QED BY <1>1, <1>2, <2>1, <2>2, <2>3 DEF Completes, First
<1>3. CASE Written(n)
  <2>1. CASE cable = <<First(Last(n)), Second(Last(n))>>
    <3>1. Head(cable) = First(Last(n)) /\ Tail(cable) = <<Second(Last(n))>>
      BY <2>1, ShortSequences
    <3> QED BY <1>1, <1>3, <3>1 DEF Completes, First, Written
  <2>2. CASE cable = <<Second(Last(n))>> /\ half = Last(n)
    <3>1. Head(cable) = Second(Last(n)) /\ Tail(cable) = <<>>
      BY <2>2, ShortSequences
    <3> QED BY <1>1, <1>3, <2>2, <3>1 DEF Completes, Second, Written
  <2> QED BY <1>3, <2>1, <2>2 DEF Written
<1> QED BY <1>1, <1>2, <1>3 DEF OnePacket, Nowhere, Landed, HandedUp, CableClear

LEMMA ReadPrompt ==
  ASSUME NEW n, OneInTime(n), Typed, Prompt(n), Pump \/ AwaitByte
  PROVE  Prompt(n)'
<1> USE DEF Prompt
<1>1. /\ Feed /\ BoardFree
      /\ UNCHANGED <<up, rxBuf, wait, inbox, task, age, writing, node, sent, reached, due>>
  BY DEF Pump, AwaitByte, BoardFree, daemonVars
<1>2. Since(n)' = Since(n) /\ Last(n)' = Last(n) /\ Paced(n)' BY <1>1, NodeStays
<1>3. \/ Completes /\ Relay(half)
      \/ /\ ~Completes /\ pc' \in {"loop", pc}
         /\ UNCHANGED <<relayed, chip, relaying, airLeft, intact, tuned>>
  BY DEF Pump, AwaitByte
<1>4. CASE ~Completes
  <2>1. /\ pc' \in {"loop", pc} /\ BoardFree'
        /\ UNCHANGED <<chip, relaying, airLeft, intact, tuned>>
    BY <1>1, <1>3, <1>4 DEF BoardFree
  <2>2. OnePacket(n)' /\ (Written(n) => Written(n)')
    <3>1. CASE /\ Answered(n) /\ writing /\ task # None
               /\ cable' = <<>> /\ half' = task
      <4>1. Answered(n)' BY <1>1, <1>2, <2>1, <3>1 DEF Answered
      <4> QED BY <3>1, <4>1 DEF OnePacket, Written
    <3>2. CASE Written(n) /\ cable' = <<Second(Last(n))>> /\ half' = Last(n)
      <4>1. Written(n)' BY <1>1, <1>2, <2>1, <3>2 DEF Written, Second
      <4> QED BY <4>1 DEF OnePacket
    <3> QED BY <1>1, <1>4, <3>1, <3>2, HalfFound
  <2>3. WindowOpen(n)' BY <1>1, <1>2, <2>1 DEF WindowOpen
  <2>4. Followed' BY <2>1 DEF Followed
  <2>5. Numbered(n)' BY <1>1, <2>1 DEF Numbered
  <2>6. OnTime(n)' BY <1>1, <2>1, <2>2 DEF OnTime, BoardFree
  <2> QED BY <1>2, <2>2, <2>3, <2>4, <2>5, <2>6
<1>5. CASE Completes
  <2>1. /\ Written(n) /\ half = Last(n) /\ cable' = <<>> /\ half' = None
    BY <1>1, <1>5, HalfFound
  <2>2. Relay(Last(n)) BY <1>3, <1>5, <2>1
  <2>3. OnePacket(n)'
    BY <1>1, <2>1 DEF Written, OnePacket, Nowhere, CableClear
  <2>4. WindowOpen(n)' BY <2>2 DEF Relay, WindowOpen
  <2>5. Followed' BY <1>1, <2>2 DEF Relay, Followed, BoardFree
  <2>6. relaying = None BY <1>1 DEF BoardFree, Typed, TypeOK, BoardTyped
  <2>7. Numbered(n)'
    <3>1. relaying' = Last(n) \/ relaying' = None BY <2>2, <2>6 DEF Relay
    <3>2. Last(n).no = IF node[n].doing = "sending" THEN sent[n] - 1 ELSE sent[n]
      BY DEF Last
    <3> QED BY <1>1, <3>1, <3>2 DEF Numbered
  <2>8. OnTime(n)'
    <3> SUFFICES ASSUME up, sent[n] > 0, due[n] = sent[n], reached[n] # sent[n]
                 PROVE  /\ pc' = "tx" /\ n \in tuned'
                        /\ node[n].doing = "listening" /\ node[n].left > airLeft'
      BY <1>1 DEF OnTime
    <3>1. node[n].doing = "listening" /\ node[n].left > DownAir
      BY <1>1 DEF OnTime, BoardFree
    <3>2. pc' = "tx" /\ airLeft' = DownAir /\ tuned' = Listening BY <2>2 DEF Relay
    <3> QED BY <3>1, <3>2, NodeFacts DEF Listening
  <2> QED BY <1>2, <2>3, <2>4, <2>5, <2>7, <2>8
<1> QED BY <1>4, <1>5

LEMMA PollPrompt ==
  ASSUME NEW n, OneInTime(n), Typed, Prompt(n), Poll
  PROVE  Prompt(n)'
<1> USE DEF Prompt
<1>1. /\ pc = "loop" /\ rxBuf # None /\ rxBuf' = None
      /\ UNCHANGED <<up, chip, relaying, airLeft, half, cable, task, age, writing, node,
                     sent, intact, tuned, reached, due>>
  BY DEF Poll, ReadOut, daemonVars, airVars
<1>2. Since(n)' = Since(n) /\ Last(n)' = Last(n) /\ Fresh(n)' = Fresh(n) /\ Paced(n)'
  BY <1>1, NodeStays
<1>3. Landed(n) BY <1>1 DEF OnePacket, Nowhere, HandedUp, Answered, Written
<1>4. BoardFree' /\ BoardFree BY <1>1 DEF Poll, BoardFree
<1>5. OnePacket(n)' /\ ~Written(n)
  <2>1. CASE rxBuf.ok
    <3>1. inbox' = <<Last(n)>> BY <1>3, <2>1 DEF Poll, Landed
    <3>2. HandedUp(n)' BY <1>1, <1>2, <1>3, <1>4, <3>1 DEF HandedUp, Landed, CableClear
    <3> QED BY <1>1, <3>2 DEF OnePacket, Written
  <2>2. CASE ~rxBuf.ok
    <3>1. inbox' = inbox BY <2>2 DEF Poll
    <3>2. Nowhere' BY <1>1, <1>3, <3>1 DEF Nowhere, Landed, CableClear
    <3> QED BY <1>1, <3>2 DEF OnePacket, Written
  <2> QED BY <2>1, <2>2
<1>6. WindowOpen(n)'
  <2>1. Since(n) = 0 BY <1>3 DEF Landed, Fresh, Since
  <2>2. pc' = "await" => wait' = ReplyWindow BY <1>1 DEF Poll
  <2> QED BY <1>2, <2>1, <2>2 DEF WindowOpen
<1>7. Followed' BY <1>1, <1>4 DEF Followed
<1>8. Numbered(n)' BY <1>1 DEF Numbered
<1>9. OnTime(n)' BY <1>1, <1>5 DEF OnTime
<1> QED BY <1>2, <1>5, <1>6, <1>7, <1>8, <1>9

LEMMA ExpiresPrompt ==
  ASSUME NEW n, OneInTime(n), Typed, Prompt(n), AwaitExpires
  PROVE  Prompt(n)'
<1> USE DEF Prompt
<1>1. /\ pc = "await" /\ pc' = "loop"
      /\ UNCHANGED <<up, chip, rxBuf, inbox, relaying, airLeft, half, cable, task, age,
                     writing, node, sent, intact, tuned, reached, due>>
  BY DEF AwaitExpires, chipVars, daemonVars, airVars
<1>2. Since(n)' = Since(n) /\ Last(n)' = Last(n) /\ Fresh(n)' = Fresh(n) /\ Paced(n)'
  BY <1>1, NodeStays
<1>3. /\ Nowhere => Nowhere'
      /\ HandedUp(n) => HandedUp(n)'
      /\ Answered(n) => Answered(n)'
      /\ Written(n) => Written(n)'
      /\ ~Landed(n)
  BY <1>1, <1>2 DEF Nowhere, HandedUp, Answered, Written, Landed, CableClear, BoardFree,
                    First, Second
<1>4. OnePacket(n)' BY <1>3 DEF OnePacket
<1>5. WindowOpen(n)' /\ Followed' /\ Numbered(n)'
  BY <1>1 DEF WindowOpen, Followed, Numbered, BoardFree
<1>6. OnTime(n)' BY <1>1, <1>3 DEF OnTime
<1> QED BY <1>2, <1>4, <1>5, <1>6

\* The daemon: an answer begun is finished, and one finished within the budget
\* finds the node listening with the answer's air time left.
LEMMA DaemonPrompt ==
  ASSUME NEW n, OneInTime(n), Typed, Prompt(n), Daemon
  PROVE  Prompt(n)'
<1> USE DEF Prompt
<1>1. UNCHANGED <<up, chip, rxBuf, pc, wait, relaying, airLeft, half, node, sent, intact,
                  tuned, reached>>
  BY DEF Daemon, DaemonTakes, DaemonWrites, DaemonWrote, WriteFails, DaemonRestarts,
         chipVars, boardVars, airVars
<1>2. Since(n)' = Since(n) /\ Last(n)' = Last(n) /\ Fresh(n)' = Fresh(n) /\ Paced(n)'
      /\ BoardFree' = BoardFree
  BY <1>1, NodeStays DEF BoardFree
<1>3. WindowOpen(n)' /\ Followed' /\ Paced(n)' BY <1>1, <1>2 DEF WindowOpen, Followed
<1>4. n \in Nodes /\ Since(n) \in Int BY NodeFacts
<1>5. CASE DaemonTakes
  <2>1. /\ HandedUp(n) /\ inbox # <<>> /\ task' = Head(inbox) /\ inbox' = Tail(inbox)
        /\ age' = 0 /\ UNCHANGED <<cable, writing, due>>
    BY <1>5 DEF DaemonTakes, OnePacket, Nowhere, Landed, Answered, Written
  <2>2. task' = Last(n) /\ inbox' = <<>> BY <2>1, ShortSequences DEF HandedUp
  <2>3. ~writing /\ task' # None
    <3>1. inbox \in Seq(Packet) BY DEF Typed, TypeOK, DaemonTyped
    <3>2. Head(inbox) \in Packet BY <2>1, <3>1, SequenceParts
    <3> QED BY <2>1, <3>2 DEF HandedUp, Typed, TypeOK, DaemonTyped
  <2>4. Since(n) = 0 BY <2>1 DEF HandedUp, Fresh, Since
  <2>5. Answered(n)'
    BY <1>1, <1>2, <2>1, <2>2, <2>3, <2>4 DEF Answered, HandedUp, CableClear
  <2>6. Numbered(n)' BY <1>1, <2>1 DEF Numbered
  <2>7. ~Written(n) BY <2>1 DEF HandedUp, Written
  <2>8. OnTime(n)' BY <1>1, <2>1, <2>7 DEF OnTime
  <2> QED BY <1>3, <2>5, <2>6, <2>8 DEF OnePacket
<1>6. CASE DaemonWrites
  <2>1. /\ task # None /\ ~writing /\ writing' /\ cable' = Append(cable, First(task))
        /\ UNCHANGED <<inbox, task, age, due>>
    BY <1>6 DEF DaemonWrites, First
  <2>2. Answered(n) BY <2>1 DEF OnePacket, Nowhere, Landed, HandedUp, Written
  <2>3. CableClear BY <2>1, <2>2 DEF Answered
  <2>4. cable' = <<First(task)>> BY <2>1, <2>3, ShortSequences DEF CableClear
  <2>5. Answered(n)'
    BY <1>1, <1>2, <2>1, <2>2, <2>3, <2>4 DEF Answered, CableClear, First
  <2>6. Numbered(n)' BY <1>1, <2>1 DEF Numbered
  <2>7. ~Written(n) BY <2>1 DEF Written
  <2>8. OnTime(n)' BY <1>1, <2>1, <2>7 DEF OnTime
  <2> QED BY <1>3, <2>5, <2>6, <2>8 DEF OnePacket
<1>7. CASE DaemonWrote
  <2>1. /\ task # None /\ task \in Packet /\ writing /\ ~writing'
        /\ cable' = Append(cable, Second(task)) /\ task' = None
        /\ due' = (IF age <= Budget THEN [due EXCEPT ![task.node] = task.no] ELSE due)
        /\ UNCHANGED <<inbox, age>>
    BY <1>7 DEF DaemonWrote, Second, Typed, TypeOK, DaemonTyped
  <2>2. Answered(n) BY <2>1 DEF OnePacket, Nowhere, Landed, HandedUp, Written
  <2>3. task = Last(n) /\ Since(n) <= age /\ BoardFree BY <2>2 DEF Answered
  <2>4. Since(n) <= DaemonMax BY <2>3, NodeFacts
  <2>5. \/ cable' = <<First(Last(n)), Second(Last(n))>> /\ half = None
        \/ cable' = <<Second(Last(n))>> /\ half = Last(n)
    BY <2>1, <2>2, <2>3, ShortSequences DEF Answered
  <2>6. Written(n)'
    <3>1. rxBuf = None /\ inbox = <<>> BY <2>2 DEF Answered
    <3> QED BY <1>1, <1>2, <2>1, <2>3, <2>4, <2>5, <3>1 DEF Written, First, Second
  <2>7. due'[n] = due[n] \/ (age <= Budget /\ due'[n] = Last(n).no)
    BY <1>4, <2>1, <2>3 DEF Last, Typed, TypeOK, AirTyped
  <2>8. Last(n).no = IF node[n].doing = "sending" THEN sent[n] - 1 ELSE sent[n]
    BY DEF Last
  <2>9. relaying = None BY <2>3 DEF BoardFree, Typed, TypeOK, BoardTyped
  <2>10. Numbered(n)' BY <1>1, <2>7, <2>8, <2>9, NodeFacts DEF Numbered
  <2>11. ~Written(n) BY <2>1 DEF Written
  <2>12. OnTime(n)'
    <3> SUFFICES ASSUME up, sent[n] > 0, due'[n] = sent[n], reached[n] # sent[n]
                 PROVE  node[n].doing = "listening" /\ node[n].left > DownAir
      BY <1>1, <2>6 DEF OnTime
    <3>1. due[n] # sent[n] BY <2>3, <2>11 DEF OnTime, BoardFree
    <3>2. age <= Budget /\ node[n].doing # "sending"
      BY <2>7, <2>8, <3>1, NodeFacts
    <3>3. Since(n) < NodeWindow - DownAir
      BY <2>3, <3>2, NodeFacts DEF OneInTime
    <3>4. node[n].doing = "listening"
      <4>1. CASE node[n].doing = "asleep"
        <5>1. Since(n) = NodeWindow + SleepMin - node[n].left BY <4>1 DEF Since
        <5>2. node[n].left <= SleepMin BY <4>1 DEF Paced
        <5> QED BY <3>3, <5>1, <5>2, NodeFacts
      <4> QED BY <3>2, <4>1, NodeFacts
    <3>5. Since(n) = NodeWindow - node[n].left BY <3>4 DEF Since
    <3> QED BY <3>3, <3>4, <3>5, NodeFacts
  <2> QED BY <1>3, <2>6, <2>10, <2>12 DEF OnePacket
<1>8. CASE WriteFails \/ DaemonRestarts
  <2>1. /\ task # None \/ inbox # <<>>
        /\ ~writing /\ task' = None /\ UNCHANGED <<cable, due>>
        /\ inbox' = inbox \/ inbox' = <<>>
    BY <1>8 DEF WriteFails, DaemonRestarts
  <2>2. ~Written(n) BY <2>1 DEF Written
  <2>3. OnePacket(n)'
    <3>1. HandedUp(n) \/ Answered(n)
      BY <2>1 DEF OnePacket, Nowhere, Landed, Written
    <3>2. rxBuf = None /\ CableClear BY <2>1, <3>1 DEF HandedUp, Answered
    <3>3. inbox' = <<>>
      BY <1>8, <2>1, <3>1 DEF WriteFails, DaemonRestarts, HandedUp, Answered
    <3> QED BY <1>1, <2>1, <3>2, <3>3 DEF OnePacket, Nowhere, CableClear
  <2>4. Numbered(n)' BY <1>1, <2>1 DEF Numbered
  <2>5. OnTime(n)' BY <1>1, <2>1, <2>2 DEF OnTime
  <2> QED BY <1>3, <2>3, <2>4, <2>5
<1> QED BY <1>5, <1>6, <1>7, <1>8 DEF Daemon
\* The node: its next packet ends a whole cycle after the last, when nothing is
\* left of the answer to that one and the reply window it opened is over.
LEMMA NodePrompt ==
  ASSUME NEW n, OneInTime(n), Typed, Prompt(n), Node(n)
  PROVE  Prompt(n)'
<1> USE DEF Prompt
<1>1. UNCHANGED <<up, chip, pc, wait, relaying, airLeft, half, cable, inbox, task, age,
                  writing, due, reached>>
  BY DEF Node, NodeSends, NodeSent, WindowCloses, chipVars, boardVars, daemonVars
<1>2. n \in Nodes /\ node \in [Nodes -> Doing] /\ sent \in [Nodes -> Nat]
  BY NodeFacts DEF Typed, TypeOK, AirTyped, Doing
<1>3. NodeWindow > 0 BY DEF OneInTime
<1>4. CASE NodeSends(n)
  <2>1. /\ node[n].doing = "asleep" /\ node[n].left = 0
        /\ node'[n] = [doing |-> "sending", left |-> UpAir] /\ sent'[n] = sent[n] + 1
        /\ UNCHANGED <<rxBuf, tuned>>
    BY <1>2, <1>4 DEF NodeSends, Becomes, chipVars
  <2>2. Since(n)' = Since(n) BY <2>1 DEF Since, Cycle
  <2>3. Last(n)' = Last(n) BY <2>1, NodeFacts DEF Last
  <2>4. OnePacket(n)'
    BY <1>1, <2>1, <2>2, <2>3 DEF OnePacket, Nowhere, Landed, HandedUp, Answered, Written,
                                  Fresh, CableClear, BoardFree, First, Second
  <2>5. WindowOpen(n)' BY <1>1, <2>2 DEF WindowOpen
  <2>6. Followed' BY <1>1, <1>4 DEF NodeSends, Followed, BoardFree
  <2>7. due[n] < sent'[n] BY <2>1, NodeFacts DEF Numbered
  <2>8. Numbered(n)' /\ OnTime(n)' BY <1>1, <2>1, <2>7, NodeFacts DEF Numbered, OnTime
  <2>9. Paced(n)' BY <2>1 DEF Paced
  <2> QED BY <2>4, <2>5, <2>6, <2>8, <2>9
<1>5. CASE NodeSent(n)
  <2>1. /\ node[n].doing = "sending" /\ node[n].left = 0
        /\ node'[n] = [doing |-> "listening", left |-> NodeWindow]
        /\ UNCHANGED <<sent, tuned>>
        /\ intact' = intact \ {n}
    BY <1>2, <1>5 DEF NodeSent, Becomes
  <2>2. Since(n) = Cycle BY <2>1 DEF Since, Cycle
  <2>3. Cycle \in Nat BY DEF Cycle
  <2>4. Nowhere
    BY <2>1, <2>2, <2>3, NodeFacts
       DEF OnePacket, Landed, HandedUp, Answered, Written, Fresh, OneInTime
  <2>5. pc # "await" BY <2>2, <2>3, NodeFacts DEF WindowOpen, OneInTime
  <2>6. Last(n)' = PacketOf(n) BY <2>1 DEF Last, PacketOf
  <2>7. OnePacket(n)'
    <3>1. CASE n \notin intact
      <4>1. rxBuf' = rxBuf BY <1>5, <3>1 DEF NodeSent
      <4> QED BY <1>1, <2>4, <4>1 DEF Nowhere, CableClear, OnePacket
    <3>2. CASE n \in intact
      <4>1. pc = "loop" BY <2>5, <3>2 DEF Followed, BoardFree
      <4>2. rxBuf' # None /\ rxBuf'.packet = PacketOf(n)
        <5>1. PICK ok \in BOOLEAN : rxBuf' = [packet |-> PacketOf(n), ok |-> ok]
          BY <1>5, <3>2 DEF NodeSent
        <5>2. PacketOf(n) \in Packet
          BY <1>2, <2>1 DEF PacketOf, Packet, Typed, TypeOK, AirTyped, CountedWhenSent
        <5> QED BY <5>1, <5>2, BufferAssumption
      <4>3. Fresh(n)' BY <2>1 DEF Fresh
      <4>4. Landed(n)'
        BY <1>1, <2>4, <2>6, <4>1, <4>2, <4>3 DEF Landed, Nowhere, CableClear
      <4> QED BY <4>4 DEF OnePacket
    <3> QED BY <3>1, <3>2
  <2>8. WindowOpen(n)' BY <1>1, <2>5 DEF WindowOpen
  <2>9. Followed' BY <1>1, <2>1 DEF Followed, BoardFree
  <2>10. due[n] < sent[n] BY <2>1 DEF Numbered
  <2>11. Numbered(n)' /\ OnTime(n)'
    BY <1>1, <2>1, <2>10, NodeFacts DEF Numbered, OnTime
  <2>12. Paced(n)' BY <2>1 DEF Paced
  <2> QED BY <2>7, <2>8, <2>9, <2>11, <2>12
<1>6. CASE WindowCloses(n)
  <2>1. /\ node[n].doing = "listening" /\ node[n].left = 0
        /\ node'[n] = [doing |-> "asleep", left |-> SleepMin]
        /\ UNCHANGED <<rxBuf, sent, intact>>
    BY <1>2, <1>6 DEF WindowCloses, Becomes, chipVars
  <2>2. Since(n)' = Since(n) BY <2>1 DEF Since
  <2>3. Last(n)' = Last(n) BY <2>1 DEF Last
  <2>4. ~Fresh(n) BY <1>3, <2>1 DEF Fresh
  <2>5. OnePacket(n)'
    BY <1>1, <2>1, <2>2, <2>3, <2>4 DEF OnePacket, Nowhere, Landed, HandedUp, Answered,
                                        Written, CableClear, BoardFree, First, Second
  <2>6. WindowOpen(n)' /\ Followed'
    BY <1>1, <2>1, <2>2 DEF WindowOpen, Followed, BoardFree
  <2>7. Numbered(n)' BY <1>1, <2>1 DEF Numbered
  <2>8. OnTime(n)' BY <1>1, <2>1, NodeFacts DEF OnTime
  <2>9. Paced(n)' BY <2>1 DEF Paced
  <2> QED BY <2>5, <2>6, <2>7, <2>8, <2>9
<1> QED BY <1>4, <1>5, <1>6 DEF Node

\* Time: it passes only while nothing waits on the cable or in the inbox, so an
\* answer ages with its window, and a downlink's air time runs with it.
LEMMA TickPrompt ==
  ASSUME NEW n, OneInTime(n), Typed, Prompt(n), Tick
  PROVE  Prompt(n)'
<1> USE DEF Prompt
<1>1. /\ ~BoardReady /\ ~DaemonReady /\ ~NodeReady
      /\ wait' = Less(wait) /\ airLeft' = Less(airLeft)
      /\ age' = (IF task = None THEN 0 ELSE age + 1)
      /\ UNCHANGED <<up, chip, rxBuf, pc, relaying, half, cable, inbox, task, writing, sent,
                     intact, tuned, reached, due>>
  BY DEF Tick, chipVars
<1>2. n \in Nodes /\ node \in [Nodes -> Doing]
  BY NodeFacts DEF Typed, TypeOK, AirTyped, Doing
<1>3. node'[n].doing = node[n].doing /\ node'[n].left = Less(node[n].left)
  BY <1>2 DEF Tick, Doing
<1>4. Less(node[n].left) \in Nat /\ Less(node[n].left) <= node[n].left
      /\ node[n].left <= Less(node[n].left) + 1
  BY NodeFacts DEF Less
<1>5. Since(n)' \in Int /\ Since(n)' <= Since(n) + 1
  BY <1>3, <1>4, NodeFacts DEF Since, Cycle
<1>6. Last(n)' = Last(n) BY <1>1, <1>3 DEF Last
<1>7. ~Landed(n) /\ ~HandedUp(n)
  BY <1>1, ShortSequences DEF Landed, HandedUp, BoardReady, DaemonReady
<1>8. BoardFree => cable = <<>> BY <1>1 DEF BoardFree, BoardReady, WaitTurns
<1>9. ~Written(n) BY <1>8, ShortSequences DEF Written
<1>10. OnePacket(n)'
  <2>1. CASE Nowhere BY <1>1, <2>1 DEF OnePacket, Nowhere, CableClear
  <2>2. CASE Answered(n)
    <3>1. task # None BY <2>2 DEF Answered
    <3>2. Since(n)' <= age'
      BY <1>1, <1>5, <2>2, <3>1, NodeFacts DEF Answered
    <3> QED
      BY <1>1, <1>6, <2>2, <3>2 DEF Answered, OnePacket, CableClear, BoardFree, First
  <2> QED BY <1>7, <1>9, <2>1, <2>2 DEF OnePacket
<1>11. WindowOpen(n)'
  <2> SUFFICES ASSUME pc = "await" PROVE Since(n)' <= ReplyWindow - wait'
    BY <1>1 DEF WindowOpen
  <2>1. wait # 0 BY <1>1 DEF BoardReady, WaitTurns, Expired
  <2>2. wait' = wait - 1 BY <1>1, <2>1, NodeFacts DEF Less
  <2> QED BY <1>5, <2>2, NodeFacts DEF WindowOpen
<1>12. Followed' BY <1>1 DEF Followed, BoardFree
<1>13. Numbered(n)' BY <1>1, <1>3 DEF Numbered
<1>14. OnTime(n)'
  <2> SUFFICES ASSUME up, sent[n] > 0, due[n] = sent[n], reached[n] # sent[n]
               PROVE  /\ pc = "tx" /\ n \in tuned
                      /\ node[n].doing = "listening" /\ node'[n].left > airLeft'
    BY <1>1, <1>3 DEF OnTime
  <2>1. /\ pc = "tx" /\ n \in tuned
        /\ node[n].doing = "listening" /\ node[n].left > airLeft
    BY <1>9 DEF OnTime
  <2>2. airLeft # 0 BY <1>1, <2>1 DEF BoardReady
  <2> QED BY <1>1, <1>3, <2>1, <2>2, NodeFacts DEF Less
<1>15. Paced(n)' BY <1>3, <1>4, NodeFacts DEF Paced
<1> QED BY <1>10, <1>11, <1>12, <1>13, <1>14, <1>15

\* The reply window's promise to the node (gateway/main.cpp:58-69): with one node,
\* and the daemon and the reply window shorter than its cycle, an answer the daemon
\* finishes within the budget is wholly on the air while the node still listens.
THEOREM AnswersReachTheWindow ==
  ASSUME NEW n, OneInTime(n)
  PROVE  Spec => []AnsweredInTime
<1>1. Init => Prompt(n)
  <2> SUFFICES ASSUME Init PROVE Prompt(n) OBVIOUS
  <2>1. n \in Nodes BY DEF OneInTime
  <2>2. node[n].doing = "asleep" /\ node[n].left = 0 /\ sent[n] = 0 /\ due[n] = 0
    BY <2>1 DEF Init
  <2>3. Nowhere BY DEF Init, Nowhere, CableClear
  <2>4. pc = "loop" /\ intact = {} /\ relaying = None BY DEF Init
  <2>5. WindowOpen(n) /\ Followed BY <2>4 DEF WindowOpen, Followed, BoardFree
  <2>6. Numbered(n) /\ OnTime(n) /\ Paced(n)
    BY <2>2, <2>4 DEF Numbered, OnTime, Paced
  <2> QED BY <2>3, <2>5, <2>6 DEF Prompt, OnePacket
<1>2. Typed /\ Prompt(n) /\ [Next]_vars => Prompt(n)'
  <2> SUFFICES ASSUME Typed, Prompt(n), [Next]_vars PROVE Prompt(n)' OBVIOUS
  <2>1. CASE Radio BY <2>1, RadioPrompt
  <2>2. CASE Loop BY <2>2, ReadPrompt, PollPrompt, ExpiresPrompt DEF Loop
  <2>3. CASE Daemon BY <2>3, DaemonPrompt
  <2>4. CASE \E m \in Nodes : Node(m) BY <2>4, NodePrompt DEF OneInTime
  <2>5. CASE Tick BY <2>5, TickPrompt
  <2>6. CASE UNCHANGED vars
    <3>1. UNCHANGED <<up, chip, rxBuf, pc, wait, relaying, airLeft, half, cable, inbox,
                      task, age, writing, node, sent, intact, tuned, reached, due>>
      BY <2>6 DEF vars, chipVars, boardVars, daemonVars, airVars
    <3>2. Since(n)' = Since(n) /\ Last(n)' = Last(n) /\ Fresh(n)' = Fresh(n) /\ Paced(n)'
      BY <3>1, NodeStays DEF Prompt
    <3>3. OnePacket(n)' /\ (Written(n) => Written(n)')
      BY <3>1, <3>2 DEF Prompt, OnePacket, Nowhere, Landed, HandedUp, Answered, Written,
                        CableClear, BoardFree, First, Second
    <3>4. WindowOpen(n)' /\ Followed' /\ Numbered(n)'
      BY <3>1, <3>2 DEF Prompt, WindowOpen, Followed, Numbered, BoardFree
    <3>5. OnTime(n)' BY <3>1, <3>3 DEF Prompt, OnTime
    <3> QED BY <3>2, <3>3, <3>4, <3>5 DEF Prompt
  <2> QED BY <2>1, <2>2, <2>3, <2>4, <2>5, <2>6 DEF Next
<1>3. Prompt(n) => AnsweredInTime
  <2> SUFFICES ASSUME Prompt(n), NEW m \in Nodes, node[m].doing = "asleep", up,
                      sent[m] > 0, due[m] = sent[m]
               PROVE  reached[m] = sent[m]
    BY DEF AnsweredInTime
  <2> QED BY DEF Prompt, OnTime, OneInTime
<1> QED BY <1>1, <1>2, <1>3, TypedInvariant, PTL DEF Spec
=============================================================================
