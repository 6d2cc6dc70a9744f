----------------------------- MODULE Telemetry -----------------------------
(***************************************************************************)
(* A reading's way from the air to the store, as spine.py wires it: frames *)
(* are decoded (packet.py), enveloped (publish.py), derived (derive.py),   *)
(* published (paho and the broker), ingested (ingest.py) and written.      *)
(*                                                                         *)
(* The daemon's decode loop, the two MQTT clients' threads, the broker and *)
(* the database run side by side.  The environment is the air, which may   *)
(* damage a frame in any field, the connections, which may drop, and the   *)
(* database, which may refuse a write.                                     *)
(*                                                                         *)
(* A reading's received_at is the number of its frame.  It reaches the     *)
(* document as `ts`, which nothing on this side of the broker reads: the   *)
(* line that is written has no time, and the database gives it the instant *)
(* it arrives.  A derived value is what it was computed from; the curves   *)
(* themselves are the subject of other code.  The checksum is ideal here:  *)
(* it is the content it was computed over.                                 *)
(***************************************************************************)
EXTENDS Integers, Sequences, FiniteSets, SequencesExt

CONSTANTS
  Wakes,        \* what nodes may send: [node, seq, said, failed] records
  Config,       \* soundings.toml: node -> [role, geometry]
  MaxFrames,    \* frames the source yields before it is done
  MaxDrops,     \* times a connection drops
  None

\* A wake's channels: those that answered, with what they said, and those bound
\* but failed, whose value on the wire is whatever serialize() found there.
Bits == 0 .. 12                     \* CHANNEL_REGISTRY
Battery == 16                       \* the battery's field, which is no channel's
Unread == 0                         \* Packet::channels of a channel never set
ASSUME WakesAssumption ==
  \A w \in Wakes :
    /\ w.node \in Nat /\ w.seq \in Nat /\ w.seq < 65536
    /\ w.failed \subseteq Bits /\ DOMAIN w.said \subseteq Bits
    /\ w.failed \cap DOMAIN w.said = {}
    /\ \A b \in DOMAIN w.said : w.said[b] \in Int
ASSUME ConfigAssumption ==
  \A n \in DOMAIN Config :
    Config[n] \in [role : STRING, geometry : {"none", "placeholder", "measured"}]
ASSUME BoundsAssumption == MaxFrames \in Nat /\ MaxDrops \in Nat

\* A decoded reading, and the message Gateway.run() makes of it.
Readings ==
  [node : Nat, seq : Nat, declared : SUBSET Bits, faults : SUBSET Bits,
   raw : UNION {[d -> Int] : d \in SUBSET Bits}]
Messages == [reading : Readings, received_at : Nat]
\* "Nothing" is told from a number, a wake and a message.
ASSUME NoneAssumption == None \notin Nat /\ None \notin Wakes /\ None \notin Messages

VARIABLES
  main,         \* spine.run(): "connecting", "looping", "publishing", "draining",
                \* "late" (draining, its ten seconds over), "ended"
  code,         \* what it returned
  frames,       \* frames the source has yielded
  decoded,      \* Gateway.decoded
  dropped,      \* Gateway.dropped
  msg,          \* the message in Gateway.run()'s hands
  pub,          \* the publishing client: up, documents not acknowledged yet, and
                \* how many of those the broker has taken over this connection
  sub,          \* the ingesting client: "down", "asked" (SUBSCRIBE sent), "subscribed"
  inbox,        \* documents the broker has sent it, not handled yet
  connected,    \* the Event main waits for
  sink,         \* Ingest.written
  db,           \* points in the database: [node, at, field, value]
  clock,        \* the database's clock at its last write
  live,         \* scalars published: [node, of, value]; of: the frame (history)
  writes,       \* history: the writes made, [at, of]: when, and of which frame
  truth,        \* history: what each frame that came through whole had measured
  lost,         \* history: frames the broker, a connection or the database dropped
  drops         \* connections dropped so far

mainVars == <<main, code, frames, decoded, dropped, msg>>
brokerVars == <<pub, sub, inbox, connected, drops>>
storeVars == <<sink, db, clock, live, writes>>
vars == <<mainVars, brokerVars, storeVars, truth, lost>>

-----------------------------------------------------------------------------
(* packet.py: encode() and parse() *)

Length(declared) == 12 + 2 * Cardinality(declared) + 2
Content(f) == [f EXCEPT !.sum = None]

\* The frame a wake puts on the air.
Encoded(w) ==
  LET declared == DOMAIN w.said \cup w.failed
      f == [proto |-> 1, node |-> w.node, seq |-> w.seq,
            declared |-> declared, faults |-> w.failed,
            raw |-> [b \in declared |-> IF b \in w.failed THEN Unread ELSE w.said[b]],
            length |-> Length(declared), sum |-> None]
  IN  [f EXCEPT !.sum = Content(f)]

\* One field of it changed on the way, or its end cut off.
Damaged(f) ==
  {[f EXCEPT !.length = n] : n \in {13, f.length - 1}}
  \cup {[f EXCEPT !.proto = 2], [f EXCEPT !.node = @ + 1]}
  \cup {[f EXCEPT !.declared = @ \cup {b}] : b \in {12, 13} \ f.declared}
  \cup {[f EXCEPT !.faults = b] : b \in {f.declared, {12}} \ {f.faults}}
  \cup {[f EXCEPT !.raw[b] = @ + 1] : b \in f.declared}

\* Every check of parse(), each of which raises.
Parses(f) ==
  /\ f.length >= Length({})
  /\ f.proto = 1
  /\ f.declared \subseteq Bits
  /\ f.faults \subseteq f.declared
  /\ f.length = Length(f.declared)
  /\ f.sum = Content(f)

-----------------------------------------------------------------------------
(* derive.py, tank.py, tension.py, vpd.py: what may be computed from what *)

When(c, S) == IF c THEN S ELSE {}
Value(metric, bit, r, inputs) ==
  [metric |-> metric, bit |-> bit, of |-> [b \in inputs |-> r.raw[b]]]

\* Mutant: a declared channel is a usable one.
Declared(r, b) == b \in r.declared
\* _channel(): present and not faulted.
Usable(r, b) == b \in r.declared \ r.faults

InRange(mm) == mm >= 30 /\ mm <= 4500

\* Tank: no correction without a headspace temperature, no gallons without a
\* measured geometry.
TankValues(r) ==
  LET geometry == Config[r.node].geometry
  IN  When(geometry # "none" /\ Usable(r, 8) /\ InRange(r.raw[8]),
        {Value("distance_mm", 8, r, {8})} \cup
        When(Usable(r, 4),
          {Value("headspace_temp_c", 4, r, {4})} \cup
          When(geometry = "measured",
            {Value(metric, 8, r, {8, 4}) : metric \in {"level_gal", "percent"}})))

\* TENSION_TEMP_PAIR: the soil probe at a tension sensor's depth.
TensionTempPair(b) == IF b \in {0, 2} THEN 4 ELSE 5

\* The denominator of the Watermark curve, times 4 * 10^7, for a resistance in
\* 0.1 kOhm and a temperature in 1/16 degree; and the curve under 10 kPa.
Denominator(r, t) == 40000000 - 38932 * r - 30125 * t
WetEnd(r, t) == (40930 + 3213 * r) * 400 < Denominator(r, t)

TensionValues(r, b) ==
  LET t == TensionTempPair(b)
  IN  When(Usable(r, b) /\ Usable(r, t) /\ r.raw[b] >= 0
             /\ Denominator(r.raw[b], r.raw[t]) > 0,
        {Value("tension_kpa", b, r, {b, t})} \cup
        When(WetEnd(r.raw[b], r.raw[t]), {Value("wet_end", b, r, {b, t})}))

\* The SHT45's own bands in ticks: -40 to 125 C, and 0 to 100 % give or take one.
TempInBand(ticks) == 175 * ticks >= 5 * 65535 /\ 175 * ticks <= 170 * 65535
RhInBand(ticks) == 125 * ticks >= 6 * 65535 - 125 /\ 125 * ticks <= 106 * 65535 + 125

AirValues(r) ==
  LET temp == Usable(r, 6) /\ TempInBand(r.raw[6])
      rh == Usable(r, 7) /\ RhInBand(r.raw[7])
  IN  When(temp, {Value("air_temp_c", 6, r, {6})})
        \cup When(rh, {Value("air_rh_pct", 7, r, {7})})
        \cup When(temp /\ rh, {Value("vpd_kpa", 6, r, {6, 7})})

BedValues(r) ==
  {Value("soil_temp_c", b, r, {b}) : b \in {t \in {4, 5, 9} : Usable(r, t)}}
    \cup (UNION {TensionValues(r, b) : b \in 0 .. 3})
    \cup AirValues(r)

\* derive_reading(): by the node's role, and nothing for a node nobody mapped.
Derived(r) ==
  When(r.node \in DOMAIN Config,
    CASE Config[r.node].role = "tank" -> TankValues(r)
      [] Config[r.node].role = "bed" -> BedValues(r)
      [] OTHER -> {})

-----------------------------------------------------------------------------
(* publish.py and ingest.py *)

\* Mutant: a sequence number of zero is taken for a missing one.
KeyableIfTrue(r) == r.seq # 0
\* envelope() refuses a reading without a node or a number; 0 is a number, and
\* a frame that decoded has both.
Keyable(r) == r.seq # None

\* envelope(): what is published has the receipt time as `ts` and as nothing else.
Envelope(m) ==
  [reading |-> m.reading, ts |-> m.received_at, derived |-> Derived(m.reading)]

\* reading_to_line(): one field per channel that answered, and the battery always.
\* It looks for a received_at, which no document has, so the line goes without a
\* time and is stored at the instant it arrives.
Points(r, at) ==
  {[node |-> r.node, at |-> at, field |-> b, value |-> r.raw[b]] :
     b \in {c \in r.declared : Usable(r, c)}}
  \cup {[node |-> r.node, at |-> at, field |-> Battery, value |-> 0]}

Init ==
  /\ main = "connecting" /\ code = None
  /\ frames = 0 /\ decoded = 0 /\ dropped = 0 /\ msg = None
  /\ pub = [up |-> FALSE, unacked |-> <<>>, taken |-> 0]
  /\ sub = "down" /\ inbox = <<>> /\ connected = FALSE /\ drops = 0
  /\ sink = 0 /\ db = {} /\ clock = 0 /\ live = {} /\ writes = {}
  /\ truth = <<>> /\ lost = {}

-----------------------------------------------------------------------------
(* The ingesting client, the broker and the publishing client *)

\* on_connect(): SUBSCRIBE is sent, the Event is set, no SUBACK is awaited.
SubConnects ==
  /\ main # "ended" /\ sub = "down"
  /\ sub' = "asked"
  /\ connected' = TRUE
  /\ UNCHANGED <<mainVars, pub, inbox, drops, storeVars, truth, lost>>

BrokerSubscribes ==
  /\ main # "ended" /\ sub = "asked"
  /\ sub' = "subscribed"
  /\ UNCHANGED <<mainVars, pub, inbox, connected, drops, storeVars, truth, lost>>

FramesOf(docs) == {doc.ts : doc \in Range(docs)}

\* The subscription is QoS 0 and its session clean: what was under way is gone.
SubDrops ==
  /\ main # "ended" /\ sub # "down" /\ drops < MaxDrops
  /\ sub' = "down"
  /\ inbox' = <<>>
  /\ lost' = lost \cup FramesOf(inbox)
  /\ drops' = drops + 1
  /\ UNCHANGED <<mainVars, pub, connected, storeVars, truth>>

\* What has not been acknowledged over this connection is sent again over the next,
\* in its order, whether the broker has it or not.
PubDrops ==
  /\ main # "ended" /\ pub.up /\ drops < MaxDrops
  /\ pub' = [pub EXCEPT !.up = FALSE, !.taken = 0]
  /\ drops' = drops + 1
  /\ UNCHANGED <<mainVars, sub, inbox, connected, storeVars, truth, lost>>

PubReconnects ==
  /\ main \notin {"connecting", "ended"} /\ ~pub.up
  /\ pub' = [pub EXCEPT !.up = TRUE]
  /\ UNCHANGED <<mainVars, sub, inbox, connected, drops, storeVars, truth, lost>>

\* The broker hands a document on to whoever is subscribed by then, and forgets it.
Forward(doc) ==
  IF sub = "subscribed"
  THEN inbox' = Append(inbox, doc) /\ UNCHANGED lost
  ELSE lost' = lost \cup {doc.ts} /\ UNCHANGED inbox

\* QoS 1: a document stays with the client until it is acknowledged, and others go
\* out meanwhile.
BrokerTakes ==
  /\ main # "ended" /\ pub.up /\ pub.taken < Len(pub.unacked)
  /\ Forward(pub.unacked[pub.taken + 1])
  /\ pub' = [pub EXCEPT !.taken = @ + 1]
  /\ UNCHANGED <<mainVars, sub, connected, drops, storeVars, truth>>

BrokerAcks ==
  /\ main # "ended" /\ pub.up /\ pub.taken > 0
  /\ pub' = [pub EXCEPT !.unacked = Tail(@), !.taken = @ - 1]
  /\ UNCHANGED <<mainVars, sub, inbox, connected, drops, storeVars, truth, lost>>

\* on_message() and Ingest.handle(): the write succeeds, or is logged and dropped.
\* The database's clock may or may not have moved since the last one.
Handle ==
  /\ main # "ended" /\ inbox # <<>>
  /\ inbox' = Tail(inbox)
  /\ LET doc == Head(inbox) IN
       \/ /\ clock' \in {clock, clock + 1}
          /\ db' = db \cup Points(doc.reading, clock')
          /\ writes' = writes \cup {[at |-> clock', of |-> doc.ts]}
          /\ sink' = sink + 1
          /\ UNCHANGED lost
       \/ /\ lost' = lost \cup {doc.ts}
          /\ UNCHANGED <<db, clock, writes, sink>>
  /\ UNCHANGED <<mainVars, pub, sub, connected, drops, live, truth>>

-----------------------------------------------------------------------------
(* spine.run() and Gateway.run() *)

\* connected.wait() returns; the publishing client connects.
StartPublishing ==
  /\ main = "connecting" /\ connected
  /\ main' = "looping"
  /\ pub' = [pub EXCEPT !.up = TRUE]
  /\ UNCHANGED <<code, frames, decoded, dropped, msg, sub, inbox, connected, drops,
                 storeVars, truth, lost>>

ConnectTimesOut ==
  /\ main = "connecting" /\ ~connected
  /\ main' = "ended" /\ code' = 1
  /\ UNCHANGED <<frames, decoded, dropped, msg, brokerVars, storeVars, truth, lost>>

\* Gateway.run(): a reading with the time it was received at, or nothing.
TakeFrame ==
  /\ main = "looping" /\ frames < MaxFrames
  /\ frames' = frames + 1
  /\ \E w \in Wakes : \E f \in {Encoded(w)} \cup Damaged(Encoded(w)) :
       /\ truth' = Append(truth, IF f = Encoded(w) \/ Parses(f) THEN w ELSE None)
       /\ IF Parses(f)
          THEN /\ msg' = [reading |-> [node |-> f.node, seq |-> f.seq,
                                       declared |-> f.declared, faults |-> f.faults,
                                       raw |-> f.raw],
                          received_at |-> frames + 1]
               /\ main' = "publishing"
               /\ UNCHANGED dropped
          ELSE /\ dropped' = dropped + 1
               /\ UNCHANGED <<msg, main>>
  /\ UNCHANGED <<code, decoded, brokerVars, storeVars, lost>>

\* publish(): the document queued for the broker, then the scalars, which are
\* QoS 0 and go nowhere while the connection is down.
Publish ==
  /\ main = "publishing"
  /\ pub' = IF Keyable(msg.reading)
            THEN [pub EXCEPT !.unacked = Append(@, Envelope(msg))]
            ELSE pub
  /\ live' = live \cup
       When(pub.up, {[node |-> msg.reading.node, of |-> msg.received_at, value |-> v] :
                       v \in Derived(msg.reading)})
  /\ decoded' = decoded + 1
  /\ msg' = None
  /\ main' = "looping"
  /\ UNCHANGED <<code, frames, dropped, sub, inbox, connected, drops, sink, db, clock,
                 writes, truth, lost>>

SourceEnds ==
  /\ main = "looping" /\ frames = MaxFrames
  /\ main' = "draining"
  /\ UNCHANGED <<code, frames, decoded, dropped, msg, brokerVars, storeVars, truth, lost>>

DrainExpires ==
  /\ main = "draining"
  /\ main' = "late"
  /\ UNCHANGED <<code, frames, decoded, dropped, msg, brokerVars, storeVars, truth, lost>>

\* Mutant: the drain waits for every reading to be written.
DrainedOnly == sink >= decoded
\* The drain loop's condition, negated.
DrainOver == sink >= decoded \/ main = "late"

Finish ==
  /\ main \in {"draining", "late"}
  /\ DrainOver
  /\ main' = "ended"
  /\ code' = IF sink >= decoded THEN 0 ELSE 2
  /\ UNCHANGED <<frames, decoded, dropped, msg, brokerVars, storeVars, truth, lost>>

Spine == StartPublishing \/ ConnectTimesOut \/ TakeFrame \/ Publish \/ SourceEnds
           \/ DrainExpires \/ Finish
Broker == SubConnects \/ BrokerSubscribes \/ SubDrops \/ PubDrops \/ PubReconnects
            \/ BrokerTakes \/ BrokerAcks \/ Handle

Next == Spine \/ Broker

Spec == Init /\ [][Next]_vars

\* The main thread runs; its clock passes the drain's deadline.  Of the broker,
\* the connections and the database nothing is asked.
FairSpec == Spec /\ WF_vars(Spine)

-----------------------------------------------------------------------------
(* Properties *)

\* Whether a value was computed from what a wake's own sensors said, and whether
\* every channel a reading does not call failed is one of them.
FromSensors(value, w) ==
  \A b \in DOMAIN value.of : b \in DOMAIN w.said /\ value.of[b] = w.said[b]
Answers(r, w) ==
  \A b \in r.declared : Usable(r, b) => b \in DOMAIN w.said /\ r.raw[b] = w.said[b]

\* What is stored at an instant is what a node's sensors said in a wake whose
\* document was written then, and what is shown or on its way is what they said in
\* the wake it was made for: a fault never becomes a number, in a raw field or inside
\* a derived one, and damage on the air never does either, for however many frames
\* and connections it passes (derive.py:81-90, ingest.py:35-50, packet.py:163-209).
StoreIsTrue ==
  /\ \A p \in db : \E x \in writes :
       /\ x.at = p.at /\ truth[x.of] # None /\ p.node = truth[x.of].node
       /\ p.field # Battery =>
            p.field \in DOMAIN truth[x.of].said /\ p.value = truth[x.of].said[p.field]
  /\ \A s \in live :
       truth[s.of] # None /\ s.node = truth[s.of].node /\ FromSensors(s.value, truth[s.of])
  /\ \A doc \in Range(pub.unacked) \cup Range(inbox) :
       /\ truth[doc.ts] # None /\ doc.reading.node = truth[doc.ts].node
       /\ Answers(doc.reading, truth[doc.ts])
       /\ \A v \in doc.derived : FromSensors(v, truth[doc.ts])

\* The points a wake should leave in the database, all at one of the instants its
\* document was written: as many times as it was sent.
Stored(k) ==
  \E x \in writes :
    /\ x.of = k
    /\ \E p \in db : p.at = x.at /\ p.node = truth[k].node /\ p.field = Battery
    /\ \A b \in DOMAIN truth[k].said :
         [node |-> truth[k].node, at |-> x.at, field |-> b, value |-> truth[k].said[b]] \in db

\* A frame that reached the gateway whole is in the store with every channel that
\* answered, or on its way, or the broker, a connection or the database dropped it:
\* the pipeline itself never does, not the first packet after a restart, not one
\* whose sensors all failed, not one from a node nobody mapped
\* (publish.py:50-52,64-72, ingest.py:37-39).
HolesHaveCauses ==
  \A k \in 1 .. Len(truth) :
    truth[k] # None =>
      \/ Stored(k)
      \/ k \in lost \cup FramesOf(pub.unacked) \cup FramesOf(inbox)
      \/ msg # None /\ msg.received_at = k

\* The spine ends, whatever is lost on the way: a document the broker never handed
\* on or the database never took cannot hold it (spine.py:133-136).
SpineEnds == <>(main = "ended")
=============================================================================
