-------------------------- MODULE TelemetryProofs --------------------------
(***************************************************************************)
(* What the spine stores is what a wake's sensors said, and what it does   *)
(* not store was lost outside it.  The argument follows one reading: the   *)
(* checksum makes every frame that parses one that some wake encoded, so   *)
(* the reading in the daemon's hands is true of that wake; from there it   *)
(* is only copied, with its frame's number, from place to place.           *)
(***************************************************************************)
EXTENDS Telemetry, TLAPS, FiniteSetTheorems

-----------------------------------------------------------------------------
(* Frames *)

FrameFields == {"proto", "node", "seq", "declared", "faults", "raw", "length", "sum"}

\* The fields of the frame a wake puts on the air (packet.py:224-259).
LEMMA EncodedFields ==
  ASSUME NEW w \in Wakes
  PROVE  LET f == Encoded(w)
             declared == DOMAIN w.said \cup w.failed
         IN  /\ f.proto = 1 /\ f.node = w.node /\ f.seq = w.seq
             /\ f.declared = declared /\ f.faults = w.failed
             /\ f.raw = [b \in declared |-> IF b \in w.failed THEN Unread ELSE w.said[b]]
             /\ f.length = Length(declared)
             /\ f.sum = Content(f)
             /\ DOMAIN f = FrameFields
BY DEF Encoded, Content, FrameFields

\* What a wake sends, every check of parse() lets through (packet.py:163-198).
LEMMA EncodedParses ==
  ASSUME NEW w \in Wakes
  PROVE  Parses(Encoded(w))
<1> DEFINE declared == DOMAIN w.said \cup w.failed
<1>1. w.failed \subseteq declared /\ declared \subseteq Bits BY WakesAssumption
<1>2. IsFiniteSet(Bits)
  <2>1. 0 \in Int /\ 12 \in Int OBVIOUS
  <2>2. IsFiniteSet(0 .. 12) BY <2>1, FS_Interval, Zenon
  <2> QED BY <2>2 DEF Bits
<1>3. Cardinality(declared) \in Nat BY <1>1, <1>2, FS_Subset, FS_CardinalityType
<1>4. Cardinality({}) = 0 BY FS_EmptySet
<1>5. Length(declared) >= Length({}) BY <1>3, <1>4 DEF Length
<1> HIDE DEF declared
<1> QED BY <1>1, <1>5, EncodedFields DEF Parses, declared

\* Damage changes one field, which is not the checksum, and leaves the frame
\* with the fields it had.
LEMMA DamageSparesSum ==
  ASSUME NEW w \in Wakes, NEW f \in Damaged(Encoded(w))
  PROVE  f.sum = Encoded(w).sum /\ DOMAIN f = FrameFields
<1> DEFINE e == Encoded(w)
<1>0. DOMAIN e = FrameFields BY EncodedFields
<1> HIDE DEF e
<1>1. \/ \E n : f = [e EXCEPT !.length = n]
      \/ f = [e EXCEPT !.proto = 2]
      \/ \E n : f = [e EXCEPT !.node = n]
      \/ \E d : f = [e EXCEPT !.declared = d]
      \/ \E d : f = [e EXCEPT !.faults = d]
      \/ \E d : f = [e EXCEPT !.raw = d]
  BY DEF Damaged, e
<1>2. f.sum = e.sum /\ DOMAIN f = FrameFields BY <1>0, <1>1 DEF FrameFields
<1> QED BY <1>2 DEF e

\* A frame that parses says what some wake said: the checksum covers every
\* other field (packet.py:195-198).
LEMMA ParsedIsEncoded ==
  ASSUME NEW w \in Wakes, NEW f \in {Encoded(w)} \cup Damaged(Encoded(w)), Parses(f)
  PROVE  /\ f.node = Encoded(w).node /\ f.seq = Encoded(w).seq
         /\ f.declared = Encoded(w).declared /\ f.faults = Encoded(w).faults
         /\ f.raw = Encoded(w).raw
<1>1. f.sum = Encoded(w).sum BY DamageSparesSum
<1>2. f.sum = Content(f) /\ Encoded(w).sum = Content(Encoded(w))
  BY EncodedFields DEF Parses
<1>3. Content(f) = Content(Encoded(w)) BY <1>1, <1>2
<1>4. DOMAIN f = FrameFields /\ DOMAIN Encoded(w) = FrameFields
  BY EncodedFields, DamageSparesSum
<1>5. ASSUME NEW g, DOMAIN g = FrameFields
      PROVE  /\ Content(g).node = g.node /\ Content(g).seq = g.seq
             /\ Content(g).declared = g.declared /\ Content(g).faults = g.faults
             /\ Content(g).raw = g.raw
  BY <1>5 DEF Content, FrameFields
<1> QED BY <1>3, <1>4, <1>5

-----------------------------------------------------------------------------
(* Derived values *)

\* A value all of whose inputs are usable channels of a true reading is computed
\* from what the wake's sensors said.
LEMMA ValueFromUsable ==
  ASSUME NEW r, NEW w, NEW metric, NEW bit, NEW inputs, Answers(r, w),
         \A b \in inputs : Usable(r, b)
  PROVE  FromSensors(Value(metric, bit, r, inputs), w)
BY DEF Answers, FromSensors, Value, Usable

\* Whatever the node's role, a derived value is computed from usable channels
\* only: a fault goes into none of them (derive.py:81-90 and :111-312).
LEMMA DerivedFromSensors ==
  ASSUME NEW r, NEW w, Answers(r, w)
  PROVE  \A v \in Derived(r) : FromSensors(v, w)
<1>1. \A v \in TankValues(r) : FromSensors(v, w)
  BY ValueFromUsable DEF TankValues, When
<1>2. ASSUME NEW b \in 0 .. 3, NEW v \in TensionValues(r, b)
      PROVE  FromSensors(v, w)
  BY <1>2, ValueFromUsable DEF TensionValues, When
<1>3. \A v \in AirValues(r) : FromSensors(v, w)
  BY ValueFromUsable DEF AirValues, When
<1>4. ASSUME NEW b \in {t \in {4, 5, 9} : Usable(r, t)}
      PROVE  FromSensors(Value("soil_temp_c", b, r, {b}), w)
  BY <1>4, ValueFromUsable
<1>5. \A v \in BedValues(r) : FromSensors(v, w)
  BY <1>2, <1>3, <1>4 DEF BedValues
<1>6. ASSUME NEW v \in Derived(r)
      PROVE  v \in TankValues(r) \/ v \in BedValues(r)
  BY <1>6 DEF Derived, When
<1> QED BY <1>1, <1>5, <1>6
-----------------------------------------------------------------------------
(* Sequences of documents *)

LEMMA RangeOfAppend ==
  ASSUME NEW S, NEW s \in Seq(S), NEW e \in S
  PROVE  Append(s, e) \in Seq(S) /\ Range(Append(s, e)) = Range(s) \cup {e}
<1>1. DOMAIN s = 1 .. Len(s) /\ Len(s) \in Nat OBVIOUS
<1>2. DOMAIN Append(s, e) = 1 .. Len(s) + 1 /\ Append(s, e)[Len(s) + 1] = e
      /\ \A i \in 1 .. Len(s) : Append(s, e)[i] = s[i]
  OBVIOUS
<1> QED BY <1>1, <1>2 DEF Range

LEMMA RangeOfTail ==
  ASSUME NEW S, NEW s \in Seq(S), s # <<>>
  PROVE  /\ Tail(s) \in Seq(S) /\ Head(s) \in S
         /\ Range(s) = Range(Tail(s)) \cup {Head(s)}
<1> DEFINE n == Len(s)
           t == Tail(s)
<1>1. n \in Nat /\ n > 0 /\ DOMAIN s = 1 .. n OBVIOUS
<1>2. /\ t \in Seq(S) /\ Head(s) = s[1]
      /\ DOMAIN t = 1 .. n - 1
      /\ \A i \in 1 .. n - 1 : t[i] = s[i + 1]
  BY <1>1
<1> HIDE DEF n, t
<1>3. ASSUME NEW i \in 1 .. n, i # 1
      PROVE  s[i] \in Range(t)
  <2>1. i - 1 \in 1 .. n - 1 /\ (i - 1) + 1 = i BY <1>1, <1>3
  <2>2. t[i - 1] = s[i] BY <1>2, <2>1
  <2> QED BY <1>2, <2>1, <2>2 DEF Range
<1>4. Range(s) \subseteq Range(t) \cup {Head(s)} BY <1>1, <1>2, <1>3 DEF Range
<1>5. Range(t) \cup {Head(s)} \subseteq Range(s)
  <2>1. 1 \in 1 .. n /\ \A i \in 1 .. n - 1 : i + 1 \in 1 .. n BY <1>1
  <2> QED BY <1>1, <1>2, <2>1 DEF Range
<1> QED BY <1>2, <1>4, <1>5 DEF t

-----------------------------------------------------------------------------
(* The invariant *)

Docs == {Envelope(m) : m \in Messages}

\* A reading says what the wake behind a frame had: who it was, what it declared
\* and what had failed, and for each channel that answered its value.
Says(r, k) ==
  /\ r \in Readings
  /\ k \in 1 .. Len(truth)
  /\ truth[k] \in Wakes
  /\ LET w == truth[k]
     IN  /\ r.node = w.node
         /\ r.declared = DOMAIN w.said \cup w.failed
         /\ r.faults = w.failed
         /\ \A b \in DOMAIN w.said : r.raw[b] = w.said[b]

TrueMessage(m) == m \in Messages /\ Says(m.reading, m.received_at)
TrueDocument(doc) == doc \in Docs /\ Says(doc.reading, doc.ts)

Counted ==
  /\ frames \in Nat
  /\ truth \in Seq(Wakes \cup {None})
  /\ Len(truth) = frames

InHand == IF main = "publishing" THEN TrueMessage(msg) ELSE msg = None

Client == [up : BOOLEAN, unacked : Seq(Docs), taken : Nat]
OnTheWay ==
  /\ pub \in Client /\ pub.taken <= Len(pub.unacked)
  /\ inbox \in Seq(Docs)
  /\ \A doc \in Range(pub.unacked) \cup Range(inbox) : TrueDocument(doc)

\* StoreIsTrue of the database and of the scalars, whose frames came.
IsOf(p, x) ==
  /\ x.of \in 1 .. Len(truth) /\ truth[x.of] # None
  /\ x.at = p.at /\ p.node = truth[x.of].node
  /\ p.field # Battery =>
       p.field \in DOMAIN truth[x.of].said /\ p.value = truth[x.of].said[p.field]
Written == \A p \in db : \E x \in writes : IsOf(p, x)
Shown ==
  \A s \in live :
    /\ s.of \in 1 .. Len(truth) /\ truth[s.of] # None
    /\ s.node = truth[s.of].node
    /\ FromSensors(s.value, truth[s.of])

\* What the broker has taken needs no acknowledgement to be accounted for.
Passed(k) == Stored(k) \/ k \in lost \cup FramesOf(inbox)
TakenHasPassed == \A i \in 1 .. pub.taken : Passed(pub.unacked[i].ts)

Inductive ==
  /\ Counted /\ InHand /\ OnTheWay /\ Written /\ Shown
  /\ TakenHasPassed /\ HolesHaveCauses

\* Only a frame taken adds to what has been measured.
LEMMA TruthTouched ==
  ASSUME [Next]_vars
  PROVE  TakeFrame \/ UNCHANGED <<truth, frames>>
BY DEF Next, Spine, Broker, StartPublishing, ConnectTimesOut, Publish, SourceEnds,
       DrainExpires, Finish, SubConnects, BrokerSubscribes, SubDrops, PubDrops,
       PubReconnects, BrokerTakes, BrokerAcks, Handle, vars, mainVars

\* Only TakeFrame puts a reading in the daemon's hands and only Publish takes
\* it out of them.
LEMMA HandTouched ==
  ASSUME [Next]_vars
  PROVE  \/ TakeFrame \/ Publish
         \/ msg' = msg /\ (main' = "publishing" <=> main = "publishing")
BY DEF Next, Spine, Broker, StartPublishing, ConnectTimesOut, SourceEnds,
       DrainExpires, Finish, SubConnects, BrokerSubscribes, SubDrops, PubDrops,
       PubReconnects, BrokerTakes, BrokerAcks, Handle, vars, mainVars

\* The publishing client's documents.
LEMMA UnackedTouched ==
  ASSUME pub \in Client, [Next]_vars
  PROVE  \/ Publish \/ BrokerTakes \/ BrokerAcks
         \/ /\ pub' \in Client /\ pub'.unacked = pub.unacked
            /\ pub'.taken = pub.taken \/ pub'.taken = 0
<1>1. \/ Publish \/ BrokerTakes \/ BrokerAcks
      \/ StartPublishing \/ PubDrops \/ PubReconnects
      \/ pub' = pub
  BY DEF Next, Spine, Broker, ConnectTimesOut, TakeFrame, SourceEnds,
         DrainExpires, Finish, SubConnects, BrokerSubscribes, SubDrops, Handle, vars,
         mainVars, brokerVars
<1>2. CASE StartPublishing \/ PubDrops \/ PubReconnects
  <2>1. \/ pub' = [pub EXCEPT !.up = TRUE]
        \/ pub' = [pub EXCEPT !.up = FALSE, !.taken = 0]
    BY <1>2 DEF StartPublishing, PubDrops, PubReconnects
  <2>2. pub' \in Client
    <3>1. TRUE \in BOOLEAN /\ FALSE \in BOOLEAN /\ 0 \in Nat OBVIOUS
    <3> QED BY <2>1, <3>1 DEF Client
  <2>3. pub'.unacked = pub.unacked /\ (pub'.taken = pub.taken \/ pub'.taken = 0)
    BY <2>1 DEF Client
  <2> QED BY <2>2, <2>3
<1> QED BY <1>1, <1>2

\* The ingesting client's, and what has been dropped.
LEMMA InboxTouched ==
  ASSUME [Next]_vars
  PROVE  BrokerTakes \/ SubDrops \/ Handle \/ UNCHANGED <<inbox, lost>>
BY DEF Next, Spine, Broker, StartPublishing, ConnectTimesOut, TakeFrame, Publish,
       SourceEnds, DrainExpires, Finish, SubConnects, BrokerSubscribes, PubDrops,
       PubReconnects, BrokerAcks, vars, mainVars, brokerVars

\* The store and the scalars.
LEMMA StoreTouched ==
  ASSUME [Next]_vars
  PROVE  (Handle \/ UNCHANGED <<db, writes>>) /\ (Publish \/ UNCHANGED live)
BY DEF Next, Spine, Broker, StartPublishing, ConnectTimesOut, TakeFrame, Publish,
       SourceEnds, DrainExpires, Finish, SubConnects, BrokerSubscribes, SubDrops,
       PubDrops, PubReconnects, BrokerTakes, BrokerAcks, Handle, vars, mainVars, brokerVars, storeVars

-----------------------------------------------------------------------------
(* What was measured does not change *)

Grows == \A k \in 1 .. Len(truth) : k \in 1 .. Len(truth') /\ truth'[k] = truth[k]

LEMMA TruthGrows ==
  ASSUME Counted, [Next]_vars
  PROVE  Counted' /\ Grows
<1>1. CASE UNCHANGED <<truth, frames>> BY <1>1 DEF Counted, Grows
<1>2. CASE TakeFrame
  <2>1. PICK x \in Wakes \cup {None} : truth' = Append(truth, x) BY <1>2 DEF TakeFrame
  <2>2. frames' = frames + 1 BY <1>2 DEF TakeFrame
  <2>3. Len(truth') = Len(truth) + 1 /\ truth' \in Seq(Wakes \cup {None})
        /\ \A k \in 1 .. Len(truth) : truth'[k] = truth[k]
    BY <2>1 DEF Counted
  <2> QED BY <2>2, <2>3 DEF Counted, Grows
<1> QED BY <1>1, <1>2, TruthTouched

LEMMA StaysTrue ==
  ASSUME NEW r, NEW k, Says(r, k), Grows
  PROVE  Says(r, k)'
BY DEF Says, Grows

LEMMA TrueAnswers ==
  ASSUME NEW r, NEW k, Says(r, k)
  PROVE  Answers(r, truth[k])
BY DEF Says, Answers, Usable

\* A frame taken leaves a true reading in the daemon's hands, or nothing; and
\* one that came through whole leaves the reading.
LEMMA TakenIsTrue ==
  ASSUME Counted, InHand, TakeFrame
  PROVE  /\ InHand'
         /\ truth'[Len(truth')] # None => msg' # None /\ msg'.received_at = Len(truth')
<1>1. main = "looping" /\ msg = None /\ frames' = frames + 1
  BY DEF TakeFrame, InHand
<1> DEFINE Came(w, f) ==
  /\ truth' = Append(truth, IF f = Encoded(w) \/ Parses(f) THEN w ELSE None)
  /\ IF Parses(f)
     THEN /\ msg' = [reading |-> [node |-> f.node, seq |-> f.seq,
                                  declared |-> f.declared, faults |-> f.faults,
                                  raw |-> f.raw],
                     received_at |-> frames + 1]
          /\ main' = "publishing"
     ELSE UNCHANGED <<msg, main>>
<1>2. PICK w \in Wakes : \E f \in {Encoded(w)} \cup Damaged(Encoded(w)) : Came(w, f)
  BY DEF TakeFrame
<1>3. PICK f \in {Encoded(w)} \cup Damaged(Encoded(w)) : Came(w, f) BY <1>2
<1>0. PICK k : k = frames + 1 OBVIOUS
<1>4. Len(truth') = k /\ k \in Nat /\ k \in 1 .. k
      /\ truth'[k] = IF f = Encoded(w) \/ Parses(f) THEN w ELSE None
  BY <1>0, <1>3 DEF Counted
<1>5. CASE Parses(f)
  <2>1. truth'[k] = w BY <1>4, <1>5
  <2> DEFINE r == [node |-> f.node, seq |-> f.seq, declared |-> f.declared,
                   faults |-> f.faults, raw |-> f.raw]
  <2>2. msg' = [reading |-> r, received_at |-> k] /\ main' = "publishing"
    BY <1>0, <1>3, <1>5
  <2> DEFINE declared == DOMAIN w.said \cup w.failed
  <2>3. /\ f.node = w.node /\ f.seq = w.seq /\ f.declared = declared
        /\ f.faults = w.failed
        /\ f.raw = [b \in declared |-> IF b \in w.failed THEN Unread ELSE w.said[b]]
    BY <1>5, ParsedIsEncoded, EncodedFields
  <2>4. f.raw \in [declared -> Int] /\ declared \in SUBSET Bits
        /\ w.failed \in SUBSET Bits /\ w.node \in Nat /\ w.seq \in Nat
        /\ w.failed \cap DOMAIN w.said = {}
    BY <2>3, WakesAssumption DEF Unread
  <2>5. r \in Readings BY <2>3, <2>4 DEF Readings
  <2>6. \A b \in DOMAIN w.said : f.raw[b] = w.said[b] BY <2>3, <2>4
  <2>7. /\ r.node = w.node /\ r.declared = declared /\ r.faults = w.failed
        /\ r.raw = f.raw
    BY <2>3
  <2> HIDE DEF r
  <2>8. Says(r, k)' BY <1>4, <2>1, <2>5, <2>6, <2>7 DEF Says
  <2>9. msg' \in Messages /\ msg'.reading = r /\ msg'.received_at = k
    BY <1>4, <2>2, <2>5 DEF Messages
  <2> QED BY <1>4, <2>2, <2>8, <2>9, NoneAssumption DEF InHand, TrueMessage
<1>6. CASE ~Parses(f)
  <2>1. f # Encoded(w) BY <1>6, EncodedParses
  <2> QED BY <1>1, <1>3, <1>4, <1>6, <2>1 DEF InHand
<1> QED BY <1>5, <1>6

-----------------------------------------------------------------------------
(* Each part of the invariant, through every step *)

LEMMA InHandKept ==
  ASSUME Inductive, [Next]_vars
  PROVE  InHand'
<1> USE DEF Inductive
<1>1. CASE TakeFrame BY <1>1, TakenIsTrue
<1>2. CASE Publish BY <1>2 DEF Publish, InHand
<1>3. CASE msg' = msg /\ (main' = "publishing" <=> main = "publishing")
  BY <1>3, TruthGrows, StaysTrue DEF InHand, TrueMessage
<1> QED BY <1>1, <1>2, <1>3, HandTouched

\* A document keeps its reading true wherever it is: made by Publish from the
\* reading in hand, and then only handed on (publish.py:50-72).
LEMMA OnTheWayKept ==
  ASSUME Inductive, [Next]_vars
  PROVE  OnTheWay'
<1> USE DEF Inductive
<1> DEFINE Unacked == pub.unacked
<1>1. Counted' /\ Grows BY TruthGrows
<1>2. /\ pub \in Client /\ Unacked \in Seq(Docs) /\ pub.taken \in 0 .. Len(Unacked)
      /\ inbox \in Seq(Docs)
  BY DEF OnTheWay, Client
<1>3. \A doc \in Range(Unacked) \cup Range(inbox) : TrueDocument(doc)'
  BY <1>1, StaysTrue DEF OnTheWay, TrueDocument
<1>4. /\ pub' \in Client /\ pub'.taken <= Len(pub'.unacked)
      /\ \A doc \in Range(pub'.unacked) : TrueDocument(doc)'
  <2>1. CASE Publish
    <3>1. PICK m : m = msg OBVIOUS
    <3>2. TrueMessage(m) BY <2>1, <3>1 DEF Publish, InHand
    <3>3. PICK d : d = Envelope(m) OBVIOUS
    <3>4. d \in Docs /\ d.reading = m.reading /\ d.ts = m.received_at
      BY <3>2, <3>3 DEF TrueMessage, Docs, Envelope
    <3>5. pub' = [pub EXCEPT !.unacked = Append(Unacked, d)] \/ pub' = pub
      BY <2>1, <3>1, <3>3 DEF Publish
    <3>6. /\ Append(Unacked, d) \in Seq(Docs)
          /\ Range(Append(Unacked, d)) = Range(Unacked) \cup {d}
          /\ Len(Append(Unacked, d)) = Len(Unacked) + 1
      BY <1>2, <3>4, RangeOfAppend
    <3>7. TrueDocument(d)' BY <1>1, <3>2, <3>4, StaysTrue DEF TrueMessage, TrueDocument
    <3>8. CASE pub' = pub BY <1>2, <1>3, <3>8
    <3>9. CASE pub' = [pub EXCEPT !.unacked = Append(Unacked, d)]
      <4>1. /\ pub'.unacked = Append(Unacked, d) /\ pub'.taken = pub.taken
            /\ pub' \in Client
        BY <1>2, <3>6, <3>9 DEF Client
      <4>2. pub.taken <= Len(Unacked) + 1 BY <1>2
      <4> QED BY <1>3, <3>6, <3>7, <4>1, <4>2
    <3> QED BY <3>5, <3>8, <3>9
  <2>2. CASE BrokerTakes
    <3>1. pub' = [pub EXCEPT !.taken = pub.taken + 1] /\ pub.taken < Len(Unacked)
      BY <2>2 DEF BrokerTakes
    <3> QED BY <1>2, <1>3, <3>1 DEF Client
  <2>3. CASE BrokerAcks
    <3>1. /\ pub' = [pub EXCEPT !.unacked = Tail(Unacked), !.taken = pub.taken - 1]
          /\ pub.taken > 0 /\ Unacked # <<>>
      BY <1>2, <2>3 DEF BrokerAcks
    <3>2. /\ Tail(Unacked) \in Seq(Docs) /\ Range(Tail(Unacked)) \subseteq Range(Unacked)
          /\ Len(Tail(Unacked)) = Len(Unacked) - 1
      BY <1>2, <3>1, RangeOfTail
    <3>3. pub.taken - 1 \in Nat /\ pub.taken - 1 <= Len(Unacked) - 1 BY <1>2, <3>1
    <3>4. /\ pub'.unacked = Tail(Unacked) /\ pub'.taken = pub.taken - 1
          /\ pub' \in Client
      BY <1>2, <3>1, <3>2, <3>3 DEF Client
    <3> QED BY <1>3, <3>2, <3>3, <3>4
  <2>4. CASE /\ pub' \in Client /\ pub'.unacked = pub.unacked
             /\ pub'.taken = pub.taken \/ pub'.taken = 0
    BY <2>4, <1>2, <1>3
  <2> QED BY <1>2, <2>1, <2>2, <2>3, <2>4, UnackedTouched
<1>5. /\ inbox' \in Seq(Docs)
      /\ \A doc \in Range(inbox') : TrueDocument(doc)'
  <2>1. CASE BrokerTakes
    <3>1. PICK d : d = Unacked[pub.taken + 1] OBVIOUS
    <3>2. d \in Docs /\ d \in Range(Unacked)
      BY <1>2, <2>1, <3>1 DEF BrokerTakes, Range
    <3>3. inbox' = Append(inbox, d) \/ inbox' = inbox
      BY <2>1, <3>1 DEF BrokerTakes, Forward
    <3>4. Append(inbox, d) \in Seq(Docs) /\ Range(Append(inbox, d)) = Range(inbox) \cup {d}
      BY <1>2, <3>2, RangeOfAppend
    <3> QED BY <1>2, <1>3, <3>2, <3>3, <3>4
  <2>2. CASE SubDrops
    <3>1. inbox' = <<>> BY <2>2 DEF SubDrops
    <3> QED BY <3>1 DEF Range
  <2>3. CASE Handle
    <3>1. inbox # <<>> /\ inbox' = Tail(inbox) BY <2>3 DEF Handle
    <3>2. Tail(inbox) \in Seq(Docs) /\ Range(Tail(inbox)) \subseteq Range(inbox)
      BY <1>2, <3>1, RangeOfTail
    <3> QED BY <1>3, <3>1, <3>2
  <2>4. CASE UNCHANGED <<inbox, lost>> BY <2>4, <1>2, <1>3
  <2> QED BY <2>1, <2>2, <2>3, <2>4, InboxTouched
<1> QED BY <1>4, <1>5 DEF OnTheWay

\* A document in the ingesting client's hands, and the write it leads to.
LEMMA HandledIsTrue ==
  ASSUME OnTheWay, Handle
  PROVE  /\ TrueDocument(Head(inbox)) /\ truth' = truth
         /\ inbox' = Tail(inbox) /\ Range(inbox) = Range(inbox') \cup {Head(inbox)}
         /\ \/ \E at : /\ db' = db \cup Points(Head(inbox).reading, at)
                       /\ writes' = writes \cup {[at |-> at, of |-> Head(inbox).ts]}
            \/ /\ UNCHANGED <<db, writes>>
               /\ lost' = lost \cup {Head(inbox).ts}
<1>1. inbox # <<>> /\ inbox \in Seq(Docs) BY DEF Handle, OnTheWay
<1>2. Range(inbox) = Range(Tail(inbox)) \cup {Head(inbox)} BY <1>1, RangeOfTail
<1> QED BY <1>2 DEF Handle, OnTheWay

\* A write stores the reading's own values, and those of no failed channel
\* (ingest.py:35-50).
LEMMA WrittenKept ==
  ASSUME Inductive, [Next]_vars
  PROVE  Written'
<1> USE DEF Inductive
<1>1. Counted' /\ Grows BY TruthGrows
<1>2. writes \subseteq writes' BY StoreTouched DEF Handle
<1>3. \A p \in db : \E x \in writes' : IsOf(p, x)'
  BY <1>1, <1>2 DEF Written, IsOf, Grows
<1>4. CASE UNCHANGED <<db, writes>> BY <1>3, <1>4 DEF Written
<1>5. CASE Handle
  <2>1. PICK doc : doc = Head(inbox) OBVIOUS
  <2> DEFINE r == doc.reading
             k == doc.ts
  <2>2. Says(r, k) /\ truth' = truth BY <1>5, <2>1, HandledIsTrue DEF TrueDocument
  <2>3. truth[k] # None BY <2>2, NoneAssumption DEF Says
  <2>4. ASSUME NEW at, NEW p \in Points(r, at)
        PROVE  IsOf(p, [at |-> at, of |-> k])'
    BY <2>2, <2>3, <2>4, TrueAnswers DEF Points, Says, Answers, IsOf
  <2>5. \/ UNCHANGED <<db, writes>>
        \/ \E at : /\ db' = db \cup Points(r, at)
                  /\ writes' = writes \cup {[at |-> at, of |-> k]}
    BY <1>5, <2>1, HandledIsTrue
  <2> HIDE DEF r, k
  <2> QED BY <1>3, <2>4, <2>5 DEF Written
<1> QED BY <1>4, <1>5, StoreTouched

\* A scalar shown was computed from the channels that answered
\* (publish.py:64-72, derive.py:81-90).
LEMMA ShownKept ==
  ASSUME Inductive, [Next]_vars
  PROVE  Shown'
<1> USE DEF Inductive
<1>1. Counted' /\ Grows BY TruthGrows
<1>2. CASE UNCHANGED live BY <1>1, <1>2 DEF Shown, Grows, FromSensors
<1>3. CASE Publish
  <2>1. Says(msg.reading, msg.received_at)
    BY <1>3 DEF Publish, InHand, TrueMessage
  <2>2. truth' = truth BY <1>3 DEF Publish
  <2>3. truth[msg.received_at] # None BY <2>1, NoneAssumption DEF Says
  <2>4. \A v \in Derived(msg.reading) : FromSensors(v, truth[msg.received_at])
    BY <2>1, TrueAnswers, DerivedFromSensors
  <2>5. \A s \in live' : s \in live \/ \E v \in Derived(msg.reading) :
          s = [node |-> msg.reading.node, of |-> msg.received_at, value |-> v]
    BY <1>3 DEF Publish, When
  <2> QED BY <2>1, <2>2, <2>3, <2>4, <2>5 DEF Shown, Says, FromSensors
<1> QED BY <1>2, <1>3, StoreTouched

-----------------------------------------------------------------------------
(* Where a frame that came through whole is *)

Accounted(k) ==
  \/ Stored(k)
  \/ k \in lost \cup FramesOf(pub.unacked) \cup FramesOf(inbox)
  \/ msg # None /\ msg.received_at = k

\* A point for every channel that answered: none of them is held for a fault
\* (ingest.py:35-50).
LEMMA PointsAreComplete ==
  ASSUME NEW r, NEW k, Says(r, k), NEW at, Points(r, at) \subseteq db',
         [at |-> at, of |-> k] \in writes', UNCHANGED truth
  PROVE  Stored(k)'
<1> DEFINE w == truth[k]
<1>1. w.failed \cap DOMAIN w.said = {} BY WakesAssumption DEF Says
<1>2. /\ r.declared = DOMAIN w.said \cup w.failed /\ r.faults = w.failed
      /\ r.node = w.node /\ \A b \in DOMAIN w.said : r.raw[b] = w.said[b]
  BY DEF Says
<1> HIDE DEF w
<1>3. ASSUME NEW b \in DOMAIN w.said
      PROVE  [node |-> w.node, at |-> at, field |-> b, value |-> w.said[b]]
               \in Points(r, at)
  BY <1>1, <1>2 DEF Points, Usable
<1>4. [node |-> w.node, at |-> at, field |-> Battery, value |-> 0] \in Points(r, at)
  BY <1>2 DEF Points
<1>5. \E p \in db' : p.at = at /\ p.node = w.node /\ p.field = Battery BY <1>4
<1>6. w = truth'[k] BY DEF w
<1> QED BY <1>3, <1>5, <1>6 DEF Stored

\* A document handled is stored or lost; the others wait.
LEMMA TakenByIngest ==
  ASSUME OnTheWay, Handle, NEW k \in FramesOf(inbox)
  PROVE  Passed(k)'
<1>1. PICK d : d = Head(inbox) OBVIOUS
<1>2. /\ Says(d.reading, d.ts) /\ truth' = truth
      /\ Range(inbox) = Range(inbox') \cup {d}
  BY <1>1, HandledIsTrue DEF TrueDocument
<1>3. \/ d.ts \in lost'
      \/ \E at : Points(d.reading, at) \subseteq db' /\ [at |-> at, of |-> d.ts] \in writes'
  BY <1>1, HandledIsTrue
<1>4. Stored(d.ts)' \/ d.ts \in lost' BY <1>2, <1>3, PointsAreComplete
<1>5. k = d.ts \/ k \in FramesOf(inbox') BY <1>2 DEF FramesOf
<1> QED BY <1>4, <1>5 DEF Passed

\* What the broker has taken stays accounted for without the publishing client.
LEMMA PassedKept ==
  ASSUME Inductive, [Next]_vars, NEW k \in 1 .. Len(truth), Passed(k)
  PROVE  Passed(k)'
<1> USE DEF Inductive
<1>1. Counted' /\ Grows BY TruthGrows
<1>2. db \subseteq db' /\ writes \subseteq writes' BY StoreTouched DEF Handle
<1>3. lost \subseteq lost'
  BY InboxTouched DEF BrokerTakes, Forward, SubDrops, Handle
<1>4. CASE Stored(k)
  <2>1. truth'[k] = truth[k] BY <1>1 DEF Grows
  <2>2. Stored(k)' BY <1>2, <1>4, <2>1 DEF Stored
  <2> QED BY <2>2 DEF Passed
<1>5. CASE k \in lost BY <1>3, <1>5 DEF Passed
<1>6. CASE k \in FramesOf(inbox)
  <2>1. CASE BrokerTakes
    <3>1. PICK d : d = pub.unacked[pub.taken + 1] OBVIOUS
    <3>2. d \in Docs /\ inbox \in Seq(Docs)
      BY <2>1, <3>1 DEF OnTheWay, BrokerTakes, Client
    <3>3. inbox' = Append(inbox, d) \/ inbox' = inbox
      BY <2>1, <3>1 DEF BrokerTakes, Forward
    <3>4. Range(Append(inbox, d)) = Range(inbox) \cup {d} BY <3>2, RangeOfAppend
    <3> QED BY <1>6, <3>3, <3>4 DEF FramesOf, Passed
  <2>2. CASE SubDrops BY <1>6, <2>2 DEF SubDrops, Passed
  <2>3. CASE Handle BY <1>6, <2>3, TakenByIngest
  <2>4. CASE UNCHANGED <<inbox, lost>> BY <1>6, <2>4 DEF FramesOf, Passed
  <2> QED BY <2>1, <2>2, <2>3, <2>4, InboxTouched
<1> QED BY <1>4, <1>5, <1>6 DEF Passed

\* The document the broker takes is with the ingesting client, or lost.
LEMMA TakenByBroker ==
  ASSUME OnTheWay, BrokerTakes, NEW k, k = pub.unacked[pub.taken + 1].ts
  PROVE  Passed(k)'
<1>1. PICK d : d = pub.unacked[pub.taken + 1] OBVIOUS
<1>2. d \in Docs /\ inbox \in Seq(Docs)
  BY <1>1 DEF OnTheWay, BrokerTakes, Client
<1>3. inbox' = Append(inbox, d) \/ d.ts \in lost' BY <1>1 DEF BrokerTakes, Forward
<1>4. Range(Append(inbox, d)) = Range(inbox) \cup {d} BY <1>2, RangeOfAppend
<1>5. d.ts \in lost' \cup FramesOf(inbox') BY <1>3, <1>4 DEF FramesOf
<1> QED BY <1>1, <1>5 DEF Passed

\* Each document the broker has taken has passed, through every step.
LEMMA TakenKept ==
  ASSUME Inductive, [Next]_vars
  PROVE  TakenHasPassed'
<1> USE DEF Inductive
<1> DEFINE Unacked == pub.unacked
<1>1. pub \in Client /\ Unacked \in Seq(Docs) /\ pub.taken \in 0 .. Len(Unacked)
  BY DEF OnTheWay, Client
<1>2. \A i \in 1 .. pub.taken : \A k : k = Unacked[i].ts => Passed(k)'
  <2>1. ASSUME NEW i \in 1 .. pub.taken, NEW k, k = Unacked[i].ts
        PROVE  Passed(k)'
    <3>1. Unacked[i] \in Range(Unacked) BY <1>1 DEF Range
    <3>2. k \in 1 .. Len(truth) BY <2>1, <3>1 DEF OnTheWay, TrueDocument, Says
    <3>3. Passed(k) BY <2>1 DEF TakenHasPassed
    <3> QED BY <3>2, <3>3, PassedKept
  <2> QED BY <2>1
<1>3. CASE Publish
  <2>1. PICK d : d = Envelope(msg) OBVIOUS
  <2>2. pub' = [pub EXCEPT !.unacked = Append(Unacked, d)] \/ pub' = pub
    BY <1>3, <2>1 DEF Publish
  <2>3. pub'.taken = pub.taken /\ \A i \in 1 .. pub.taken : pub'.unacked[i] = Unacked[i]
    BY <1>1, <2>2 DEF Client
  <2> QED BY <1>2, <2>3 DEF TakenHasPassed
<1>4. CASE BrokerTakes
  <2>1. pub'.unacked = Unacked /\ pub'.taken = pub.taken + 1
    BY <1>1, <1>4 DEF BrokerTakes, Client
  <2>2. PICK n : n = pub.taken OBVIOUS
  <2>3. \A k : k = Unacked[n + 1].ts => Passed(k)' BY <1>4, <2>2, TakenByBroker
  <2>4. \A i \in 1 .. n + 1 : i \in 1 .. n \/ i = n + 1
    BY <1>1, <2>2
  <2>5. \A i \in 1 .. n + 1 : \A k : k = Unacked[i].ts => Passed(k)'
    BY <1>2, <2>2, <2>3, <2>4
  <2> QED BY <2>1, <2>2, <2>5 DEF TakenHasPassed
<1>5. CASE BrokerAcks
  <2>1. pub'.unacked = Tail(Unacked) /\ pub'.taken = pub.taken - 1 /\ pub.taken > 0
    BY <1>1, <1>5 DEF BrokerAcks, Client
  <2>2. \A i \in 1 .. pub.taken - 1 :
          i + 1 \in 1 .. pub.taken /\ Tail(Unacked)[i] = Unacked[i + 1]
    BY <1>1, <2>1
  <2>3. \A i \in 1 .. pub.taken - 1 : \A k : k = Tail(Unacked)[i].ts => Passed(k)'
    BY <1>2, <2>2
  <2> QED BY <2>1, <2>3 DEF TakenHasPassed
<1>6. CASE /\ pub'.unacked = Unacked
           /\ pub'.taken = pub.taken \/ pub'.taken = 0
  BY <1>1, <1>2, <1>6 DEF TakenHasPassed
<1> QED BY <1>1, <1>3, <1>4, <1>5, <1>6, UnackedTouched

\* The reading in hand goes into the queue: a decoded frame has a number, and 0
\* is one (publish.py:50-52).
LEMMA PublishedIsQueued ==
  ASSUME InHand, OnTheWay, Publish
  PROVE  FramesOf(pub'.unacked) = FramesOf(pub.unacked) \cup {msg.received_at}
<1> DEFINE Unacked == pub.unacked
<1>1. PICK m : m = msg OBVIOUS
<1>2. m \in Messages /\ m.reading \in Readings
  BY <1>1 DEF Publish, InHand, TrueMessage, Says
<1>3. m.reading.seq \in Nat BY <1>2 DEF Readings
<1>4. PICK d : d = Envelope(m) OBVIOUS
<1>5. d \in Docs /\ d.ts = m.received_at BY <1>2, <1>4 DEF Docs, Envelope
<1>6. pub'.unacked = Append(Unacked, d) /\ Unacked \in Seq(Docs)
  BY <1>1, <1>3, <1>4, NoneAssumption DEF Publish, Keyable, OnTheWay, Client
<1>7. Range(Append(Unacked, d)) = Range(Unacked) \cup {d}
  BY <1>5, <1>6, RangeOfAppend
<1> QED BY <1>1, <1>5, <1>6, <1>7 DEF FramesOf

\* An acknowledged document leaves the publishing client; it has passed.
LEMMA AckedHasPassed ==
  ASSUME OnTheWay, TakenHasPassed, BrokerAcks, NEW k \in FramesOf(pub.unacked)
  PROVE  k \in FramesOf(pub'.unacked) \/ Passed(k)
<1> DEFINE Unacked == pub.unacked
<1>1. /\ Unacked \in Seq(Docs) /\ Unacked # <<>> /\ 1 \in 1 .. pub.taken
      /\ pub'.unacked = Tail(Unacked)
  BY DEF OnTheWay, BrokerAcks, Client
<1>2. Range(Unacked) = Range(Tail(Unacked)) \cup {Unacked[1]}
  BY <1>1, RangeOfTail
<1>3. Passed(Unacked[1].ts) BY <1>1 DEF TakenHasPassed
<1> QED BY <1>1, <1>2, <1>3 DEF FramesOf

\* A frame accounted for stays so: what leaves one place on the way arrives at
\* the next, or is lost.
LEMMA AccountedKept ==
  ASSUME Inductive, [Next]_vars, NEW k \in 1 .. Len(truth), Accounted(k)
  PROVE  Accounted(k)'
<1> USE DEF Inductive
<1>1. ASSUME Passed(k) PROVE Accounted(k)'
  BY <1>1, PassedKept DEF Passed, Accounted
<1>2. CASE k \in FramesOf(pub.unacked)
  <2>1. CASE BrokerTakes
    <3>1. pub'.unacked = pub.unacked BY <2>1 DEF BrokerTakes, OnTheWay, Client
    <3> QED BY <1>2, <3>1 DEF Accounted, FramesOf
  <2>2. CASE BrokerAcks BY <1>1, <1>2, <2>2, AckedHasPassed DEF Accounted
  <2>3. CASE Publish BY <1>2, <2>3, PublishedIsQueued DEF Accounted
  <2>4. CASE pub'.unacked = pub.unacked BY <1>2, <2>4 DEF Accounted, FramesOf
  <2> QED BY <2>1, <2>2, <2>3, <2>4, UnackedTouched DEF OnTheWay
<1>3. CASE msg # None /\ msg.received_at = k
  <2>1. CASE TakeFrame BY <1>3, <2>1 DEF TakeFrame, InHand
  <2>2. CASE Publish BY <1>3, <2>2, PublishedIsQueued DEF Accounted
  <2>3. CASE msg' = msg BY <1>3, <2>3 DEF Accounted
  <2> QED BY <2>1, <2>2, <2>3, HandTouched
<1> QED BY <1>1, <1>2, <1>3 DEF Accounted, Passed

LEMMA HolesKept ==
  ASSUME Inductive, [Next]_vars
  PROVE  HolesHaveCauses'
<1> SUFFICES ASSUME NEW k \in 1 .. Len(truth'), truth'[k] # None
             PROVE  Accounted(k)'
  BY DEF HolesHaveCauses, Accounted
<1>1. Counted' /\ Grows BY TruthGrows DEF Inductive
<1>2. CASE k \in 1 .. Len(truth)
  <2>1. truth[k] # None BY <1>1, <1>2 DEF Grows
  <2>2. Accounted(k) BY <1>2, <2>1 DEF Inductive, HolesHaveCauses, Accounted
  <2> QED BY <1>2, <2>2, AccountedKept
<1>3. CASE k \notin 1 .. Len(truth)
  <2>1. TakeFrame /\ k = Len(truth')
    <3>1. TakeFrame BY <1>3, TruthTouched
    <3>2. frames' = frames + 1 BY <3>1 DEF TakeFrame
    <3> QED BY <1>1, <1>3, <3>1, <3>2 DEF Inductive, Counted
  <2> QED BY <2>1, TakenIsTrue DEF Inductive, Accounted
<1> QED BY <1>2, <1>3

-----------------------------------------------------------------------------
(* The theorems *)

LEMMA InductiveHolds == Spec => []Inductive
<1>1. Init => Inductive
  <2> SUFFICES ASSUME Init PROVE Inductive
    OBVIOUS
  <2>1. <<>> \in Seq(Docs) /\ <<>> \in Seq(Wakes \cup {None}) /\ Range(<<>>) = {}
    BY DEF Range
  <2>2. Counted /\ InHand BY <2>1 DEF Init, Counted, InHand
  <2>3. OnTheWay BY <2>1 DEF Init, OnTheWay, Client
  <2>4. Written /\ Shown /\ TakenHasPassed /\ HolesHaveCauses
    BY DEF Init, Written, Shown, TakenHasPassed, HolesHaveCauses
  <2> QED BY <2>2, <2>3, <2>4 DEF Inductive
<1>2. Inductive /\ [Next]_vars => Inductive'
  <2> SUFFICES ASSUME Inductive, [Next]_vars PROVE Inductive'
    OBVIOUS
  <2>1. Counted' BY TruthGrows DEF Inductive
  <2> QED BY <2>1, InHandKept, OnTheWayKept, WrittenKept, ShownKept, TakenKept,
          HolesKept DEF Inductive
<1> QED BY <1>1, <1>2, PTL DEF Spec

\* Everything stored is what a node's sensors said in a wake whose document was
\* written at that instant, and everything shown or on its way what they said in the
\* wake it was made for, for any number of frames, wakes, dropped connections and
\* repeated documents (derive.py:81-90, ingest.py:35-50, packet.py:163-209).
THEOREM StoreHoldsTheTruth == Spec => []StoreIsTrue
<1>1. Inductive => StoreIsTrue
  <2> SUFFICES ASSUME Inductive PROVE StoreIsTrue
    OBVIOUS
  <2>1. ASSUME NEW doc \in Range(pub.unacked) \cup Range(inbox)
        PROVE  /\ truth[doc.ts] # None /\ doc.reading.node = truth[doc.ts].node
               /\ Answers(doc.reading, truth[doc.ts])
               /\ \A v \in doc.derived : FromSensors(v, truth[doc.ts])
    <3>1. doc \in Docs /\ Says(doc.reading, doc.ts)
      BY DEF Inductive, OnTheWay, TrueDocument
    <3>2. doc.derived = Derived(doc.reading) BY <3>1 DEF Docs, Envelope
    <3>3. Answers(doc.reading, truth[doc.ts]) BY <3>1, TrueAnswers
    <3>4. truth[doc.ts] # None /\ doc.reading.node = truth[doc.ts].node
      BY <3>1, NoneAssumption DEF Says
    <3> QED BY <3>2, <3>3, <3>4, DerivedFromSensors
  <2> QED BY <2>1 DEF Inductive, Written, IsOf, Shown, StoreIsTrue
<1> QED BY <1>1, InductiveHolds, PTL

\* A frame that reached the gateway whole is in the store with every channel
\* that answered, on its way, or dropped by the broker, a connection or the
\* database: the pipeline itself drops none (publish.py:50-52,64-72,
\* ingest.py:37-39).
THEOREM PipelineDropsNothing == Spec => []HolesHaveCauses
<1>1. Inductive => HolesHaveCauses BY DEF Inductive
<1> QED BY <1>1, InductiveHolds, PTL
=============================================================================
