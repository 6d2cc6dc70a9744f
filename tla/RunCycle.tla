------------------------------ MODULE RunCycle ------------------------------
(***************************************************************************)
(* The node's whole program: wake, sample every slot, assemble, transmit,  *)
(* listen, act on a downlink, retire the sequence number, deep sleep       *)
(* (firmware/src/core/runcycle.cpp).  There is no loop in the code: deep   *)
(* sleep resets the MCU, so everything but the RTC-memory counter `seq`    *)
(* starts again at the next Wake.                                          *)
(*                                                                         *)
(* The environment is the radio (which may be busy, fail, or accept a      *)
(* frame), the link (which may lose what was sent), the gateway (which may *)
(* answer with anything), and the power (which may go at any point).       *)
(*                                                                         *)
(* Time is the node's own millis(), which restarts at every boot.  Calls   *)
(* that block take any time up to a named bound.  The battery reading is   *)
(* left out: a failed one is sent as 0 and changes nothing else.           *)
(***************************************************************************)
EXTENDS Integers, Sequences

CONSTANTS
  Bindings,    \* what setup() may bind: sequences of [channel, sampler] slots
  Sizable,     \* channels the codec has a width for
  SeqMod,      \* numbers in a sequence counter (2^16)
  TxRetries,   \* cfg_.txRetries
  TxWindow,    \* cfg_.txWindowMs
  RxWindow,    \* cfg_.rxWindowMs
  RxEvery,     \* cfg_.rxEveryNWakes
  Interval,    \* cfg_.intervalMs
  Jitter,      \* cfg_.jitterMs
  Word,        \* 2^32: the width of the sleep arithmetic
  Entropy,     \* values rng_.next() may return
  SampleMax,   \* longest one sampler takes
  SendMax,     \* longest one radio_.send takes
  HandlerMax,  \* longest the downlink handler takes before it returns
  None

ASSUME SeqModAssumption == SeqMod \in Nat \ {0, 1}
Slot == [channel : Nat, sampler : {"null", "missing", "fitted"}]
ASSUME BindingsAssumption ==
  /\ Bindings \subseteq Seq(Slot) /\ Bindings # {}
  /\ Sizable \subseteq Nat
ASSUME TimesAssumption ==
  /\ TxRetries \in Nat /\ TxWindow \in Nat /\ RxWindow \in Nat
  /\ RxEvery \in Nat /\ Interval \in Nat /\ Jitter \in Nat
  /\ SampleMax \in Nat /\ SendMax \in Nat /\ HandlerMax \in Nat
ASSUME WordAssumption ==
  /\ Word \in Nat \ {0} /\ Entropy \subseteq Nat
  \* the cadences nodemanifest.h allows for: minutes, against a 49-day word
  /\ Interval + Jitter < Word /\ 2 * Jitter + 1 < Word
ASSUME NoneAssumption == None \notin Nat

VARIABLES
  slots,       \* the slots bound for this image, as runOnce() is given them
  pc,          \* where in runOnce() the node is; "asleep" between wakes
  seq,         \* g_seq, in RTC memory
  slot,        \* loop index of assemble()
  pkt,         \* the packet being assembled: its number, channels and faults
  now,         \* millis() since this boot
  txStart,     \* Elapsed::start_ of the transmit window
  attempts,    \* sends tried this wake
  nap,         \* what sleepFor() was last asked for
  aired,       \* the number that reached the antenna this wake, or None
  heard,       \* the last number the gateway received since power-up, or None
  spent,       \* numbers retired since `heard` was sent, modulo SeqMod
  deaf         \* packets retired since a wake that was scheduled to listen

nodeVars == <<slots, slot, pkt, txStart, attempts>>
linkVars == <<aired, heard, spent, deaf>>
vars == <<slots, pc, seq, slot, pkt, now, txStart, attempts, nap, aired, heard,
          spent, deaf>>

Numbers == 0 .. SeqMod - 1
Channels == {slots[i].channel : i \in 1 .. Len(slots)}
NoPacket == [seq |-> 0, declared |-> {}, faults |-> {}]

\* (uint16_t)(n + 1)
Successor(n) == IF n + 1 = SeqMod THEN 0 ELSE n + 1
\* (uint16_t)(a + b) for two counter values
WrapAdd(a, b) == IF a + b >= SeqMod THEN a + b - SeqMod ELSE a + b

Init ==
  /\ slots \in Bindings
  /\ pc = "asleep"
  /\ seq = 0
  /\ slot = 1
  /\ pkt = NoPacket
  /\ now = 0
  /\ txStart = 0
  /\ attempts = 0
  /\ nap = 0
  /\ aired = None
  /\ heard = None
  /\ spent = 0
  /\ deaf = 0

-----------------------------------------------------------------------------
(* assemble() *)

\* Mutant: g_seq loses RTC_DATA_ATTR, so every wake starts at zero.
WakeAtZero ==
  /\ pc = "asleep"
  /\ pc' = "sample"
  /\ pkt' = NoPacket
  /\ seq' = 0 /\ slot' = 1 /\ now' = 0 /\ txStart' = 0 /\ attempts' = 0 /\ nap' = 0
  /\ aired' = None
  /\ UNCHANGED <<slots, heard, spent, deaf>>

\* setup() reaches runOnce(); the packet takes its number before any sensor is
\* read.
Wake ==
  /\ pc = "asleep"
  /\ pc' = "sample"
  /\ slot' = 1
  /\ pkt' = [seq |-> seq, declared |-> {}, faults |-> {}]
  /\ now' = 0
  /\ txStart' = 0
  /\ attempts' = 0
  /\ nap' = 0
  /\ aired' = None
  /\ UNCHANGED <<slots, seq, heard, spent, deaf>>

\* One turn of the loop over the slots.  A slot with no sampler is passed over;
\* any other is declared whether or not it answered, and faulted if it did not.
\* The sampler bound to an unservable channel never answers.
PassOver ==
  /\ pc = "sample"
  /\ slot <= Len(slots)
  /\ slots[slot].sampler = "null"
  /\ slot' = slot + 1
  /\ UNCHANGED <<slots, pc, seq, pkt, now, txStart, attempts, nap, linkVars>>

Answered(p, ch) == [p EXCEPT !.declared = @ \cup {ch}]
\* Mutant: a sensor that did not answer is left out of the packet.
Omitted(p, ch) == p
Missed(p, ch) ==
  [p EXCEPT !.declared = @ \cup {ch}, !.faults = @ \cup {ch}]

SampleSlot ==
  /\ pc = "sample"
  /\ slot <= Len(slots)
  /\ slots[slot].sampler # "null"
  /\ \/ /\ slots[slot].sampler = "fitted"
        /\ pkt' = Answered(pkt, slots[slot].channel)
     \/ pkt' = Missed(pkt, slots[slot].channel)
  /\ \E d \in 0 .. SampleMax : now' = now + d
  /\ slot' = slot + 1
  /\ UNCHANGED <<slots, pc, seq, txStart, attempts, nap, linkVars>>

\* serialize() refuses a packet that declares a channel with no width; then
\* nothing is sent and no number is spent.
Serializable(p) == p.declared \subseteq Sizable

Assembled ==
  /\ pc = "sample"
  /\ slot > Len(slots)
  /\ \/ /\ Serializable(pkt)
        /\ pc' = "transmit"
     \/ /\ ~Serializable(pkt)
        /\ pc' = "sleep"
  /\ txStart' = now
  /\ UNCHANGED <<slots, seq, slot, pkt, now, attempts, nap, linkVars>>

-----------------------------------------------------------------------------
(* transmit() *)

\* Mutant: only the count bounds the retries.
WindowIgnored(t) == FALSE
\* Elapsed::expired() against the transmit window, at instant t.
WindowExpired(t) == t - txStart >= TxWindow

\* The loop condition, after n sends.
RetriesLeft(n) == n <= TxRetries

\* The frame reaches the antenna; the link delivers it to the gateway or not.
OnAir ==
  /\ aired' = pkt.seq
  /\ \/ heard' = pkt.seq /\ spent' = 0
     \/ UNCHANGED <<heard, spent>>
  /\ UNCHANGED deaf

SendOk ==
  /\ pc = "transmit"
  /\ \E d \in 0 .. SendMax : now' = now + d
  /\ attempts' = attempts + 1
  /\ OnAir
  /\ pc' = "listen"
  /\ UNCHANGED <<slots, seq, slot, pkt, txStart, nap>>

\* Not retried: the radio is broken, not busy.  Part of the frame, or all of
\* it, may have been radiated before the driver reported the failure.
SendFailed ==
  /\ pc = "transmit"
  /\ \E d \in 0 .. SendMax : now' = now + d
  /\ attempts' = attempts + 1
  /\ OnAir \/ UNCHANGED linkVars
  /\ pc' = "retire"
  /\ UNCHANGED <<slots, seq, slot, pkt, txStart, nap>>

\* Nothing was radiated.  Tried again until the count or the window says stop.
SendBusy ==
  /\ pc = "transmit"
  /\ \E d \in 0 .. SendMax : now' = now + d
  /\ attempts' = attempts + 1
  /\ \/ /\ ~RetriesLeft(attempts') \/ WindowExpired(now')
        /\ pc' = "retire"
     \/ /\ RetriesLeft(attempts')
        /\ ~WindowExpired(now')
        /\ pc' = "transmit"
  /\ UNCHANGED <<slots, seq, slot, pkt, txStart, nap, linkVars>>

-----------------------------------------------------------------------------
(* listen() and the downlink handler *)

ShouldListenThisWake ==
  /\ RxWindow # 0
  /\ RxEvery <= 1 \/ seq % RxEvery = 0

SkipListen ==
  /\ pc = "listen"
  /\ ~ShouldListenThisWake
  /\ pc' = "retire"
  /\ UNCHANGED <<seq, nodeVars, now, nap, linkVars>>

\* One receive(): silence, or the first frame heard, which decodeDownlink()
\* accepts only when it is whole and addressed to this node.
Listen ==
  /\ pc = "listen"
  /\ ShouldListenThisWake
  /\ \E d \in 0 .. RxWindow : now' = now + d
  /\ \E frame \in {"silence", "unreadable", "foreign", "mine"} :
       pc' = IF frame = "mine" THEN "handle" ELSE "retire"
  /\ UNCHANGED <<seq, nodeVars, nap, linkVars>>

\* Mutant: the handler waits for WiFi without a deadline.
HandlerHangs == pc = "handle" /\ UNCHANGED vars

HandlerReturns ==
  /\ pc = "handle"
  /\ \E d \in 0 .. HandlerMax : now' = now + d
  /\ pc' = "retire"
  /\ UNCHANGED <<seq, nodeVars, nap, linkVars>>

-----------------------------------------------------------------------------
(* The end of runOnce() *)

\* Mutant: only a number that was aired is spent.
RetireIfAired ==
  /\ pc = "retire"
  /\ seq' = IF aired = None THEN seq ELSE Successor(seq)
  /\ spent' = Successor(spent)
  /\ deaf' = IF ShouldListenThisWake THEN 0 ELSE deaf + 1
  /\ pc' = "sleep"
  /\ UNCHANGED <<nodeVars, now, nap, aired, heard>>

\* The number is spent whether or not the transmit succeeded.
Retire ==
  /\ pc = "retire"
  /\ seq' = Successor(seq)
  /\ spent' = Successor(spent)
  /\ deaf' = IF ShouldListenThisWake THEN 0 ELSE deaf + 1
  /\ pc' = "sleep"
  /\ UNCHANGED <<nodeVars, now, nap, aired, heard>>

\* nextSleepMs() for one value of the generator, in Word-wide arithmetic.
NextSleepMs(r) ==
  LET jitter == IF Jitter > Interval THEN Interval ELSE Jitter
      span == (jitter * 2 + 1) % Word
  IN  IF Jitter = 0 THEN Interval
      ELSE ((Interval - jitter) + (r % span)) % Word

Sleep ==
  /\ pc = "sleep"
  /\ \E r \in Entropy : nap' = NextSleepMs(r)
  /\ pc' = "asleep"
  /\ UNCHANGED <<seq, nodeVars, now, linkVars>>

\* Any reset that is not a wake from deep sleep: a flat or changed cell, a
\* brown-out, or the OTA client restarting into a new image, which happens
\* inside the handler and so before the number is retired, and which may bind
\* other slots.  RTC memory is initialised again, and the gateway has to treat
\* the backwards jump as a restart (iseqstore.h).
Restart ==
  /\ slots' \in Bindings
  /\ pc' = "asleep"
  /\ seq' = 0
  /\ slot' = 1
  /\ pkt' = NoPacket
  /\ now' = 0
  /\ txStart' = 0
  /\ attempts' = 0
  /\ nap' = 0
  /\ aired' = None
  /\ heard' = None
  /\ spent' = 0
  /\ deaf' = 0

Node ==
  \/ Wake \/ PassOver \/ SampleSlot \/ Assembled
  \/ SendOk \/ SendFailed \/ SendBusy
  \/ SkipListen \/ Listen \/ HandlerReturns
  \/ Retire \/ Sleep

Next == Node \/ Restart

Spec == Init /\ [][Next]_vars

\* The MCU executes; it wakes because the RTC timer was armed before the sleep.
\* Nothing is assumed of the radio, the link, the gateway or the power.
FairSpec == Spec /\ WF_vars(Node)

-----------------------------------------------------------------------------
(* Properties *)

\* The channels of the first n slots that have a sampler at all, and of those
\* among them whose sampler can only fail.
Sampled(n) ==
  {slots[i].channel : i \in {j \in 1 .. n : slots[j].sampler # "null"}}
Unserved(n) ==
  {slots[i].channel : i \in {j \in 1 .. n : slots[j].sampler = "missing"}}

Phases == {"asleep", "sample", "transmit", "listen", "handle", "retire", "sleep"}

\* The node's state has the shape the code's declarations give it.
TypeOK ==
  /\ slots \in Bindings
  /\ pc \in Phases
  /\ seq \in Numbers
  /\ slot \in 1 .. Len(slots) + 1
  /\ pkt \in [seq : Numbers, declared : SUBSET Channels, faults : SUBSET Channels]
  /\ now \in Nat
  /\ txStart \in Nat
  /\ attempts \in Nat
  /\ nap \in Nat
  /\ aired \in Numbers \cup {None}
  /\ heard \in Numbers \cup {None}
  /\ spent \in Numbers
  /\ deaf \in Nat

\* The retry loop is bounded by the count AND by the window, and the whole wake
\* by the sum of its blocking calls (runcycle.cpp:33-36, "a node stuck awake"):
\* no mix of busy answers, quick or slow, keeps the node up longer than this or
\* has it offer the radio more than TxRetries + 1 frames.
AwakeBudget ==
  Len(slots) * SampleMax + TxWindow + SendMax + RxWindow + HandlerMax
AwakeBounded == now <= AwakeBudget
SendsBounded == attempts <= TxRetries + 1
WakeBounded == AwakeBounded /\ SendsBounded

\* The difference between the number the gateway is about to hear and the last
\* one it heard is exactly the packets spent in between, modulo the counter's
\* width: losses are visible as holes, and a quiet radio or a refused packet
\* never looks like one (runcycle.cpp:124-131, issue #30).
GapsAreLosses == heard # None => seq = WrapAdd(heard, spent)

\* The sequence number doubles as the wake counter of the listen schedule, so
\* it has to advance on every wake, heard or not, and survive its own wrap: no
\* RxEvery packets in a row are sent without a wake that is due to listen
\* (runcycle.cpp:79-88, runcycle.h:44-52).
ListenCadence ==
  RxWindow # 0 => deaf < (IF RxEvery = 0 THEN 1 ELSE RxEvery)

\* What the gateway decodes is the truth about what is fitted: every channel
\* that has a sampler is in the packet that goes on the air, answered or not,
\* and a sampler that cannot answer is never reported as a reading (DEC-002).
DeclaredOrFaulted ==
  pc \in {"transmit", "listen", "handle", "retire"} =>
    /\ pkt.declared = Sampled(Len(slots))
    /\ Unserved(Len(slots)) \subseteq pkt.faults
    /\ pkt.faults \subseteq pkt.declared

\* A node whose packet cannot be built never touches the radio and never spends
\* a number, and still sleeps: what it cannot say never looks like a loss
\* (runcycle.cpp:129-131).
RefusedIsSilent ==
  ~(Sampled(Len(slots)) \subseteq Sizable) =>
    attempts = 0 /\ aired = None /\ seq = 0

\* The sleep asked for is within the jitter of the interval, clamped so that it
\* never underflows to a sleep of weeks (runcycle.cpp:57-65, runcycle.h:90-91).
NapWithinJitter ==
  pc = "asleep" /\ nap # 0 =>
    /\ nap <= Interval + Jitter
    /\ nap + Jitter >= Interval

\* A wake ends: whatever the radio and the gateway do, an awake node reaches
\* deep sleep.
AlwaysSleepsAgain == (pc # "asleep") ~> (pc = "asleep")

\* A number already on the air is never used for a second frame unless a reset
\* came between: sequence numbers identify packets within one power-up.
Ledger == INSTANCE WakeLedger WITH open <- pc \notin {"asleep", "sleep"}
LedgerSpec == Ledger!Spec
=============================================================================
