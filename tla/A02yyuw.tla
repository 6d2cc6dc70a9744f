------------------------------ MODULE A02yyuw ------------------------------
(***************************************************************************)
(* The tank's distance sensor: A02yyuwFrameParser and                      *)
(* A02yyuwDistance::read() (firmware/src/core/a02yyuw.cpp), and the sensor *)
(* that talks to them.  The sensor is never asked: as long as it has power *)
(* it sends a four-byte frame about every 100 ms, and the driver starts    *)
(* hearing it wherever it happens to be.                                   *)
(*                                                                         *)
(* Time is counted in frame periods since the rail came up, and `offset`   *)
(* is the byte of its frame the sensor was at when it did: a period ends   *)
(* each time it is there again.  A byte on the wire may be damaged, to a   *)
(* value from a small set.  A frame may be whole and wrong: the first ones *)
(* after power-up, and now and then an echo off something that is not the  *)
(* water.                                                                  *)
(***************************************************************************)
EXTENDS Integers, Sequences, SequencesExt, FiniteSets

CONSTANTS
  Levels,         \* distances the sensor may honestly report, in mm
  Echoes,         \* distances it may report that are not the water's
  Damage,         \* what a byte may become on the wire
  MaxDamaged,     \* bound: bytes damaged in one read
  MaxEchoes,      \* bound: false echoes in range in one read, once warm
  Settle,         \* cfg_.settleMs, in frame periods
  DiscardFrames,  \* cfg_.discardFrames
  SampleFrames,   \* cfg_.sampleFrames
  Deadline,       \* cfg_.deadlineMs, in frame periods
  MinMm,          \* cfg_.minMm
  MaxMm           \* cfg_.maxMm

Word == 0 .. 65535

Configured ==
  /\ Levels \subseteq MinMm .. MaxMm /\ Echoes \subseteq Word
  /\ Damage \subseteq 0 .. 255
  /\ MaxDamaged \in Nat /\ MaxEchoes \in Nat
  /\ Settle \in Nat /\ DiscardFrames \in 0 .. 255 /\ SampleFrames \in 0 .. 255
  /\ Deadline \in Nat /\ MinMm \in Nat /\ MaxMm \in Nat

ASSUME ConfigAssumption == Configured

VARIABLES
  pc,         \* "idle" or "reading"
  rail,       \* the switched rail
  since,      \* frame periods since the rail came up
  held,       \* A02yyuwFrameParser: bytes of the frame in hand (buf_, held_)
  discarded,  \* valid frames thrown away so far
  samples,    \* the distances collected
  result,     \* the last read's Reading
  frame,      \* the frame the sensor is sending...
  sent,       \* ... and how many of its bytes it has sent
  offset,     \* where in its frame the sensor was when the rail came up
  damaged,    \* history: bytes damaged on the wire since the rail came up
  echoed      \* history: false echoes in range since the sensor was warm

sensorVars == <<frame, sent, offset, damaged, echoed>>
vars == <<pc, rail, since, held, discarded, samples, result, frame, sent,
          offset, damaged, echoed>>

-----------------------------------------------------------------------------
(* Frames *)

Header == 255
CheckSum(h, l) == (Header + h + l) % 256
FrameOf(mm) == << Header, mm \div 256, mm % 256, CheckSum(mm \div 256, mm % 256) >>
Distance(h, l) == h * 256 + l

-----------------------------------------------------------------------------
(* A02yyuwFrameParser::feed *)

\* The fourth byte of a frame, against the three in hand.
SumHolds(b) == b = CheckSum(held[2], held[3])

\* A byte short of a whole frame: hunting, or filling.
Kept(b) ==
  IF held = <<>> THEN IF b = Header THEN <<b>> ELSE <<>> ELSE Append(held, b)

\* What the parser hands out for this byte: a distance, or nothing.  A bad sum
\* is consumed with its frame, and not looked at again as a header.
Delivers(b) == Len(held) = 3 /\ SumHolds(b)
HeldAfter(b) == IF Len(held) = 3 THEN <<>> ELSE Kept(b)

-----------------------------------------------------------------------------
(* A02yyuwDistance::read *)

\* sampleFrames clamped to [1, kMaxSampleFrames]
Want == IF SampleFrames = 0 THEN 1 ELSE IF SampleFrames > 7 THEN 7 ELSE SampleFrames

\* medianOf: what is at v[n / 2] once v is sorted, the upper middle of an even
\* count.  No more than that many are below it, and it is among the first after them.
Below(v, x) == {i \in DOMAIN v : v[i] < x}
UpTo(v, x) == {i \in DOMAIN v : v[i] <= x}
IsMiddle(v, x) ==
  Cardinality(Below(v, x)) <= Len(v) \div 2 /\ Len(v) \div 2 < Cardinality(UpTo(v, x))
MedianOf(v) == CHOOSE x \in Range(v) : IsMiddle(v, x)

Reportable(mm) == mm >= MinMm /\ mm <= MaxMm

Failed == [ok |-> FALSE, raw |-> 0]

Init ==
  /\ pc = "idle"
  /\ rail = FALSE
  /\ since = 0
  /\ held = <<>>
  /\ discarded = 0
  /\ samples = <<>>
  /\ result = Failed
  /\ frame = FrameOf(CHOOSE mm \in Levels : TRUE)
  /\ sent = 4
  /\ offset = 0
  /\ damaged = 0
  /\ echoed = 0

\* The sensor turns to its next frame.  What it says before it has warmed up is
\* anything; after that, now and then, a false echo, and one out of range (0 is
\* what a sensor with nothing to say emits) as often as it likes.
NewFrame(warm) ==
  \/ \E mm \in Levels : frame' = FrameOf(mm) /\ UNCHANGED echoed
  \/ \E mm \in Echoes :
       /\ frame' = FrameOf(mm)
       /\ echoed' = IF warm /\ mm \in MinMm .. MaxMm THEN echoed + 1 ELSE echoed
       /\ echoed' <= MaxEchoes

\* The rail comes up; the parser drops what it held; the sensor starts, the
\* driver hearing it from some byte of its first frame on.
Start ==
  /\ pc = "idle"
  /\ pc' = "reading"
  /\ rail' = TRUE
  /\ held' = <<>>
  /\ since' = 0
  /\ discarded' = 0
  /\ samples' = <<>>
  /\ result' = Failed
  /\ \E mm \in Levels : frame' = FrameOf(mm)
  /\ offset' \in 0 .. 3
  /\ sent' = offset'
  /\ damaged' = 0
  /\ echoed' = 0

\* The deadline, looked at before the byte.
GiveUp ==
  /\ pc = "reading"
  /\ since >= Deadline
  /\ pc' = "idle"
  /\ rail' = FALSE
  /\ result' = Failed
  /\ UNCHANGED <<since, held, discarded, samples, sensorVars>>

\* Mutant: frames are collected from the first.
NoneDiscarded(mm) == FALSE
StillSettling(mm) == discarded < DiscardFrames

\* A distance the parser delivered: out of range, discarded, or collected; the
\* last one wanted ends the read.
Take(mm) ==
  IF ~Reportable(mm)
    THEN UNCHANGED <<pc, rail, discarded, samples, result>>
  ELSE IF StillSettling(mm)
    THEN discarded' = discarded + 1 /\ UNCHANGED <<pc, rail, samples, result>>
  ELSE LET v == Append(samples, mm) IN
       /\ samples' = v
       /\ UNCHANGED discarded
       /\ IF Len(v) >= Want
            THEN /\ result' = [ok |-> TRUE, raw |-> MedianOf(v)]
                 /\ rail' = FALSE
                 /\ pc' = "idle"
            ELSE UNCHANGED <<pc, rail, result>>

\* Inside the settling window bytes are read and thrown away.
Dropped == since < Settle

\* The sensor's next byte reaches the driver, perhaps damaged, and the driver
\* takes it before the next one.
Byte ==
  /\ pc = "reading"
  /\ since < Deadline
  /\ sent < 4
  /\ \E b \in {frame[sent + 1]} \cup (IF damaged < MaxDamaged THEN Damage ELSE {}) :
       LET fine == b = frame[sent + 1]
           got  == ~Dropped /\ Delivers(b) IN
       /\ damaged' = IF fine THEN damaged ELSE damaged + 1
       /\ held' = IF Dropped THEN held ELSE HeldAfter(b)
       /\ IF got
            THEN Take(Distance(held[2], held[3]))
            ELSE UNCHANGED <<pc, rail, discarded, samples, result>>
  /\ sent' = sent + 1
  /\ since' = IF sent' = offset THEN since + 1 ELSE since
  /\ UNCHANGED <<frame, offset, echoed>>

\* The gap between two frames.
NextFrame ==
  /\ pc = "reading"
  /\ since < Deadline
  /\ sent = 4
  /\ sent' = 0
  /\ since' = IF offset = 0 THEN since + 1 ELSE since
  /\ NewFrame(since' >= Settle + DiscardFrames)
  /\ UNCHANGED <<pc, rail, held, discarded, samples, result, offset, damaged>>

\* A period in which the sensor says nothing: it is not there, or has stopped.
Silence ==
  /\ pc = "reading"
  /\ since < Deadline
  /\ since' = since + 1
  /\ UNCHANGED <<pc, rail, held, discarded, samples, result, sensorVars>>

\* Power is lost in the middle of a read; the rail's gate is pulled up.
PowerLost ==
  /\ pc = "reading"
  /\ pc' = "idle"
  /\ rail' = FALSE
  /\ result' = Failed
  /\ UNCHANGED <<since, held, discarded, samples, sensorVars>>

Read == Start \/ Byte \/ NextFrame \/ Silence \/ GiveUp

Next == Read \/ PowerLost

Spec == Init /\ [][Next]_vars

-----------------------------------------------------------------------------
(* Properties *)

\* A distance no higher and no lower than the water was.
OffTheWater(mm) == \E a, b \in Levels : a <= mm /\ mm <= b

\* With fewer false echoes than half the samples, the reading is off the water:
\* damage, a late start in the middle of a frame, an unsettled sensor and an answer
\* out of range never reach it (a02yyuw.cpp:28-65 and :103-123, a02yyuw.h:60-88).
MedianSurvives ==
  (result.ok /\ 2 * echoed < Want) => OffTheWater(result.raw)

\* The j-th byte of a's frame and then b's.
Sent(a, b, j) == IF j <= 4 THEN FrameOf(a)[j] ELSE FrameOf(b)[j - 4]

\* Four bytes in a row, heard from the (k + 1)-th of a's frame on, those in `hit`
\* damaged to d.
Window(a, b, k, hit, d) ==
  [i \in 1 .. 4 |-> IF i \in hit THEN d[i] ELSE Sent(a, b, k + i)]

\* The parser and the range check take these four bytes for a distance.
Passes(w) ==
  w[1] = Header /\ w[4] = CheckSum(w[2], w[3]) /\ Reportable(Distance(w[2], w[3]))

\* What a checksum of eight bits has to be trusted with: with as many bytes damaged
\* as may be, and wherever the parser locks, what passes is off the water or is the
\* frame's own distance.
SumsTell ==
  \A a, b \in Levels \cup Echoes, k \in 0 .. 3, hit \in SUBSET (1 .. 4) :
    Cardinality(hit) <= MaxDamaged =>
      \A d \in [hit -> Damage] :
        LET w == Window(a, b, k, hit, d)
            mm == Distance(w[2], w[3])
        IN  Passes(w) => OffTheWater(mm) \/ (k = 0 /\ mm = a)
=============================================================================
