----------------------------- MODULE SerialFraming -----------------------------
(***************************************************************************)
(* The envelope on the USB cable between the gateway board and the daemon, *)
(* and its two independent readers: the board's, which is fed one byte at  *)
(* a time (firmware/src/core/serial_framing.cpp), and the daemon's, which  *)
(* is fed whatever chunks the port hands over                              *)
(* (gateway/soundings_gateway/framing.py).  Both directions use the same   *)
(* envelope, so both readers are put on one stream here.                   *)
(*                                                                         *)
(* The writer frames one payload after another, with line noise in between *)
(* -- boot text, which is ASCII and so never holds the first sync byte --  *)
(* and may be reset once in the middle of a frame.                         *)
(***************************************************************************)
EXTENDS Integers, Sequences, SequencesExt

CONSTANTS
  Sync0, Sync1,  \* 0xA5, 0x5A
  MinLen,        \* kMinFramedPayload / MIN_PAYLOAD
  MaxLen,        \* kMaxPacketLen / MAX_PAYLOAD
  Payloads,      \* what the writer is asked to frame
  Chatter,       \* bytes written outside any frame
  MaxBytes       \* length of the stream

Overhead == 3
Lengths == MinLen .. MaxLen
Byte == {Sync0, Sync1} \cup Lengths \cup Chatter \cup UNION {Range(p) : p \in Payloads}

ASSUME LengthsAssumption == MinLen \in Nat \ {0} /\ MaxLen \in Nat /\ MaxBytes \in Nat
ASSUME PayloadsAssumption == Payloads \subseteq Seq(Byte)
ASSUME SyncAssumption ==
  /\ Sync0 # Sync1 /\ Sync0 \notin Lengths /\ Sync1 \notin Lengths
  /\ Sync0 \notin Chatter

VARIABLES
  payload,     \* the payload being written
  left,        \* bytes of its frame still to be written
  written,     \* bytes written so far
  cut,         \* has the writer been reset inside a frame
  lost,        \* whole frames written and not emitted
  plain,       \* history: no payload so far held a first sync byte
  held,        \* buf_ of the board's reader
  emitted,     \* candidates the board's reader has emitted
  discarded,   \* and the bytes it has thrown away
  port,        \* bytes in the daemon's serial port, not yet read
  buf,         \* _buf of the daemon's reader
  yielded,     \* candidates the daemon's reader has yielded
  discardedPy  \* and the bytes it has thrown away

writer == <<payload, left, written, cut, lost, plain>>
boardReader == <<held, emitted, discarded>>
daemonReader == <<buf, yielded, discardedPy>>
vars == <<writer, boardReader, port, daemonReader>>

-----------------------------------------------------------------------------
(* The envelope *)

\* frameForSerial() and encode(): nothing is written for a payload the readers
\* would not accept.
Framable(p) == Len(p) \in Lengths
Framed(p) == <<Sync0, Sync1, Len(p)>> \o p

Syncs(s) == {i \in 1 .. Len(s) - 1 : s[i] = Sync0 /\ s[i + 1] = Sync1}

\* Mutant: the last byte is discarded with the rest.
FromWholeSync(s) ==
  IF Syncs(s) = {} THEN <<>>
  ELSE SubSeq(s, CHOOSE i \in Syncs(s) : \A j \in Syncs(s) : i <= j, Len(s))

\* What is left of s once everything that cannot begin a frame is discarded: a
\* last byte that may be half a sync pair is kept.
FromSync(s) ==
  CASE Syncs(s) # {} -> SubSeq(s, CHOOSE i \in Syncs(s) : \A j \in Syncs(s) : i <= j, Len(s))
    [] Syncs(s) = {} /\ s # <<>> /\ Last(s) = Sync0 -> <<Sync0>>
    [] OTHER -> <<>>

BadLength(t) == Len(t) >= Overhead /\ t[3] \notin Lengths
Whole(t) == Len(t) >= Overhead /\ t[3] \in Lengths /\ Len(t) >= Overhead + t[3]

PayloadOf(t) == SubSeq(t, Overhead + 1, Overhead + t[3])
\* Mutant: the buffer is cleared with the frame, and the rest of the chunk with it.
BehindNothing(t) == <<>>
Behind(t) == SubSeq(t, Overhead + t[3] + 1, Len(t))

\* Exactly one byte, so that the real pair of A5 A5 5A is found.
AfterBad(t) == Tail(t)

Skipping(result, n) == [result EXCEPT !.discarded = @ + n]

\* SerialFrameReader::feed(): the loop ends with the first frame emitted.
BoardScan[s \in Seq(Byte)] ==
  LET t == FromSync(s)
      skipped == Len(s) - Len(t)
  IN  CASE BadLength(t) ->
             Skipping(BoardScan[AfterBad(t)], skipped + Len(t) - Len(AfterBad(t)))
        [] Whole(t) ->
             [rest |-> Behind(t), out |-> <<PayloadOf(t)>>, discarded |-> skipped]
        [] OTHER ->
             [rest |-> t, out |-> <<>>, discarded |-> skipped]

\* SerialFramer.feed(): the loop yields every frame the chunk completed.
DaemonScan[s \in Seq(Byte)] ==
  LET t == FromSync(s)
      skipped == Len(s) - Len(t)
  IN  CASE BadLength(t) -> Skipping(DaemonScan[Tail(t)], skipped + 1)
        [] Whole(t) ->
             LET more == DaemonScan[Behind(t)]
             IN  [Skipping(more, skipped) EXCEPT !.out = <<PayloadOf(t)>> \o @]
        [] OTHER ->
             [rest |-> t, out |-> <<>>, discarded |-> skipped]

-----------------------------------------------------------------------------
Init ==
  /\ payload = <<>> /\ left = <<>> /\ written = 0 /\ cut = FALSE /\ lost = 0
  /\ plain = TRUE
  /\ held = <<>> /\ emitted = <<>> /\ discarded = 0
  /\ port = <<>>
  /\ buf = <<>> /\ yielded = <<>> /\ discardedPy = 0

StartFrame ==
  /\ left = <<>>
  /\ \E p \in Payloads :
       /\ Framable(p)
       /\ written + Overhead + Len(p) <= MaxBytes
       /\ payload' = p
       /\ left' = Framed(p)
       /\ plain' = (plain /\ Sync0 \notin Range(p))
  /\ UNCHANGED <<written, cut, lost, boardReader, port, daemonReader>>

\* One byte on the wire: the board's reader takes it as it comes.
Arrive(b) ==
  LET r == BoardScan[Append(held, b)]
  IN  /\ held' = r.rest
      /\ emitted' = emitted \o r.out
      /\ discarded' = discarded + r.discarded
      /\ port' = Append(port, b)
      /\ written' = written + 1

WriteByte ==
  /\ left # <<>>
  /\ Arrive(Head(left))
  /\ left' = Tail(left)
  /\ lost' = IF left' = <<>> /\ emitted' # Append(emitted, payload)
             THEN lost + 1 ELSE lost
  /\ UNCHANGED <<payload, cut, plain, daemonReader>>

WriteNoise ==
  /\ left = <<>>
  /\ written < MaxBytes
  /\ \E b \in Chatter : Arrive(b)
  /\ UNCHANGED <<payload, left, cut, lost, plain, daemonReader>>

\* The writer is reset with part of a frame written; what is counted as lost
\* from here on are whole frames behind the cut.
Reset ==
  /\ ~cut
  /\ left # <<>> /\ left # Framed(payload)
  /\ cut' = TRUE
  /\ left' = <<>>
  /\ lost' = 0
  /\ UNCHANGED <<payload, written, plain, boardReader, port, daemonReader>>

\* The daemon's read() returns any number of the bytes that are there.
ReadChunk ==
  /\ \E k \in 1 .. Len(port) :
       LET r == DaemonScan[buf \o SubSeq(port, 1, k)]
       IN  /\ buf' = r.rest
           /\ yielded' = yielded \o r.out
           /\ discardedPy' = discardedPy + r.discarded
           /\ port' = SubSeq(port, k + 1, Len(port))
  /\ UNCHANGED <<writer, boardReader>>

Next == StartFrame \/ WriteByte \/ WriteNoise \/ Reset \/ ReadChunk

Spec == Init /\ [][Next]_vars

-----------------------------------------------------------------------------
(* Properties *)

\* Two implementations, one fed by the byte and one by the chunk, of any
\* chunking: when they have read the same bytes they have emitted the same
\* candidates, hold the same bytes and have discarded the same number (framing.py
\* feed, SerialFrameReader::feed).  No byte is counted twice or forgotten, so that
\* number is the resync counter it is said to be (framing.py:57-58); and neither
\* buffer reaches the length at which the board's reader gives up and clears its
\* own ("unreachable", serial_framing.cpp:29).
ReadersAgree ==
  /\ port = <<>> => yielded = emitted /\ buf = held /\ discardedPy = discarded
  /\ written = Len(held) + discarded
                + FoldLeft(LAMBDA n, p : n + Overhead + Len(p), 0, emitted)
  /\ Len(held) < Overhead + MaxLen /\ Len(buf) < Overhead + MaxLen

FrameLen == Overhead + MinLen
\* Without a reset every frame is emitted, whatever its payload looks like --
\* sync pairs and length bytes included -- and however much noise is between.
\* A frame cut short swallows what follows, but never more than one payload's
\* worth of bytes: at most as many whole frames are lost as that many bytes can
\* touch.  (Payloads that hold sync bytes of their own can keep the reader out of
\* step for longer, and are left out of the second part.)
LossBounded ==
  /\ ~cut => lost = 0
  /\ cut /\ plain => lost <= (MaxLen + FrameLen - 1) \div FrameLen
=============================================================================
