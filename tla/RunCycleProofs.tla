--------------------------- MODULE RunCycleProofs ---------------------------
(***************************************************************************)
(* Proofs about the wake cycle for every configuration: any slots, any     *)
(* retry count and windows, any width of the sequence counter.             *)
(***************************************************************************)
EXTENDS RunCycle, TLAPS

\* Phases in which this wake's packet exists and its number is not yet retired.
Open == {"sample", "transmit", "listen", "handle", "retire"}

\* How late it can be, phase by phase: the inductive form of AwakeBounded.
SampleBudget == Len(slots) * SampleMax
ClockInv ==
  /\ pc = "sample" => now <= (slot - 1) * SampleMax
  /\ pc = "transmit" => /\ txStart <= SampleBudget
                        /\ txStart <= now
                        /\ now <= txStart + TxWindow
  /\ pc = "listen" => now <= SampleBudget + TxWindow + SendMax
  /\ pc = "handle" => now <= SampleBudget + TxWindow + SendMax + RxWindow
  /\ AwakeBounded

SendInv ==
  /\ pc = "sample" => attempts = 0
  /\ pc = "transmit" => attempts <= TxRetries
  /\ SendsBounded

\* The number on the air is the number in RTC memory, aired at most once.
NumberInv ==
  /\ pc \in Open => pkt.seq = seq
  /\ pc \in {"sample", "transmit"} => aired = None
  /\ GapsAreLosses

\* The packet describes the slots walked so far, then all of them.
PacketInv ==
  /\ pc = "sample" => /\ pkt.declared = Sampled(slot - 1)
                      /\ Unserved(slot - 1) \subseteq pkt.faults
                      /\ pkt.faults \subseteq pkt.declared
  /\ DeclaredOrFaulted

\* A packet that cannot be built is never let out of assembly.
RefuseInv ==
  ~(Sampled(Len(slots)) \subseteq Sizable) =>
    pc \in {"asleep", "sample", "sleep"} /\ attempts = 0 /\ aired = None /\ seq = 0

IInv == /\ TypeOK /\ ClockInv /\ SendInv /\ NumberInv /\ PacketInv /\ RefuseInv
        /\ NapWithinJitter

-----------------------------------------------------------------------------
(* Arithmetic the steps below rest on. *)

LEMMA SlotsLen ==
  \A s \in Bindings : s \in Seq(Slot) /\ Len(s) \in Nat /\ DOMAIN s = 1 .. Len(s)
  BY BindingsAssumption

\* What the properties make of the slots changes only with them.
LEMMA SlotSetsStay ==
  ASSUME slots' = slots
  PROVE  /\ Channels' = Channels /\ AwakeBudget' = AwakeBudget
         /\ SampleBudget' = SampleBudget /\ Len(slots)' = Len(slots)
         /\ \A n : Sampled(n)' = Sampled(n) /\ Unserved(n)' = Unserved(n)
  BY DEF Channels, AwakeBudget, SampleBudget, Sampled, Unserved

\* The part of the budget the slots take, one slot at a time.
LEMMA SlotBudget ==
  ASSUME slots \in Bindings, NEW i \in 1 .. Len(slots)
  PROVE  /\ (i - 1) * SampleMax + SampleMax = ((i + 1) - 1) * SampleMax
         /\ i * SampleMax <= SampleBudget
         /\ (i - 1) * SampleMax \in Nat
<1>1. \A a, b, c \in Nat : a <= b => a * c <= b * c
  BY SMT
<1>2. i * SampleMax <= Len(slots) * SampleMax
  BY <1>1, SlotsLen, TimesAssumption
<1> QED BY <1>2, SlotsLen, TimesAssumption DEF SampleBudget

LEMMA ProductNat == \A a, b \in Nat : a * b \in Nat
  BY SMT

LEMMA BudgetNat ==
  ASSUME slots \in Bindings
  PROVE  /\ SampleBudget \in Nat
         /\ AwakeBudget = SampleBudget + TxWindow + SendMax + RxWindow + HandlerMax
         /\ AwakeBudget \in Nat
  BY ProductNat, SlotsLen, TimesAssumption DEF SampleBudget, AwakeBudget

\* Advancing both counters by one keeps one ahead of the other by the same.
LEMMA SuccessorAdds ==
  ASSUME NEW a \in Numbers, NEW b \in Numbers
  PROVE  /\ Successor(a) \in Numbers
         /\ Successor(WrapAdd(a, b)) = WrapAdd(a, Successor(b))
         /\ WrapAdd(a, 0) = a
  BY SeqModAssumption DEF Numbers, Successor, WrapAdd

LEMMA SmallMod == \A a \in Nat, m \in Nat \ {0} : a < m => a % m = a
  BY SMT

LEMMA ModRange == \A a \in Int, m \in Nat \ {0} : a % m \in 0 .. m - 1
  BY SMT

\* The sleep arithmetic stays inside its word, so it does not wrap, and what it
\* yields is the interval give or take the jitter.
LEMMA NextSleepBounds ==
  ASSUME NEW r \in Entropy
  PROVE  /\ NextSleepMs(r) \in Nat
         /\ NextSleepMs(r) <= Interval + Jitter
         /\ NextSleepMs(r) + Jitter >= Interval
<1> DEFINE jitter == IF Jitter > Interval THEN Interval ELSE Jitter
           span == jitter * 2 + 1
           offset == r % span
<1>1. /\ jitter \in Nat /\ jitter <= Interval /\ jitter <= Jitter
      /\ Interval - jitter \in Nat
  BY TimesAssumption
<1> HIDE DEF jitter, span
<1>2. span < Word /\ span \in Nat \ {0}
  BY <1>1, WordAssumption, TimesAssumption DEF span
<1>3. span % Word = span
  BY <1>2, SmallMod, WordAssumption
<1>4. offset \in 0 .. 2 * jitter
  <2>1. r \in Int
    BY WordAssumption
  <2>2. r % span \in 0 .. span - 1
    BY <1>2, <2>1, ModRange
  <2> QED BY <1>1, <2>2 DEF span
<1>5. (Interval - jitter) + offset \in Nat /\ (Interval - jitter) + offset < Word
  BY <1>1, <1>4, WordAssumption, TimesAssumption
<1>6. ((Interval - jitter) + offset) % Word = (Interval - jitter) + offset
  BY <1>5, SmallMod, WordAssumption
<1>7. NextSleepMs(r) = IF Jitter = 0 THEN Interval ELSE (Interval - jitter) + offset
  BY <1>3, <1>6 DEF NextSleepMs, jitter, span
<1> QED BY <1>1, <1>4, <1>7, TimesAssumption

-----------------------------------------------------------------------------
LEMMA InitInv == Init => IInv
<1> SUFFICES ASSUME Init PROVE IInv
  OBVIOUS
<1>1. TypeOK
  BY SeqModAssumption, SlotsLen DEF Init, TypeOK, Phases, Numbers, NoPacket
<1>2. ClockInv
  BY BudgetNat, TimesAssumption DEF Init, ClockInv, AwakeBounded
<1>3. SendInv /\ NumberInv /\ PacketInv /\ RefuseInv /\ NapWithinJitter
  BY TimesAssumption DEF Init, RefuseInv, SendInv, SendsBounded, NumberInv, Open, GapsAreLosses,
                         PacketInv, DeclaredOrFaulted, NapWithinJitter
<1> QED BY <1>1, <1>2, <1>3 DEF IInv
-----------------------------------------------------------------------------
LEMMA TypeStep == TypeOK /\ [Next]_vars => TypeOK'
<1> SUFFICES ASSUME TypeOK, [Next]_vars PROVE TypeOK'
  OBVIOUS
<1> USE DEF TypeOK, Phases, nodeVars, linkVars
<1>0. 0 \in Numbers /\ Successor(seq) \in Numbers /\ Successor(spent) \in Numbers
  BY SeqModAssumption DEF Numbers, Successor
<1>0a. slots' = slots => Channels' = Channels /\ Len(slots') = Len(slots)
  BY SlotSetsStay
<1> USE <1>0a
<1>1. CASE Wake
  BY <1>0, <1>1, SlotsLen DEF Wake
<1>2a. CASE PassOver
  BY <1>2a, SlotsLen DEF PassOver
<1>2. CASE SampleSlot
  <2>1. slot \in 1 .. Len(slots)
    BY <1>2, SlotsLen DEF SampleSlot, Answered, Missed
  <2>2. slots[slot].channel \in Channels
    BY <2>1 DEF Channels
  <2>3. slot' \in 1 .. Len(slots) + 1
    BY <1>2, <2>1, SlotsLen DEF SampleSlot, Answered, Missed
  <2>4. pkt' \in [seq : Numbers, declared : SUBSET Channels, faults : SUBSET Channels]
    <3>1. CASE pkt' = [pkt EXCEPT !.declared = @ \cup {slots[slot].channel}]
      BY <2>2, <3>1
    <3>2. CASE pkt' = [pkt EXCEPT !.declared = @ \cup {slots[slot].channel},
                                  !.faults = @ \cup {slots[slot].channel}]
      BY <2>2, <3>2
    <3> QED BY <1>2, <3>1, <3>2 DEF SampleSlot, Answered, Missed
  <2>5. now' \in Nat
    <3>1. PICK d \in 0 .. SampleMax : now' = now + d
      BY <1>2 DEF SampleSlot, Answered, Missed
    <3> QED BY <3>1, TimesAssumption
  <2> QED BY <1>2, <2>3, <2>4, <2>5 DEF SampleSlot, Answered, Missed
<1>3. CASE Assembled
  BY <1>3 DEF Assembled
<1>4. CASE SendOk
  BY <1>0, <1>4, TimesAssumption DEF SendOk, OnAir
<1>5. CASE SendFailed
  BY <1>0, <1>5, TimesAssumption DEF SendFailed, OnAir
<1>6. CASE SendBusy
  BY <1>6, TimesAssumption DEF SendBusy, RetriesLeft
<1>7. CASE SkipListen
  BY <1>7 DEF SkipListen
<1>8. CASE Listen
  BY <1>8, TimesAssumption DEF Listen
<1>9. CASE HandlerReturns
  BY <1>9, TimesAssumption DEF HandlerReturns
<1>10. CASE Retire
  BY <1>0, <1>10 DEF Retire
<1>11. CASE Sleep
  BY <1>11, NextSleepBounds DEF Sleep
<1>12. CASE Restart
  <2>1. Len(slots') \in Nat /\ slots' \in Bindings
    BY <1>12, SlotsLen DEF Restart
  <2> QED BY <1>0, <1>12, <2>1 DEF Restart, NoPacket
<1>13. CASE UNCHANGED vars
  BY <1>13 DEF vars
<1> QED BY <1>1, <1>2a, <1>2, <1>3, <1>4, <1>5, <1>6, <1>7, <1>8, <1>9, <1>10, <1>11,
           <1>12, <1>13 DEF Next, Node

\* The clock: only a step that blocks advances it, and each is paid for by one
\* term of the budget.
LEMMA ClockStep == TypeOK /\ ClockInv /\ [Next]_vars => ClockInv'
<1> SUFFICES ASSUME TypeOK, ClockInv, [Next]_vars PROVE ClockInv'
  OBVIOUS
<1>0. slots' = slots => /\ AwakeBudget' = AwakeBudget
                        /\ SampleBudget' = SampleBudget
                        /\ Len(slots') = Len(slots)
  BY SlotSetsStay
<1>0a. /\ SampleBudget \in Nat /\ AwakeBudget \in Nat
       /\ AwakeBudget = SampleBudget + TxWindow + SendMax + RxWindow + HandlerMax
  BY BudgetNat DEF TypeOK
<1> USE TimesAssumption, <1>0, <1>0a DEF nodeVars, ClockInv, AwakeBounded, TypeOK
<1>1. CASE Wake
  BY <1>1 DEF Wake
<1>2a. CASE PassOver
  <2>1. slot \in 1 .. Len(slots) /\ pc' = "sample" /\ slot' = slot + 1 /\ now' = now
    BY <1>2a, SlotsLen DEF PassOver
  <2>2. (slot - 1) * SampleMax + SampleMax = (slot' - 1) * SampleMax
    BY <2>1, SlotBudget
  <2>3. (slot - 1) * SampleMax \in Nat
    BY <2>1, SlotBudget
  <2>4. slots' = slots /\ now' <= (slot' - 1) * SampleMax
    BY <1>2a, <2>1, <2>2, <2>3 DEF PassOver
  <2> QED BY <1>2a, <2>1, <2>4 DEF PassOver
<1>2. CASE SampleSlot
  <2>1. slot \in 1 .. Len(slots) /\ pc = "sample" /\ pc' = "sample" /\ slot' = slot + 1
    BY <1>2, SlotsLen DEF SampleSlot, Answered, Missed
  <2>2. now' <= now + SampleMax
    BY <1>2 DEF SampleSlot, Answered, Missed
  <2>3. now' <= (slot' - 1) * SampleMax /\ now' <= SampleBudget
    BY <2>1, <2>2, SlotBudget, TypeStep
  <2>4. now' \in Nat
    BY TypeStep
  <2>5. AwakeBudget' = AwakeBudget
    BY <1>2 DEF SampleSlot
  <2> QED BY <2>1, <2>3, <2>4, <2>5
<1>3. CASE Assembled
  <2>1. slot = Len(slots) + 1 /\ Len(slots) \in Nat
    BY <1>3, SlotsLen DEF Assembled
  <2>2. now <= SampleBudget
    BY <1>3, <2>1 DEF Assembled, SampleBudget
  <2> QED BY <1>3, <2>2 DEF Assembled
<1>4. CASE SendOk
  BY <1>4 DEF SendOk
<1>5. CASE SendFailed
  BY <1>5 DEF SendFailed
<1>6. CASE SendBusy
  BY <1>6 DEF SendBusy, RetriesLeft, WindowExpired
<1>7. CASE SkipListen
  BY <1>7 DEF SkipListen
<1>8. CASE Listen
  BY <1>8 DEF Listen
<1>9. CASE HandlerReturns
  BY <1>9 DEF HandlerReturns
<1>10. CASE Retire
  BY <1>10 DEF Retire
<1>11. CASE Sleep
  BY <1>11 DEF Sleep
<1>12. CASE Restart
  <2>1. Len(slots') * SampleMax \in Nat
    BY <1>12, SlotsLen, ProductNat DEF Restart
  <2> QED BY <1>12, <2>1 DEF Restart, AwakeBudget
<1>13. CASE UNCHANGED vars
  BY <1>13 DEF vars
<1> QED BY <1>1, <1>2a, <1>2, <1>3, <1>4, <1>5, <1>6, <1>7, <1>8, <1>9, <1>10, <1>11,
           <1>12, <1>13 DEF Next, Node

\* The retry loop: a send that is followed by another was within the count.
LEMMA SendStep == TypeOK /\ SendInv /\ [Next]_vars => SendInv'
<1> SUFFICES ASSUME TypeOK, SendInv, [Next]_vars PROVE SendInv'
  OBVIOUS
<1> USE TimesAssumption DEF SendInv, SendsBounded, TypeOK
<1>1. CASE Wake
  BY <1>1 DEF Wake
<1>2. CASE PassOver \/ SampleSlot
  BY <1>2 DEF PassOver, SampleSlot
<1>3. CASE Assembled
  BY <1>3 DEF Assembled
<1>4. CASE SendOk \/ SendFailed
  BY <1>4 DEF SendOk, SendFailed
<1>5. CASE SendBusy
  BY <1>5 DEF SendBusy, RetriesLeft
<1>6. CASE SkipListen \/ Listen \/ HandlerReturns
  BY <1>6 DEF SkipListen, Listen, HandlerReturns, nodeVars
<1>7. CASE Retire \/ Sleep
  BY <1>7 DEF Retire, Sleep, nodeVars
<1>8. CASE Restart
  BY <1>8 DEF Restart
<1>9. CASE UNCHANGED vars
  BY <1>9 DEF vars
<1> QED BY <1>1, <1>2, <1>3, <1>4, <1>5, <1>6, <1>7, <1>8, <1>9 DEF Next, Node

\* The number: loaded once a wake, aired at most once, retired once; and the
\* gateway's last number plus what was retired since is always the next one.
LEMMA NumberStep == TypeOK /\ NumberInv /\ [Next]_vars => NumberInv'
<1> SUFFICES ASSUME TypeOK, NumberInv, [Next]_vars PROVE NumberInv'
  OBVIOUS
<1> USE DEF NumberInv, GapsAreLosses, Open
<1>1. CASE Wake
  BY <1>1 DEF Wake
<1>2. CASE PassOver
  BY <1>2 DEF PassOver, linkVars
<1>3. CASE SampleSlot
  <2>1. pkt'.seq = pkt.seq
    BY <1>3 DEF SampleSlot, Answered, Missed, TypeOK
  <2> QED BY <1>3, <2>1 DEF SampleSlot, Answered, Missed, linkVars
<1>4. CASE Assembled
  BY <1>4 DEF Assembled, linkVars
<1>5. CASE SendOk \/ SendFailed
  <2>1. seq' = seq /\ pkt' = pkt /\ pkt.seq = seq /\ seq \in Numbers
    BY <1>5 DEF SendOk, SendFailed, TypeOK
  <2>2. CASE OnAir
    BY <1>5, <2>1, <2>2, SuccessorAdds, SeqModAssumption
       DEF OnAir, SendOk, SendFailed, Numbers
  <2>3. CASE UNCHANGED linkVars
    BY <1>5, <2>1, <2>3 DEF SendOk, SendFailed, linkVars
  <2> QED BY <1>5, <2>2, <2>3 DEF SendOk, SendFailed
<1>6. CASE SendBusy
  BY <1>6 DEF SendBusy, RetriesLeft, linkVars
<1>7. CASE SkipListen \/ Listen \/ HandlerReturns
  BY <1>7 DEF SkipListen, Listen, HandlerReturns, nodeVars, linkVars
<1>8. CASE Retire
  <2>1. ASSUME heard' # None PROVE seq' = WrapAdd(heard', spent')
    <3>1. heard \in Numbers /\ spent \in Numbers /\ seq = WrapAdd(heard, spent)
      BY <1>8, <2>1 DEF Retire, TypeOK
    <3> QED BY <1>8, <3>1, SuccessorAdds DEF Retire
  <2> QED BY <1>8, <2>1 DEF Retire, nodeVars
<1>9. CASE Sleep
  BY <1>9 DEF Sleep, nodeVars, linkVars
<1>10. CASE Restart
  BY <1>10 DEF Restart
<1>11. CASE UNCHANGED vars
  BY <1>11 DEF vars
<1> QED BY <1>1, <1>2, <1>3, <1>4, <1>5, <1>6, <1>7, <1>8, <1>9, <1>10, <1>11
    DEF Next, Node

\* What a slot adds to the two sets, and nothing else does.
LEMMA OneMoreSlot ==
  ASSUME slots \in Bindings, NEW i \in 1 .. Len(slots)
  PROVE  /\ slots[i].sampler = "null" =>
              Sampled(i) = Sampled(i - 1) /\ Unserved(i) = Unserved(i - 1)
         /\ slots[i].sampler # "null" =>
              Sampled(i) = Sampled(i - 1) \cup {slots[i].channel}
         /\ slots[i].sampler = "fitted" => Unserved(i) = Unserved(i - 1)
         /\ Unserved(i) \subseteq Unserved(i - 1) \cup {slots[i].channel}
<1>1. 1 .. i = (1 .. i - 1) \cup {i}
  BY SlotsLen
<1> QED BY <1>1 DEF Sampled, Unserved

LEMMA NothingWalked == Sampled(0) = {} /\ Unserved(0) = {}
  BY DEF Sampled, Unserved

\* The packet: each slot adds its own channel, and its own fault when it missed.
LEMMA PacketStep == TypeOK /\ PacketInv /\ [Next]_vars => PacketInv'
<1> SUFFICES ASSUME TypeOK, PacketInv, [Next]_vars PROVE PacketInv'
  OBVIOUS
<1>0. slots' = slots =>
        /\ \A n : Sampled(n)' = Sampled(n) /\ Unserved(n)' = Unserved(n)
        /\ Len(slots)' = Len(slots)
  BY SlotSetsStay
<1>0a. slots \in Bindings
  BY DEF TypeOK
<1> USE <1>0, <1>0a DEF PacketInv, DeclaredOrFaulted
<1>1. CASE Wake
  BY <1>1, NothingWalked DEF Wake
<1>2. CASE PassOver
  <2>1. slot \in 1 .. Len(slots) /\ (slot + 1) - 1 = slot
    BY <1>2, SlotsLen DEF PassOver, TypeOK
  <2> QED BY <1>2, <2>1, OneMoreSlot DEF PassOver
<1>3. CASE SampleSlot
  <2>1. slot \in 1 .. Len(slots) /\ (slot + 1) - 1 = slot
    BY <1>3, SlotsLen DEF SampleSlot, Answered, Missed, TypeOK
  <2>2. pkt'.declared = Sampled(slot)
    BY <1>3, <2>1, OneMoreSlot DEF SampleSlot, Answered, Missed, TypeOK
  <2>3. Unserved(slot) \subseteq pkt'.faults /\ pkt'.faults \subseteq pkt'.declared
    <3>1. CASE pkt' = [pkt EXCEPT !.declared = @ \cup {slots[slot].channel}]
               /\ slots[slot].sampler = "fitted"
      <4>1. pkt'.faults = pkt.faults /\ pkt.declared \subseteq pkt'.declared
        BY <3>1 DEF TypeOK
      <4> QED BY <1>3, <2>1, <3>1, <4>1, OneMoreSlot DEF SampleSlot, Answered, Missed
    <3>2. CASE pkt' = [pkt EXCEPT !.declared = @ \cup {slots[slot].channel},
                                  !.faults = @ \cup {slots[slot].channel}]
      <4>1. /\ pkt'.faults = pkt.faults \cup {slots[slot].channel}
            /\ pkt'.declared = pkt.declared \cup {slots[slot].channel}
        BY <3>2 DEF TypeOK
      <4> QED BY <1>3, <2>1, <4>1, OneMoreSlot DEF SampleSlot, Answered, Missed
    <3> QED BY <1>3, <3>1, <3>2 DEF SampleSlot, Answered, Missed
  <2> QED BY <1>3, <2>1, <2>2, <2>3 DEF SampleSlot, Answered, Missed
<1>4. CASE Assembled
  <2>1. slot - 1 = Len(slots)
    BY <1>4, SlotsLen DEF Assembled, TypeOK
  <2> QED BY <1>4, <2>1 DEF Assembled
<1>5. CASE SendOk \/ SendFailed \/ SendBusy
  BY <1>5 DEF SendOk, SendFailed, SendBusy
<1>6. CASE SkipListen \/ Listen \/ HandlerReturns
  BY <1>6 DEF SkipListen, Listen, HandlerReturns, nodeVars
<1>7. CASE Retire \/ Sleep
  BY <1>7 DEF Retire, Sleep, nodeVars
<1>8. CASE Restart
  BY <1>8 DEF Restart
<1>9. CASE UNCHANGED vars
  BY <1>9 DEF vars
<1> QED BY <1>1, <1>2, <1>3, <1>4, <1>5, <1>6, <1>7, <1>8, <1>9 DEF Next, Node

\* The refusal: what is assembled is what the slots say, so a node that cannot be
\* served goes back to sleep with nothing spent.
LEMMA RefuseStep == TypeOK /\ PacketInv /\ RefuseInv /\ [Next]_vars => RefuseInv'
<1> SUFFICES ASSUME TypeOK, PacketInv, RefuseInv, [Next]_vars PROVE RefuseInv'
  OBVIOUS
<1> DEFINE Fits == Sampled(Len(slots)) \subseteq Sizable
<1>0. slots' = slots => (Fits' <=> Fits)
  BY SlotSetsStay
<1> HIDE DEF Fits
<1>1. RefuseInv <=> (~Fits => pc \in {"asleep", "sample", "sleep"} /\ attempts = 0
                               /\ aired = None /\ seq = 0)
  BY DEF RefuseInv, Fits
<1>2. RefuseInv' <=> (~Fits' => pc' \in {"asleep", "sample", "sleep"} /\ attempts' = 0
                                 /\ aired' = None /\ seq' = 0)
  BY DEF RefuseInv, Fits
<1> USE <1>0, <1>1, <1>2 DEF nodeVars, linkVars
<1>3. CASE Assembled
  <2>1. slot - 1 = Len(slots)
    BY <1>3, SlotsLen DEF Assembled, TypeOK
  <2>2. Serializable(pkt) => Fits
    BY <1>3, <2>1 DEF Assembled, PacketInv, Serializable, Fits
  <2> QED BY <1>3, <2>2 DEF Assembled
<1>4. CASE Wake \/ PassOver \/ SampleSlot
  BY <1>4 DEF Wake, PassOver, SampleSlot
<1>5. CASE SendOk \/ SendFailed \/ SendBusy
  BY <1>5 DEF SendOk, SendFailed, SendBusy
<1>6. CASE SkipListen \/ Listen \/ HandlerReturns \/ Retire
  BY <1>6 DEF SkipListen, Listen, HandlerReturns, Retire
<1>7. CASE Sleep \/ Restart
  BY <1>7 DEF Sleep, Restart
<1>8. CASE UNCHANGED vars
  BY <1>8 DEF vars
<1> QED BY <1>3, <1>4, <1>5, <1>6, <1>7, <1>8 DEF Next, Node

\* The sleep: only Sleep sets it, and to a value within the jitter.
LEMMA NapStep == NapWithinJitter /\ [Next]_vars => NapWithinJitter'
<1> SUFFICES ASSUME NapWithinJitter, [Next]_vars PROVE NapWithinJitter'
  OBVIOUS
<1> USE DEF NapWithinJitter
<1>1. CASE Sleep
  BY <1>1, NextSleepBounds DEF Sleep
<1>2. CASE Restart
  BY <1>2 DEF Restart
<1>3. CASE Wake \/ PassOver \/ SampleSlot \/ Assembled
  BY <1>3 DEF Wake, PassOver, SampleSlot, Assembled
<1>4. CASE SendOk \/ SendFailed \/ SendBusy
  BY <1>4 DEF SendOk, SendFailed, SendBusy
<1>5. CASE SkipListen \/ Listen \/ HandlerReturns \/ Retire
  BY <1>5 DEF SkipListen, Listen, HandlerReturns, Retire
<1>6. CASE UNCHANGED vars
  BY <1>6 DEF vars
<1> QED BY <1>1, <1>2, <1>3, <1>4, <1>5, <1>6 DEF Next, Node

-----------------------------------------------------------------------------
LEMMA Inductive == Spec => []IInv
<1>1. IInv /\ [Next]_vars => IInv'
  BY TypeStep, ClockStep, SendStep, NumberStep, PacketStep, RefuseStep, NapStep DEF IInv
<1> QED BY InitInv, <1>1, PTL DEF Spec

\* The state has the shape the code declares.
THEOREM TypeCorrect == Spec => []TypeOK
  BY Inductive, PTL DEF IInv

\* However busy the radio, however often, whatever the gateway answers: no wake
\* outlasts the sum of its blocking calls plus one transmit window, and the retry
\* count bounds the frames of a wake whatever the clock does.
THEOREM NeverStuckAwake == Spec => []WakeBounded
  BY Inductive, PTL DEF IInv, ClockInv, SendInv, WakeBounded

\* A hole in the numbers the gateway hears counts the packets lost in it.
THEOREM LossesAreVisible == Spec => []GapsAreLosses
  BY Inductive, PTL DEF IInv, NumberInv

\* Every fitted channel is in every packet, and none that cannot answer is
\* reported as a reading.
THEOREM NothingDropped == Spec => []DeclaredOrFaulted
  BY Inductive, PTL DEF IInv, PacketInv

\* A node whose slots the codec cannot carry is silent and spends no number.
THEOREM UnservableIsSilent == Spec => []RefusedIsSilent
  BY Inductive, PTL DEF IInv, RefuseInv, RefusedIsSilent

\* No configuration and no random number yields a sleep outside the interval
\* give or take the jitter, as long as their sum fits the word.
THEOREM SleepsOnSchedule == Spec => []NapWithinJitter
  BY Inductive, PTL DEF IInv

\* The wake cycle keeps the ledger's promise: one number a wake, aired at most
\* once, retired exactly once, and reset only with the whole ledger.
THEOREM RunCycleImplementsLedger == Spec => LedgerSpec
<1> DEFINE open == pc \notin {"asleep", "sleep"}
<1>1. Init => Ledger!Init
  BY DEF Init, Ledger!Init
<1>2. IInv /\ [Next]_vars => [Ledger!Next]_(Ledger!ledgerVars)
  <2> SUFFICES ASSUME IInv, [Next]_vars
               PROVE  [Ledger!Next]_(Ledger!ledgerVars)
    OBVIOUS
  <2> USE DEF IInv, NumberInv, Open, linkVars, nodeVars,
              Ledger!Next, Ledger!ledgerVars
  <2>1. CASE Wake
    BY <2>1 DEF Wake, Ledger!Begin
  <2>2. CASE PassOver \/ SampleSlot
    BY <2>2 DEF PassOver, SampleSlot
  <2>3. CASE Assembled
    BY <2>3 DEF Assembled, Ledger!Refuse
  <2>4. CASE SendOk \/ SendFailed
    <3>1. CASE OnAir
      BY <2>4, <3>1 DEF SendOk, SendFailed, OnAir, Ledger!Air
    <3>2. CASE UNCHANGED linkVars
      BY <2>4, <3>2 DEF SendOk, SendFailed
    <3> QED BY <2>4, <3>1, <3>2 DEF SendOk, SendFailed
  <2>5. CASE SendBusy
    BY <2>5 DEF SendBusy
  <2>6. CASE SkipListen \/ Listen \/ HandlerReturns
    BY <2>6 DEF SkipListen, Listen, HandlerReturns
  <2>7. CASE Retire
    BY <2>7 DEF Retire, Successor, Ledger!Retire, Ledger!Successor
  <2>8. CASE Sleep
    BY <2>8 DEF Sleep
  <2>9. CASE Restart
    BY <2>9 DEF Restart, Ledger!Restart
  <2>10. CASE UNCHANGED vars
    BY <2>10 DEF vars
  <2> QED BY <2>1, <2>2, <2>3, <2>4, <2>5, <2>6, <2>7, <2>8, <2>9, <2>10
      DEF Next, Node
<1> QED BY Inductive, <1>1, <1>2, PTL DEF Spec, LedgerSpec, Ledger!Spec

-----------------------------------------------------------------------------
(* The listen schedule *)

\* One more than a number whose successor is no multiple.
LEMMA ModuloCounts ==
  ASSUME NEW d \in Nat \ {0}, NEW n \in Nat, (n + 1) % d # 0
  PROVE  (n + 1) % d = (n % d) + 1
<1> DEFINE q == n \div d
           r == n % d
<1>1. q \in Nat /\ r \in 0 .. d - 1 /\ n = d * q + r
  OBVIOUS
<1> HIDE DEF q, r
<1>2. CASE r + 1 < d
  <2>1. n + 1 = d * q + (r + 1)
    BY <1>1
  <2>2. (n + 1) % d = r + 1
    BY <1>1, <1>2, <2>1
  <2> QED BY <2>2 DEF r
<1>3. CASE r + 1 = d
  <2>1. n + 1 = d * (q + 1)
    BY <1>1, <1>3
  <2>2. (n + 1) % d = 0
    BY <1>1, <2>1
  <2> QED BY <2>2
<1> QED BY <1>1, <1>2, <1>3

\* The wakes since one was due to listen are the number's distance from the last
\* multiple of the cadence; after a wrap they are whatever they had come to, and
\* zero is a multiple.
CadenceInv ==
  RxWindow # 0 =>
    IF RxEvery <= 1 THEN deaf = 0
    ELSE IF seq = 0 THEN deaf < RxEvery ELSE deaf = (seq - 1) % RxEvery

LEMMA CadenceStep == TypeOK /\ CadenceInv /\ [Next]_vars => CadenceInv'
<1> SUFFICES ASSUME TypeOK, CadenceInv, [Next]_vars, RxWindow # 0 PROVE CadenceInv'
  BY DEF CadenceInv
<1>1. CASE UNCHANGED <<seq, deaf>>
  BY <1>1 DEF CadenceInv
<1>2. CASE Retire
  <2>1. seq \in Nat /\ seq < SeqMod /\ deaf \in Nat /\ RxEvery \in Nat
    BY SeqModAssumption, TimesAssumption DEF TypeOK, Numbers
  <2>2. seq' = Successor(seq) /\ deaf' = IF ShouldListenThisWake THEN 0 ELSE deaf + 1
    BY <1>2 DEF Retire
  <2>3. CASE RxEvery <= 1
    BY <2>2, <2>3 DEF CadenceInv, ShouldListenThisWake
  <2>4. CASE RxEvery > 1
    <3>1. seq % RxEvery \in 0 .. RxEvery - 1 /\ 0 % RxEvery = 0
      BY <2>1, <2>4
    <3>2. deaf' = seq % RxEvery
      <4>1. CASE seq % RxEvery = 0
        BY <2>2, <4>1 DEF ShouldListenThisWake
      <4>2. CASE seq % RxEvery # 0
        <5>1. seq # 0 /\ seq - 1 \in Nat /\ (seq - 1) + 1 = seq
          BY <2>1, <3>1, <4>2
        <5>2. deaf = (seq - 1) % RxEvery
          BY <2>1, <2>4, <5>1 DEF CadenceInv
        <5>3. seq % RxEvery = ((seq - 1) % RxEvery) + 1
          <6> DEFINE n == seq - 1
          <6>1. n \in Nat /\ n + 1 = seq /\ RxEvery \in Nat \ {0}
            BY <2>1, <2>4, <5>1
          <6> HIDE DEF n
          <6>2. (n + 1) % RxEvery = (n % RxEvery) + 1
            BY <4>2, <6>1, ModuloCounts
          <6> QED BY <6>1, <6>2 DEF n
        <5>4. ~ShouldListenThisWake
          BY <2>1, <2>4, <4>2 DEF ShouldListenThisWake
        <5> QED BY <2>2, <5>2, <5>3, <5>4
      <4> QED BY <4>1, <4>2
    <3>3. seq' # 0 => seq' - 1 = seq
      BY <2>1, <2>2 DEF Successor
    <3> QED BY <2>1, <2>4, <3>1, <3>2, <3>3 DEF CadenceInv
  <2> QED BY <2>1, <2>3, <2>4
<1>3. CASE Restart
  BY <1>3, TimesAssumption DEF Restart, CadenceInv
<1>4. CASE ~Retire /\ ~Restart
  <2>1. UNCHANGED <<seq, deaf>>
    BY <1>4 DEF Next, Node, Wake, PassOver, SampleSlot, Assembled, SendOk, SendFailed,
       SendBusy, OnAir, SkipListen, Listen, HandlerReturns, Sleep, linkVars, vars
  <2> QED BY <1>1, <2>1
<1> QED BY <1>2, <1>3, <1>4

\* For any counter width and cadence, dividing one another or not: no RxEvery wakes
\* in a row spend a number without one that was due to listen, the wrap included.
THEOREM CadenceSurvivesWrap == Spec => []ListenCadence
<1>1. Init => CadenceInv
  BY TimesAssumption DEF Init, CadenceInv
<1>2. TypeOK /\ CadenceInv => ListenCadence
  <2> SUFFICES ASSUME TypeOK, CadenceInv, RxWindow # 0
               PROVE  deaf < (IF RxEvery = 0 THEN 1 ELSE RxEvery)
    BY DEF ListenCadence
  <2>1. RxEvery \in Nat /\ seq \in Nat
    BY TimesAssumption, SeqModAssumption DEF TypeOK, Numbers
  <2>2. CASE RxEvery <= 1
    BY <2>1, <2>2 DEF CadenceInv
  <2>3. CASE RxEvery > 1 /\ seq # 0
    <3>1. (seq - 1) % RxEvery < RxEvery
      BY <2>1, <2>3
    <3> QED BY <2>1, <2>3, <3>1 DEF CadenceInv
  <2>4. CASE RxEvery > 1 /\ seq = 0
    BY <2>1, <2>4 DEF CadenceInv
  <2> QED BY <2>1, <2>2, <2>3, <2>4
<1> QED BY Inductive, <1>1, <1>2, CadenceStep, PTL DEF Spec, IInv
=============================================================================
