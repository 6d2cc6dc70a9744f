---------------------------- MODULE SensorProofs ----------------------------
(***************************************************************************)
(* Proofs about the headspace probe's driver, for every set of             *)
(* configuration bytes, temperatures, conversion times and clock readings: *)
(* a reading is this read's own, a fault has a cause, the EEPROM is        *)
(* written at most once per power-up, and the rail is up exactly as long   *)
(* as a read lasts.  And about the tank node, whose two drivers share one  *)
(* rail: each may act as if the rail were its own.  And about the distance *)
(* sensor's driver: a reading lies between two distances measured off the  *)
(* water.                                                                  *)
(*                                                                         *)
(* The invariants say nothing of the middle of a read, where all of this   *)
(* is decided, so the inductive one adds what each place in read() may     *)
(* rely on: what the floor was taken from, what the wait has already seen  *)
(* and not accepted, and who may still write.  The distance sensor's says  *)
(* what the bytes in hand are, what was discarded by when, and how many of *)
(* the samples may be false.                                               *)
(***************************************************************************)
EXTENDS Ds18b20, Sequences, FiniteSetTheorems, NaturalsInduction, WellFoundedInduction,
        TLAPS

\* What is already settled at each place in read().
InHand ==
  /\ pc \in {"before", "convert", "wait", "after"} =>
       ~result.ok /\ probe.live = probe.eeprom
  /\ pc \in {"convert", "wait", "after"} => minConv = ConversionMs(probe.live)
  /\ pc \in {"wait", "after"} =>
       (~excuse => finish <= ConversionMs(probe.live))
  /\ pc = "wait" => since = 0 \/ ~SaysDone(since)
  /\ pc = "after" => SaysDone(since)
  /\ pc \in {"heal", "copy"} => result.ok

\* Who may still write the EEPROM, and how often it has been written.
Wear ==
  /\ copies <= 1
  /\ allCopies <= copies + boots - 1
  /\ ~flag => copies = 0
  /\ pc \in {"heal", "copy"} => flag /\ copies = 0 /\ probe.eeprom # Wanted

Power == rail = (pc # "idle")

Inductive == TypeOK /\ InHand /\ Wear /\ Power /\ ReadingTrue /\ FaultHasCause

-----------------------------------------------------------------------------
(* The tables *)

\* ConversionMs covers no more than the 12-bit conversion.
LEMMA FloorBounded ==
  ASSUME NEW c \in Configs
  PROVE  /\ ConversionMs(c) \in {0, 94, 188, 375, 750}
         /\ ConversionMs(c) \in Nat /\ ConversionMs(c) <= 750
BY DEF ConversionMs

\* Masking takes off what the register left undefined and nothing else, and
\* leaves the power-up value alone.
LEMMA MaskTakesNoiseOff ==
  ASSUME NEW c \in Configs, NEW a \in Int, NEW n \in 0 .. UndefinedBelow(c) - 1
  PROVE  Masked(Representable(a, c) + n, c) = Representable(a, c)
<1>1. CASE c = 31
  <2>1. UndefinedBelow(c) = 8 BY <1>1 DEF UndefinedBelow
  <2> QED BY <2>1 DEF Masked, Representable
<1>2. CASE c = 63
  <2>1. UndefinedBelow(c) = 4 BY <1>2 DEF UndefinedBelow
  <2> QED BY <2>1 DEF Masked, Representable
<1>3. CASE c = 95
  <2>1. UndefinedBelow(c) = 2 BY <1>3 DEF UndefinedBelow
  <2> QED BY <2>1 DEF Masked, Representable
<1>4. CASE c \notin {31, 63, 95}
  <2>1. UndefinedBelow(c) = 1 BY <1>4 DEF UndefinedBelow
  <2> QED BY <2>1 DEF Masked, Representable
<1> QED BY <1>1, <1>2, <1>3, <1>4

LEMMA MaskKeepsSentinel ==
  ASSUME NEW c \in Configs
  PROVE  Masked(Sentinel, c) = Sentinel
<1>1. UndefinedBelow(c) \in {1, 2, 4, 8} BY DEF UndefinedBelow
<1>2. Sentinel % 1 = 0 /\ Sentinel % 2 = 0 /\ Sentinel % 4 = 0 /\ Sentinel \in Int
      /\ Sentinel % 8 = 0
  BY RawAssumption
<1> QED BY <1>1, <1>2 DEF Masked

LEMMA MaskedIsInt ==
  ASSUME NEW c \in Configs, NEW a \in Int
  PROVE  Masked(a, c) \in Int /\ Representable(a, c) \in Int
<1>1. UndefinedBelow(c) \in {1, 2, 4, 8} BY DEF UndefinedBelow
<1> QED BY <1>1 DEF Masked, Representable

-----------------------------------------------------------------------------
(* The inductive invariant *)

LEMMA InitHolds == Init => Inductive
<1> SUFFICES ASSUME Init PROVE Inductive OBVIOUS
<1> USE DEF Init, Failed
<1>1. DriverOK BY DEF DriverOK
<1>2. ResultOK BY DEF ResultOK
<1>3. ProbeOK BY DEF ProbeOK
<1>4. WearOK BY DEF WearOK
<1>5. InHand /\ Wear /\ ReadingTrue /\ FaultHasCause
  BY DEF InHand, Wear, ReadingTrue, FaultHasCause
<1>6. Power BY Zenon DEF Power
<1> QED BY <1>1, <1>2, <1>3, <1>4, <1>5, <1>6 DEF Inductive, TypeOK

LEMMA StartKeeps ==
  ASSUME Inductive, Start
  PROVE  Inductive'
<1> USE DEF Inductive, TypeOK, Start, Failed, wearVars
<1>1. DriverOK' BY DEF DriverOK
<1>2. ResultOK' BY DEF ResultOK
<1>3. ProbeOK' BY DEF ProbeOK, NewProbe
<1>4. WearOK' BY DEF WearOK
<1>5. InHand' BY DEF InHand, ProbeOK, NewProbe
<1>6. Wear' BY DEF Wear
<1>7. Power' BY DEF Power
<1>8. ReadingTrue' BY DEF ReadingTrue
<1>9. FaultHasCause' BY DEF FaultHasCause
<1> QED BY <1>1, <1>2, <1>3, <1>4, <1>5, <1>6, <1>7, <1>8, <1>9

\* A return because the bus did not answer keeps everything.
LEMMA BusFailsKeeps ==
  ASSUME Inductive, BusFails,
         UNCHANGED <<since, minConv, flag, probe, finish, air, copies, allCopies, boots>>
  PROVE  Inductive'
<1> USE DEF Inductive, TypeOK, BusFails, Finish, Failed
<1>1. DriverOK' BY DEF DriverOK
<1>2. ResultOK' BY DEF ResultOK
<1>3. ProbeOK' BY DEF ProbeOK, NewProbe
<1>4. WearOK' BY DEF WearOK
<1>5. InHand' BY DEF InHand
<1>6. Wear' BY DEF Wear
<1>7. Power' BY DEF Power
<1>8. ReadingTrue' BY DEF ReadingTrue
<1>9. FaultHasCause' BY DEF FaultHasCause
<1> QED BY <1>1, <1>2, <1>3, <1>4, <1>5, <1>6, <1>7, <1>8, <1>9

LEMMA ReadBeforeKeeps ==
  ASSUME Inductive, ReadBefore
  PROVE  Inductive'
<1>0. probe.live \in Configs BY DEF Inductive, TypeOK, ProbeOK, NewProbe
<1>1. CASE BusFails /\ UNCHANGED minConv
  BY <1>1, BusFailsKeeps DEF ReadBefore, wearVars
<1>2. CASE /\ minConv' = ConversionMs(probe.live) /\ pc' = "convert"
           /\ UNCHANGED <<rail, result, excuse>>
  <2>0. /\ pc = "before"
        /\ UNCHANGED <<since, flag, probe, finish, air, copies, allCopies, boots>>
    BY DEF ReadBefore, wearVars
  <2> USE <1>2, <2>0 DEF Inductive, TypeOK
  <2>1. DriverOK' BY <1>0, FloorBounded DEF DriverOK
  <2>2. ResultOK' BY DEF ResultOK
  <2>3. ProbeOK' BY DEF ProbeOK, NewProbe
  <2>4. WearOK' BY DEF WearOK
  <2>5. InHand' BY DEF InHand, ConversionMs
  <2>6. Wear' BY DEF Wear
  <2>7. Power' BY DEF Power
  <2>8. ReadingTrue' BY DEF ReadingTrue, InHand
  <2>9. FaultHasCause' BY DEF FaultHasCause
  <2> QED BY <2>1, <2>2, <2>3, <2>4, <2>5, <2>6, <2>7, <2>8, <2>9
<1> QED BY <1>1, <1>2 DEF ReadBefore

LEMMA ConvertKeeps ==
  ASSUME Inductive, Convert
  PROVE  Inductive'
<1>0. probe.live \in Configs BY DEF Inductive, TypeOK, ProbeOK, NewProbe
<1>1. CASE BusFails /\ UNCHANGED <<since, finish, air>>
  BY <1>1, BusFailsKeeps DEF Convert, wearVars
<1>2. ASSUME NEW t \in Temps, NEW f \in Finishes,
             air' = t, finish' = f, excuse' = (f > ConversionMs(probe.live)),
             since' = 0, pc' = "wait", UNCHANGED <<rail, result>>
      PROVE  Inductive'
  <2>0. /\ pc = "convert"
        /\ UNCHANGED <<minConv, flag, probe, copies, allCopies, boots>>
    BY DEF Convert, wearVars
  <2>10. t \in Int /\ f \in Nat BY RawAssumption, TimeAssumption
  <2> USE <1>2, <2>0 DEF Inductive, TypeOK
  <2>1. DriverOK' BY DEF DriverOK
  <2>2. ResultOK' BY DEF ResultOK
  <2>3. ProbeOK'
    <3>1. ConversionMs(probe.live) \in Int BY <1>0, FloorBounded
    <3> QED BY <2>10, <3>1 DEF ProbeOK, NewProbe
  <2>4. WearOK' BY DEF WearOK
  <2>5. InHand'
    <3>1. ConversionMs(probe.live)' = ConversionMs(probe.live) BY DEF ConversionMs
    <3>2. ConversionMs(probe.live) \in Nat BY <1>0, FloorBounded
    <3>3. /\ ~result.ok /\ probe.live = probe.eeprom
          /\ minConv = ConversionMs(probe.live)
      BY DEF InHand
    <3>4. CASE f > ConversionMs(probe.live)
      <4>1. excuse' BY <3>4
      <4> QED BY <4>1, <3>1, <3>3 DEF InHand
    <3>5. CASE ~(f > ConversionMs(probe.live))
      <4>1. finish' <= ConversionMs(probe.live) BY <3>5, <3>2, <2>10
      <4> QED BY <4>1, <3>1, <3>3 DEF InHand
    <3> QED BY <3>4, <3>5
  <2>6. Wear' BY DEF Wear
  <2>7. Power' BY DEF Power
  <2>8. ReadingTrue' BY DEF ReadingTrue, InHand
  <2>9. FaultHasCause' BY DEF FaultHasCause
  <2> QED BY <2>1, <2>2, <2>3, <2>4, <2>5, <2>6, <2>7, <2>8, <2>9
<1> QED BY <1>1, <1>2 DEF Convert

\* The deadline is met only by a probe that is slower than its datasheet: one
\* that is not would have been believed one turn of the loop earlier.
LEMMA ExpiryHasCause ==
  ASSUME Inductive, pc = "wait", NEW now \in Instants,
         now >= since, now - since < Pass, Expired(now)
  PROVE  excuse
<1>1. probe.live \in Configs /\ since \in Nat /\ finish \in Nat
  BY DEF Inductive, TypeOK, DriverOK, ProbeOK, NewProbe
<1>2. minConv = ConversionMs(probe.live) /\ ConversionMs(probe.live) <= 750
  BY <1>1, FloorBounded DEF Inductive, InHand
<1>3. ConversionMs(probe.live) \in Nat BY <1>1, FloorBounded
<1>4. since > 750 BY <1>1, TimeAssumption DEF Expired
<1>5. ~SaysDone(since) BY <1>4, <1>1 DEF Inductive, InHand
<1>6. finish > ConversionMs(probe.live)
  BY <1>1, <1>2, <1>3, <1>4, <1>5 DEF SaysDone
<1> QED BY <1>1, <1>3, <1>6 DEF Inductive, InHand

LEMMA WaitKeeps ==
  ASSUME Inductive, Wait
  PROVE  Inductive'
<1> USE DEF Inductive
<1>0. pc = "wait" BY DEF Wait
<1> PICK now \in Instants :
      /\ now >= since
      /\ now - since < Pass
      /\ since' = now
      /\ \/ Expired(now) /\ Finish(Failed)
         \/ /\ ~Expired(now)
            /\ pc' = IF SaysDone(now) THEN "after" ELSE "wait"
            /\ UNCHANGED <<rail, result>>
  BY DEF Wait
<1>9. UNCHANGED <<minConv, flag, probe, finish, air, excuse, copies, allCopies, boots>>
  BY DEF Wait, probeVars, wearVars
<1>8. now \in Nat BY TimeAssumption
<1>1. CASE Expired(now) /\ Finish(Failed)
  <2>1. excuse BY <1>1, <1>0, ExpiryHasCause
  <2>2. TypeOK'
    <3>1. DriverOK' BY <1>1, <1>8, <1>9 DEF TypeOK, DriverOK, Finish, Failed
    <3>2. ResultOK' BY <1>1, <1>8, <1>9 DEF TypeOK, ResultOK, Finish, Failed
    <3>3. ProbeOK' BY <1>1, <1>8, <1>9 DEF TypeOK, ProbeOK, NewProbe, Finish, Failed
    <3>4. WearOK' BY <1>1, <1>8, <1>9 DEF TypeOK, WearOK
    <3> QED BY <3>1, <3>2, <3>3, <3>4 DEF TypeOK
  <2>3. InHand' BY <1>1, <1>9 DEF InHand, Finish
  <2>4. Wear' BY <1>1, <1>9 DEF Wear, Finish
  <2>5. Power' BY <1>1 DEF Power, Finish
  <2>6. ReadingTrue' BY <1>1 DEF ReadingTrue, Finish, Failed
  <2>7. FaultHasCause' BY <2>1, <1>9 DEF FaultHasCause
  <2> QED BY <2>2, <2>3, <2>4, <2>5, <2>6, <2>7
<1>2. CASE /\ ~Expired(now)
           /\ pc' = IF SaysDone(now) THEN "after" ELSE "wait"
           /\ UNCHANGED <<rail, result>>
  <2>2. TypeOK'
    <3>1. DriverOK' BY <1>2, <1>8, <1>9 DEF TypeOK, DriverOK
    <3>2. ResultOK' BY <1>2, <1>8, <1>9 DEF TypeOK, ResultOK
    <3>3. ProbeOK' BY <1>2, <1>8, <1>9 DEF TypeOK, ProbeOK, NewProbe
    <3>4. WearOK' BY <1>2, <1>8, <1>9 DEF TypeOK, WearOK
    <3> QED BY <3>1, <3>2, <3>3, <3>4 DEF TypeOK
  <2>3. InHand'
    <3>1. SaysDone(now)' = SaysDone(now) BY <1>9 DEF SaysDone
    <3>2. SaysDone(since)' = SaysDone(now) BY <1>9 DEF SaysDone
    <3>3. CASE SaysDone(now) BY <1>2, <1>9, <1>0, <3>2, <3>3 DEF InHand
    <3>4. CASE ~SaysDone(now) BY <1>2, <1>9, <1>0, <3>2, <3>4 DEF InHand
    <3> QED BY <3>3, <3>4
  <2>4. Wear' BY <1>2, <1>9, <1>0 DEF Wear
  <2>5. Power' BY <1>2, <1>0 DEF Power
  <2>6. ReadingTrue' BY <1>2, <1>9, <1>0 DEF ReadingTrue, InHand
  <2>7. FaultHasCause' BY <1>2, <1>0 DEF FaultHasCause
  <2> QED BY <2>2, <2>3, <2>4, <2>5, <2>6, <2>7
<1> QED BY <1>1, <1>2

\* What the second scratchpad read gives, masked, is the temperature; or it is
\* the power-up value, and the probe was slower than its datasheet.
LEMMA RegisterIsTheTruth ==
  ASSUME Inductive, pc = "after", NEW reg \in Register
  PROVE  \/ Masked(reg, probe.live) = Representable(air, probe.live)
         \/ Masked(reg, probe.live) = Sentinel /\ excuse
<1>1. /\ probe.live \in Configs /\ air \in Int
      /\ since \in Nat /\ finish \in Nat /\ minConv \in Nat
  BY DEF Inductive, TypeOK, DriverOK, ProbeOK, NewProbe
<1>2. CASE since >= finish
  <2>1. PICK n \in 0 .. UndefinedBelow(probe.live) - 1 :
          reg = Representable(air, probe.live) + n
    BY <1>2 DEF Register
  <2> QED BY <2>1, <1>1, MaskTakesNoiseOff
<1>3. CASE ~(since >= finish)
  <2>1. reg = Sentinel BY <1>3 DEF Register
  <2>2. Masked(reg, probe.live) = Sentinel BY <2>1, <1>1, MaskKeepsSentinel
  <2>3. since >= minConv /\ minConv = ConversionMs(probe.live)
    BY DEF Inductive, InHand, SaysDone
  <2>4. finish > ConversionMs(probe.live) BY <2>3, <1>3, <1>1
  <2>5. excuse BY <2>3, <2>4, <1>1 DEF Inductive, InHand
  <2> QED BY <2>2, <2>5
<1> QED BY <1>2, <1>3

LEMMA RegisterIsInt ==
  ASSUME Inductive, NEW reg \in Register
  PROVE  reg \in Int /\ Masked(reg, probe.live) \in Int
<1>1. probe.live \in Configs /\ air \in Int BY DEF Inductive, TypeOK, DriverOK, ProbeOK, NewProbe
<1>2. UndefinedBelow(probe.live) \in {1, 2, 4, 8} BY DEF UndefinedBelow
<1>3. Representable(air, probe.live) \in Int BY <1>1, MaskedIsInt
<1>4. reg \in Int BY <1>1, <1>2, <1>3, RawAssumption DEF Register
<1> QED BY <1>4, <1>1, MaskedIsInt

LEMMA ReadAfterKeeps ==
  ASSUME Inductive, ReadAfter
  PROVE  Inductive'
<1> USE DEF Inductive
<1>0. /\ pc = "after" /\ probe.live \in Configs /\ probe.live = probe.eeprom
      /\ minConv = ConversionMs(probe.live)
  BY DEF ReadAfter, TypeOK, ProbeOK, NewProbe, InHand
<1>9. UNCHANGED <<since, minConv, probe, finish, air, copies, allCopies, boots>>
  BY DEF ReadAfter, wearVars
<1>1. CASE BusFails /\ UNCHANGED flag BY <1>1, <1>9, BusFailsKeeps
<1>2. ASSUME NEW reg \in Register,
             ~Believable(Masked(reg, probe.live)),
             Finish(Failed), UNCHANGED <<flag, excuse>>
      PROVE  Inductive'
  <2>2. TypeOK'
    <3>1. DriverOK' BY <1>2, <1>9 DEF TypeOK, DriverOK, Finish, Failed
    <3>2. ResultOK' BY <1>2, <1>9 DEF TypeOK, ResultOK, Finish, Failed
    <3>3. ProbeOK' BY <1>2, <1>9 DEF TypeOK, ProbeOK, NewProbe, Finish, Failed
    <3>4. WearOK' BY <1>2, <1>9 DEF TypeOK, WearOK
    <3> QED BY <3>1, <3>2, <3>3, <3>4 DEF TypeOK
  <2>3. InHand' BY <1>2, <1>9 DEF InHand, Finish
  <2>4. Wear' BY <1>2, <1>9 DEF Wear, Finish
  <2>5. Power' BY <1>2 DEF Power, Finish
  <2>6. ReadingTrue' BY <1>2 DEF ReadingTrue, Finish, Failed
  <2>7. FaultHasCause'
    <3>1. excuse \/ ~Believable(Representable(air, probe.live))
      BY <1>2, <1>0, RegisterIsTheTruth
    <3> QED BY <3>1, <1>0, <1>9, <1>2 DEF FaultHasCause, Believable, Representable
  <2> QED BY <2>2, <2>3, <2>4, <2>5, <2>6, <2>7
<1>3. ASSUME NEW reg \in Register,
             Believable(Masked(reg, probe.live)),
             result' = [ok |-> TRUE, raw |-> Masked(reg, probe.live)],
             UNCHANGED excuse,
             \/ /\ NeedsHeal(probe.live) /\ flag' = TRUE
                /\ pc' = "heal" /\ UNCHANGED rail
             \/ /\ pc' = "idle" /\ rail' = FALSE /\ UNCHANGED flag
      PROVE  Inductive'
  <2>1. Masked(reg, probe.live) \in Int BY <1>3, RegisterIsInt
  <2>2. TypeOK'
    <3>1. DriverOK' BY <1>3, <1>9, <2>1 DEF TypeOK, DriverOK
    <3>2. ResultOK' BY <1>3, <1>9, <2>1 DEF TypeOK, ResultOK
    <3>3. ProbeOK' BY <1>3, <1>9, <2>1 DEF TypeOK, ProbeOK, NewProbe
    <3>4. WearOK' BY <1>3, <1>9, <2>1 DEF TypeOK, WearOK
    <3> QED BY <3>1, <3>2, <3>3, <3>4 DEF TypeOK
  <2>3. InHand' BY <1>3, <1>9 DEF InHand
  <2>4. Wear' BY <1>3, <1>9, <1>0 DEF Wear, NeedsHeal
  <2>5. Power'
    <3>1. rail = TRUE BY <1>0 DEF Power
    <3>2. CASE pc' = "heal" /\ UNCHANGED rail BY <3>1, <3>2 DEF Power
    <3>3. CASE pc' = "idle" /\ rail' = FALSE BY <3>3 DEF Power
    <3> QED BY <1>3, <3>2, <3>3
  <2>6. ReadingTrue'
    <3>1. Masked(reg, probe.live) = Representable(air, probe.live)
      BY <1>3, <1>0, RegisterIsTheTruth DEF Believable
    <3>2. Believable(result.raw)' BY <1>3 DEF Believable
    <3> QED BY <3>1, <3>2, <1>0, <1>3, <1>9 DEF ReadingTrue, Representable
  <2>7. FaultHasCause' BY <1>3 DEF FaultHasCause
  <2> QED BY <2>2, <2>3, <2>4, <2>5, <2>6, <2>7
<1> QED BY <1>1, <1>2, <1>3 DEF ReadAfter, Finish

LEMMA WriteConfigKeeps ==
  ASSUME Inductive, WriteConfig
  PROVE  Inductive'
<1> USE DEF Inductive, WriteConfig, Finish, probeVars, wearVars
<1>1. TypeOK'
  <2>1. DriverOK'
    <3>1. UNCHANGED <<since, minConv, flag>> OBVIOUS
    <3>2. pc' \in {"copy", "idle"} OBVIOUS
    <3>3. rail' = rail \/ rail' = FALSE OBVIOUS
    <3>4. DriverOK BY DEF TypeOK
    <3> HIDE DEF Inductive, WriteConfig, Finish
    <3>5. rail' \in BOOLEAN BY <3>3, <3>4, Zenon DEF DriverOK
    <3> QED BY <3>1, <3>2, <3>4, <3>5 DEF DriverOK
  <2>2. ResultOK' BY DEF TypeOK, ResultOK
  <2>3. ProbeOK' BY DEF TypeOK, ProbeOK, NewProbe
  <2>4. WearOK' BY DEF TypeOK, WearOK
  <2> QED BY <2>1, <2>2, <2>3, <2>4 DEF TypeOK
<1>2. InHand' BY DEF InHand
<1>3. Wear' BY DEF Wear, TypeOK, ProbeOK, WearOK, NewProbe
<1>4. Power' BY DEF Power
<1>5. ReadingTrue' BY DEF ReadingTrue, Believable, Representable
<1>6. FaultHasCause' BY DEF FaultHasCause, InHand
<1> QED BY <1>1, <1>2, <1>3, <1>4, <1>5, <1>6

LEMMA CopyConfigKeeps ==
  ASSUME Inductive, CopyConfig
  PROVE  Inductive'
<1> USE DEF Inductive, CopyConfig, Finish, probeVars
<1>1. TypeOK'
  <2>1. DriverOK' BY DEF TypeOK, DriverOK
  <2>2. ResultOK' BY DEF TypeOK, ResultOK
  <2>3. ProbeOK' BY DEF TypeOK, ProbeOK, NewProbe
  <2>4. WearOK' BY DEF TypeOK, WearOK
  <2> QED BY <2>1, <2>2, <2>3, <2>4 DEF TypeOK
<1>2. InHand' BY DEF InHand
<1>3. Wear' BY DEF Wear, TypeOK, WearOK
<1>4. Power' BY DEF Power
<1>5. ReadingTrue' BY DEF ReadingTrue, Believable, Representable
<1>6. FaultHasCause' BY DEF FaultHasCause, InHand
<1> QED BY <1>1, <1>2, <1>3, <1>4, <1>5, <1>6

LEMMA PowerLostKeeps ==
  ASSUME Inductive, PowerLost
  PROVE  Inductive'
<1> USE DEF Inductive, PowerLost, Failed
<1>1. TypeOK'
  <2>1. DriverOK' BY DEF TypeOK, DriverOK
  <2>2. ResultOK' BY DEF TypeOK, ResultOK
  <2>3. ProbeOK' BY DEF TypeOK, ProbeOK, NewProbe
  <2>4. WearOK' BY DEF TypeOK, WearOK
  <2> QED BY <2>1, <2>2, <2>3, <2>4 DEF TypeOK
<1>2. InHand' BY DEF InHand
<1>3. Wear' BY DEF Wear, TypeOK, WearOK
<1>4. Power' BY DEF Power
<1>5. ReadingTrue' BY DEF ReadingTrue
<1>6. FaultHasCause' BY DEF FaultHasCause
<1> QED BY <1>1, <1>2, <1>3, <1>4, <1>5, <1>6

LEMMA StutterKeeps ==
  ASSUME Inductive, UNCHANGED vars
  PROVE  Inductive'
BY DEF Inductive, vars, TypeOK, DriverOK, ResultOK, ProbeOK, WearOK, NewProbe,
       InHand, Wear, Power, ReadingTrue, FaultHasCause, SaysDone, Believable, Representable

\* The strengthened invariant holds in every state of the driver and the probe.
THEOREM InductiveHolds == Spec => []Inductive
<1>1. Init => Inductive BY InitHolds
<1>2. Inductive /\ [Next]_vars => Inductive'
  BY StartKeeps, ReadBeforeKeeps, ConvertKeeps, WaitKeeps, ReadAfterKeeps,
     WriteConfigKeeps, CopyConfigKeeps, PowerLostKeeps, StutterKeeps DEF Next, Read
<1> QED BY <1>1, <1>2, PTL DEF Spec

-----------------------------------------------------------------------------
(* What follows from it *)

\* Type correctness of the driver, the probe and the counters (ds18b20.cpp).
THEOREM TypeCorrect == Spec => []TypeOK
<1>1. Inductive => TypeOK BY DEF Inductive
<1> QED BY <1>1, InductiveHolds, PTL

\* A reading published is this read's own conversion, at the resolution waited
\* for, with no invented bits (ds18b20.cpp:125-163).
THEOREM ReadingsAreTrue == Spec => []ReadingTrue
<1>1. Inductive => ReadingTrue BY DEF Inductive
<1> QED BY <1>1, InductiveHolds, PTL

\* No probe faults merely for lying about being busy or for being at its
\* factory resolution (ds18b20.cpp:109-124).
THEOREM FaultsHaveCauses == Spec => []FaultHasCause
<1>1. Inductive => FaultHasCause BY DEF Inductive
<1> QED BY <1>1, InductiveHolds, PTL

\* The EEPROM is written at most once per power-up (ds18b20.cpp:169-187).
THEOREM EepromOutlivesTheNode == Spec => []WearBounded
<1>1. Inductive => WearBounded BY DEF Inductive, Wear, WearBounded, TypeOK, WearOK
<1> QED BY <1>1, InductiveHolds, PTL

\* A probe that is already right is never written (ds18b20.cpp:169).
THEOREM HealthyProbeLeftAlone == Spec => HealthyProbeNotWritten
<1>1. Inductive /\ [Next]_vars => (allCopies' > allCopies => probe.eeprom # Wanted)
  <2> SUFFICES ASSUME Inductive, [Next]_vars, allCopies' > allCopies
               PROVE  probe.eeprom # Wanted
    OBVIOUS
  <2>1. allCopies \in Nat BY DEF Inductive, TypeOK, WearOK
  <2>2. CopyConfig
    BY <2>1 DEF Next, Read, vars, Start, ReadBefore, Convert, Wait, ReadAfter,
                WriteConfig, PowerLost, wearVars
  <2> QED BY <2>2 DEF CopyConfig, Inductive, Wear
<1> QED BY <1>1, InductiveHolds, PTL DEF HealthyProbeNotWritten, Spec

\* The driver implements the rail's abstract specification: the rail is up for
\* a read and for nothing else (ds18b20.cpp:92-95, ipowerrail.h).
THEOREM RailKept == Spec => RailSpec
<1>1. Init => Railed!Init BY DEF Init, Railed!Init
<1>2. Inductive /\ [Next]_vars => [Railed!Next]_Railed!railVars
  <2> SUFFICES ASSUME Inductive, [Next]_vars
               PROVE  [Railed!Next]_Railed!railVars
    OBVIOUS
  <2> DEFINE Up == rail' = TRUE /\ pc' # "idle"
             Down == rail' = FALSE /\ pc' = "idle"
  <2>0. rail = (pc # "idle") BY DEF Inductive, Power
  <2>1. Down => [Railed!Next]_Railed!railVars
    BY <2>0 DEF Railed!Next, Railed!End, Railed!railVars
  <2>2. Up /\ pc = "idle" => [Railed!Next]_Railed!railVars
    BY <2>0 DEF Railed!Next, Railed!Begin, Railed!railVars
  <2>3. rail' = rail /\ pc' # "idle" /\ pc # "idle" => UNCHANGED Railed!railVars
    BY DEF Railed!railVars
  <2>4. CASE Start BY <2>4, <2>2 DEF Start
  <2>5. CASE ReadBefore BY <2>5, <2>1, <2>3 DEF ReadBefore, BusFails, Finish
  <2>6. CASE Convert BY <2>6, <2>1, <2>3 DEF Convert, BusFails, Finish
  <2>7. CASE Wait
    <3>1. pc = "wait" /\ (Finish(Failed) \/ (rail' = rail /\ pc' \in {"after", "wait"}))
      BY <2>7 DEF Wait
    <3> QED BY <3>1, <2>1, <2>3 DEF Finish
  <2>8. CASE ReadAfter
    <3>1. pc = "after" /\ (Down \/ (rail' = rail /\ pc' = "heal"))
      BY <2>8 DEF ReadAfter, BusFails, Finish
    <3> QED BY <3>1, <2>1, <2>3
  <2>9. CASE WriteConfig BY <2>9, <2>1, <2>3 DEF WriteConfig, Finish
  <2>10. CASE CopyConfig BY <2>10, <2>1 DEF CopyConfig, Finish
  <2>11. CASE PowerLost BY <2>11, <2>1 DEF PowerLost
  <2>12. CASE UNCHANGED vars BY <2>12 DEF vars, Railed!railVars
  <2> QED BY <2>4, <2>5, <2>6, <2>7, <2>8, <2>9, <2>10, <2>11, <2>12 DEF Next, Read
<1> QED BY <1>1, <1>2, InductiveHolds, PTL DEF Spec, RailSpec, Railed!Spec

-----------------------------------------------------------------------------
(* The tank node: this driver and the distance sensor's, each written as if the *)
(* rail were its own, on one rail.  That they never disturb each other rests on *)
(* whose turn it is.                                                            *)

CONSTANTS
  Levels, Echoes, Damage, MaxDamaged, MaxEchoes, Settle, DiscardFrames,
  SampleFrames, Periods, MinMm, MaxMm

VARIABLES
  turn, d_pc, d_since, d_held, d_discarded, d_samples, d_result, d_frame, d_sent,
  d_offset, d_damaged, d_echoed,
  t_pc, t_since, t_minConv, t_result, t_flag, t_probe, t_finish, t_air,
  t_excuse, t_copies, t_allCopies, t_boots

\* Its own constants and the rail are the tank's as well.
Tank == INSTANCE TankSensors

\* Whose turn it is says which driver may be in the middle of a read; the rail
\* is up for as long as one of them is.
EitherReads == d_pc # "idle" \/ t_pc # "idle"

TurnHeld ==
  /\ turn \in {"asleep", "distance", "temp"}
  /\ turn # "distance" => d_pc = "idle"
  /\ turn # "temp" => t_pc = "idle"
RailFollows == rail = EitherReads

OneTurn == TurnHeld /\ RailFollows

\* Taking a distance either leaves the driver where it is, or ends the read and
\* takes the rail down (a02yyuw.cpp:100-133).
LEMMA TakeStays ==
  ASSUME NEW mm, Tank!Dist!Take(mm)
  PROVE  UNCHANGED <<d_pc, rail>> \/ (d_pc' = "idle" /\ rail' = FALSE)
BY DEF Tank!Dist!Take

\* Every step of a distance read leaves the driver in it, with the rail as it
\* was, or ends it with the rail down.
LEMMA DistanceStep ==
  ASSUME Tank!Dist!Byte \/ Tank!Dist!NextFrame \/ Tank!Dist!Silence \/ Tank!Dist!GiveUp
  PROVE  /\ d_pc # "idle"
         /\ UNCHANGED <<d_pc, rail>> \/ (d_pc' = "idle" /\ rail' = FALSE)
<1>1. CASE Tank!Dist!Byte
  <2>1. d_pc = "reading" BY <1>1 DEF Tank!Dist!Byte
  <2>2. \/ Tank!Dist!Take(Tank!Dist!Distance(d_held[2], d_held[3]))
        \/ UNCHANGED <<d_pc, rail>>
    BY <1>1 DEF Tank!Dist!Byte
  <2> QED BY <2>1, <2>2, TakeStays
<1>2. CASE Tank!Dist!NextFrame BY <1>2 DEF Tank!Dist!NextFrame
<1>3. CASE Tank!Dist!Silence BY <1>3 DEF Tank!Dist!Silence
<1>4. CASE Tank!Dist!GiveUp BY <1>4 DEF Tank!Dist!GiveUp
<1> QED BY <1>1, <1>2, <1>3, <1>4

\* The same of a step of the probe's read (ds18b20.cpp:92-187).
LEMMA TempStep ==
  ASSUME Tank!Temp!ReadBefore \/ Tank!Temp!Convert \/ Tank!Temp!Wait \/ Tank!Temp!ReadAfter
           \/ Tank!Temp!WriteConfig \/ Tank!Temp!CopyConfig
  PROVE  /\ t_pc # "idle"
         /\ (t_pc' # "idle" /\ rail' = rail) \/ (t_pc' = "idle" /\ rail' = FALSE)
<1>1. CASE Tank!Temp!ReadBefore
  BY <1>1 DEF Tank!Temp!ReadBefore, Tank!Temp!BusFails, Tank!Temp!Finish
<1>2. CASE Tank!Temp!Convert BY <1>2 DEF Tank!Temp!Convert, Tank!Temp!BusFails, Tank!Temp!Finish
<1>3. CASE Tank!Temp!Wait
  <2>1. /\ t_pc = "wait"
        /\ \/ Tank!Temp!Finish(Tank!Temp!Failed)
           \/ rail' = rail /\ t_pc' \in {"after", "wait"}
    BY <1>3 DEF Tank!Temp!Wait
  <2> QED BY <2>1 DEF Tank!Temp!Finish
<1>4. CASE Tank!Temp!ReadAfter
  BY <1>4 DEF Tank!Temp!ReadAfter, Tank!Temp!BusFails, Tank!Temp!Finish
<1>5. CASE Tank!Temp!WriteConfig BY <1>5 DEF Tank!Temp!WriteConfig, Tank!Temp!Finish
<1>6. CASE Tank!Temp!CopyConfig BY <1>6 DEF Tank!Temp!CopyConfig, Tank!Temp!Finish
<1> QED BY <1>1, <1>2, <1>3, <1>4, <1>5, <1>6

-----------------------------------------------------------------------------
(* The invariant, and the refinement it carries *)

\* One step of the node, seen from the rail: the turn is kept, and the rail is
\* taken up for one read or down at its end.
LEMMA TankStep ==
  ASSUME OneTurn, [Tank!Next]_(Tank!vars)
  PROVE  OneTurn' /\ [Tank!Railed!Next]_(Tank!Railed!railVars)
<1> USE DEF OneTurn, TurnHeld, RailFollows, EitherReads
<1> DEFINE Rises == ~EitherReads /\ EitherReads' /\ rail' = TRUE
           Falls == ~EitherReads' /\ rail' = FALSE
           Stays == EitherReads' = EitherReads /\ rail' = rail
<1>0. Rises \/ Falls \/ Stays => RailFollows' /\ [Tank!Railed!Next]_(Tank!Railed!railVars)
  BY DEF Tank!Railed!Next, Tank!Railed!Begin, Tank!Railed!End, Tank!Railed!railVars
<1>1. CASE Tank!SampleDistance
  BY <1>1, <1>0 DEF Tank!SampleDistance, Tank!Dist!Start, Tank!tVars
<1>2. CASE Tank!ReadDistance
  <2>1. turn = "distance" /\ UNCHANGED <<turn, t_pc>> BY <1>2 DEF Tank!ReadDistance, Tank!tVars
  <2>2. /\ d_pc # "idle"
        /\ UNCHANGED <<d_pc, rail>> \/ (d_pc' = "idle" /\ rail' = FALSE)
    BY <1>2, DistanceStep DEF Tank!ReadDistance
  <2>3. Stays \/ Falls BY <2>1, <2>2
  <2> QED BY <2>1, <2>2, <2>3, <1>0
<1>3. CASE Tank!SampleTemp
  BY <1>3, <1>0 DEF Tank!SampleTemp, Tank!Temp!Start, Tank!dVars
<1>4. CASE Tank!ReadTemp
  <2>1. turn = "temp" /\ UNCHANGED <<turn, d_pc>> BY <1>4 DEF Tank!ReadTemp, Tank!dVars
  <2>2. /\ t_pc # "idle"
        /\ (t_pc' # "idle" /\ rail' = rail) \/ (t_pc' = "idle" /\ rail' = FALSE)
    BY <1>4, TempStep DEF Tank!ReadTemp
  <2>3. Stays \/ Falls BY <2>1, <2>2
  <2> QED BY <2>1, <2>2, <2>3, <1>0
<1>5. CASE Tank!Sleep BY <1>5, <1>0 DEF Tank!Sleep, Tank!dVars, Tank!tVars
<1>6. CASE Tank!PowerLost
  <2>1. turn' = "asleep" /\ t_pc' = "idle" /\ rail' = FALSE
    BY <1>6 DEF Tank!PowerLost, Tank!Temp!PowerLost
  <2>2. d_pc' = "idle" BY <1>6 DEF Tank!PowerLost, Tank!dVars, Tank!Dist!PowerLost
  <2>3. Falls BY <2>1, <2>2
  <2> QED BY <2>1, <2>2, <2>3, <1>0
<1>7. CASE UNCHANGED Tank!vars BY <1>7, <1>0 DEF Tank!vars, Tank!dVars, Tank!tVars
<1> QED BY <1>1, <1>2, <1>3, <1>4, <1>5, <1>6, <1>7 DEF Tank!Next, Tank!Node

\* Two drivers on one rail are, to the rail, one reader: it comes up for one
\* read, stays up for all of it and is down for the rest, through every way
\* either read can end and every loss of power (main.cpp:91-95,
\* ipowerrail.h:5-8).
THEOREM RailIsShared == Tank!Spec => Tank!RailSpec
<1>1. Tank!Init => OneTurn /\ Tank!Railed!Init
  BY DEF Tank!Init, Tank!Dist!Init, Tank!Temp!Init, OneTurn, TurnHeld, RailFollows, EitherReads, Tank!Railed!Init
<1>2. OneTurn /\ [Tank!Next]_(Tank!vars) => OneTurn' /\ [Tank!Railed!Next]_(Tank!Railed!railVars)
  BY TankStep
<1> QED BY <1>1, <1>2, PTL DEF Tank!Spec, Tank!RailSpec, Tank!Railed!Spec

\* The two drivers are never in a read at the same time: the probe is not asked
\* before the distance sensor has answered or failed (tank_preset.cpp, the
\* order of the slots).
THEOREM OneReadAtATime == Tank!Spec => [](d_pc = "idle" \/ t_pc = "idle")
<1>1. Tank!Init => OneTurn
  BY DEF Tank!Init, Tank!Dist!Init, Tank!Temp!Init, OneTurn, TurnHeld, RailFollows, EitherReads
<1>2. OneTurn /\ [Tank!Next]_(Tank!vars) => OneTurn' BY TankStep
<1>3. OneTurn => d_pc = "idle" \/ t_pc = "idle" BY DEF OneTurn, TurnHeld
<1> QED BY <1>1, <1>2, <1>3, PTL DEF Tank!Spec

-----------------------------------------------------------------------------
(* The distance sensor's driver *)

Dist == INSTANCE A02yyuw WITH
  Deadline <- Periods, pc <- d_pc, since <- d_since, held <- d_held,
  discarded <- d_discarded, samples <- d_samples, result <- d_result,
  frame <- d_frame, sent <- d_sent, offset <- d_offset, damaged <- d_damaged,
  echoed <- d_echoed

\* What the sensor may say.
Spoken == Levels \cup Echoes

\* Samples that are not off the water.
Astray(s) == {i \in DOMAIN s : ~Dist!OffTheWater(s[i])}

\* Bytes since the period began.
PhaseAt(n, from) == IF n >= from THEN n - from ELSE 4 + n - from
Phase == PhaseAt(d_sent, d_offset)

DistanceTypes ==
  /\ d_pc \in {"idle", "reading"}
  /\ d_since \in Nat /\ d_discarded \in Nat
  /\ d_held \in Seq(Int) /\ Len(d_held) \in 0 .. 3 /\ (d_held # <<>> => d_held[1] = Dist!Header)
  /\ d_samples \in Seq(Int)
  /\ d_sent \in 0 .. 4 /\ d_offset \in 0 .. 3
  /\ d_damaged \in 0 .. MaxDamaged /\ d_echoed \in Nat

\* The property itself.
MedianGood ==
  (d_result.ok /\ 2 * d_echoed < Dist!Want) => Dist!OffTheWater(d_result.raw)

\* No byte is parsed before the sensor has settled, and four go into a discard.
Paced ==
  IF d_since < Settle
    THEN d_held = <<>> /\ d_discarded = 0 /\ d_samples = <<>>
    ELSE 4 * d_discarded + Len(d_held) <= 4 * (d_since - Settle) + Phase

\* The bytes in hand are the last ones heard, some of them damaged.
Place(i) == 4 + d_sent - Len(d_held) + i
Hit(a, b) == {i \in 1 .. Len(d_held) : d_held[i] # Dist!Sent(a, b, Place(i))}
Heard(a, b) ==
  /\ d_frame = Dist!FrameOf(b)
  /\ \A i \in Hit(a, b) : d_held[i] \in Damage
  /\ Cardinality(Hit(a, b)) <= d_damaged

\* A false echo still to be delivered has been counted, or will be discarded.
Pending(b) ==
  Dist!Reportable(b) /\ ~Dist!OffTheWater(b) /\ d_sent < 4 /\ Len(d_held) = d_sent
    => Cardinality(Astray(d_samples)) + 1 <= d_echoed \/ d_discarded < DiscardFrames

\* In the middle of a read.
Listening ==
  /\ Paced
  /\ Len(d_samples) < Dist!Want
  /\ Cardinality(Astray(d_samples)) <= d_echoed
  /\ \E a, b \in Spoken : Heard(a, b) /\ Pending(b)

MedianInv == DistanceTypes /\ MedianGood /\ (d_pc = "reading" => Listening)

\* What the theorem takes for granted: the configuration is one, a sum of eight bits
\* tells what the wire may do to a frame, and a frame is discarded after the settling
\* time, since the sensor may have begun that one before it.
Trustworthy == Dist!Configured /\ Dist!SumsTell /\ DiscardFrames > 0

-----------------------------------------------------------------------------
(* Arithmetic *)

\* How the place in a period moves with the byte.
LEMMA Phases ==
  ASSUME NEW n \in 0 .. 4, NEW o \in 0 .. 3
  PROVE  /\ PhaseAt(n, o) \in 0 .. 4
         /\ PhaseAt(o, o) = 0
         /\ PhaseAt(0, o) = (IF o = 0 THEN 0 ELSE 4 - o) /\ PhaseAt(0, o) <= 3
         /\ PhaseAt(4, o) = 4 - o
         /\ n < 4 => IF n + 1 = o THEN PhaseAt(n, o) = 3 /\ PhaseAt(n + 1, o) = 0
                                  ELSE PhaseAt(n + 1, o) = PhaseAt(n, o) + 1
BY DEF PhaseAt

LEMMA Doubles == \A e, f, w \in Nat : e <= f /\ 2 * f < w => 2 * e < w
OBVIOUS

\* Four bytes to a discard: short of the k-th period after settling, fewer than k.
LEMMA Fewer ==
  \A d, t, s, k \in Nat, p \in 0 .. 4 :
    4 * d <= 4 * (t - s) + p /\ p <= 3 /\ t < s + k => d < k
OBVIOUS

LEMMA ElementIs == ASSUME NEW s \in Seq(Int), NEW i \in 1 .. Len(s) PROVE s[i] \in Int
OBVIOUS

\* A frame is four bytes and tells its distance.
LEMMA BytesOfFrames ==
  ASSUME NEW mm \in Nat
  PROVE  /\ DOMAIN Dist!FrameOf(mm) = 1 .. 4
         /\ \A i \in 1 .. 4 : Dist!FrameOf(mm)[i] \in Int
         /\ Dist!Distance(Dist!FrameOf(mm)[2], Dist!FrameOf(mm)[3]) = mm
<1>1. /\ mm \div 256 \in Int /\ mm % 256 \in 0 .. 255 /\ mm = (mm \div 256) * 256 + (mm % 256)
  OBVIOUS
<1>2. Dist!CheckSum(mm \div 256, mm % 256) \in Int
  BY <1>1 DEF Dist!CheckSum, Dist!Header
<1> QED BY <1>1, <1>2 DEF Dist!FrameOf, Dist!Distance, Dist!Header

\* Distances are natural numbers, bytes integers.
LEMMA SpokenAreNaturals ==
  ASSUME Dist!Configured
  PROVE  Spoken \subseteq Nat /\ Damage \subseteq Int
<1>1. Levels \subseteq MinMm .. MaxMm /\ MinMm \in Nat /\ Echoes \subseteq Dist!Word
      /\ Damage \subseteq 0 .. 255
  BY DEF Dist!Configured
<1>2. Dist!Word \subseteq Nat
  BY DEF Dist!Word
<1>3. \A x \in Levels : x \in Nat
  BY <1>1
<1> QED BY <1>1, <1>2, <1>3 DEF Spoken

LEMMA ConfigTypes ==
  ASSUME Dist!Configured
  PROVE  /\ MaxDamaged \in Nat /\ Settle \in Nat /\ MinMm \in Nat /\ MaxMm \in Nat
         /\ DiscardFrames \in Nat /\ SampleFrames \in Nat
BY DEF Dist!Configured

\* The indices of a sequence.
LEMMA Indices ==
  ASSUME NEW n \in Nat
  PROVE  IsFiniteSet(1 .. n) /\ Cardinality(1 .. n) = n
<1>1. 1 \in Int /\ n \in Int
  OBVIOUS
<1>2. IsFiniteSet(1 .. n) /\ Cardinality(1 .. n) = IF 1 > n THEN 0 ELSE n - 1 + 1
  BY Zenon, <1>1, FS_Interval
<1> QED BY <1>2

\* No more samples are astray than there are.
LEMMA AstrayFinite ==
  ASSUME NEW s \in Seq(Int)
  PROVE  /\ IsFiniteSet(Astray(s)) /\ Cardinality(Astray(s)) \in Nat
         /\ Cardinality(Astray(s)) <= Len(s)
<1>1. IsFiniteSet(1 .. Len(s)) /\ Cardinality(1 .. Len(s)) = Len(s)
  <2>1. Len(s) \in Nat
    OBVIOUS
  <2> QED BY <2>1, Indices
<1>2. Astray(s) \subseteq 1 .. Len(s)
  BY DEF Astray
<1> QED BY <1>1, <1>2, FS_Subset, FS_CardinalityType

\* One more sample, at most one more astray.
LEMMA AstrayAppend ==
  ASSUME NEW s \in Seq(Int), NEW x \in Int
  PROVE  /\ Cardinality(Astray(Append(s, x))) <= Cardinality(Astray(s)) + 1
         /\ Dist!OffTheWater(x) => Cardinality(Astray(Append(s, x))) = Cardinality(Astray(s))
<1> DEFINE n == Len(s) + 1
<1>1. /\ DOMAIN Append(s, x) = 1 .. n /\ Append(s, x)[n] = x
      /\ \A i \in 1 .. Len(s) : Append(s, x)[i] = s[i]
      /\ DOMAIN s = 1 .. Len(s) /\ Len(s) \in Nat
  OBVIOUS
<1>2. CASE Dist!OffTheWater(x)
  <2>1. Astray(Append(s, x)) = Astray(s)
    BY <1>1, <1>2 DEF Astray
  <2> QED BY <1>2, <2>1, AstrayFinite
<1>3. CASE ~Dist!OffTheWater(x)
  <2>1. Astray(Append(s, x)) = Astray(s) \cup {n}
    BY <1>1, <1>3 DEF Astray
  <2>2. Cardinality(Astray(s) \cup {n}) <= Cardinality(Astray(s)) + 1
    <3>1. /\ IsFiniteSet(Astray(s)) /\ Cardinality(Astray(s)) \in Nat
      BY AstrayFinite
    <3>2. Cardinality(Astray(s) \cup {n}) =
            IF n \in Astray(s) THEN Cardinality(Astray(s)) ELSE Cardinality(Astray(s)) + 1
      BY <3>1, FS_AddElement
    <3> QED BY <3>1, <3>2
  <2> QED BY <1>3, <2>1, <2>2
<1> QED BY <1>2, <1>3

-----------------------------------------------------------------------------
\* Every set of natural numbers that has a member has a least one.
LEMMA LeastNumber ==
  ASSUME NEW T, T \subseteq Nat, T # {}
  PROVE  \E n \in T : \A m \in T : n <= m
<1> DEFINE Less == OpToRel(<, Nat)
<1>1. IsWellFoundedOn(Less, Nat)
  BY NatLessThanWellFounded
<1>2. PICK n \in T : \A m \in T : ~(<<m, n>> \in Less)
  <2> HIDE DEF Less
  <2> QED BY <1>1, WFMin
<1>3. \A m \in T : m < n => <<m, n>> \in Less
  BY DEF OpToRel
<1>4. \A m \in T : ~(m < n)
  BY <1>2, <1>3
<1> HIDE <1>2, <1>3
<1> QED BY <1>4

\* How many values are no larger than a given one.
Rank(v, i) == Cardinality(Dist!UpTo(v, v[i]))

\* Counting is the same in the driver's module and here.
LEMMA Counting == ASSUME NEW S PROVE Dist!Cardinality(S) = Cardinality(S)
  BY DEF Dist!Cardinality, Cardinality

\* The bounds of how many values are below a given one, and up to it.
LEMMA Ranks ==
  ASSUME NEW v \in Seq(Int), NEW x \in Int
  PROVE  /\ IsFiniteSet(Dist!UpTo(v, x)) /\ Cardinality(Dist!UpTo(v, x)) \in 0 .. Len(v)
         /\ IsFiniteSet(Dist!Below(v, x)) /\ Cardinality(Dist!Below(v, x)) \in 0 .. Len(v)
         /\ \A i \in 1 .. Len(v) :
              v[i] <= x /\ ~(v[i] < x) => Cardinality(Dist!Below(v, x)) < Cardinality(Dist!UpTo(v, x))
         /\ \A y \in Int : \A i \in 1 .. Len(v) :
              y < x /\ v[i] = x => Cardinality(Dist!UpTo(v, y)) < Cardinality(Dist!UpTo(v, x))
<1>1. /\ Len(v) \in Nat /\ DOMAIN v = 1 .. Len(v) /\ 1 \in Int /\ Len(v) \in Int
      /\ \A i \in 1 .. Len(v) : v[i] \in Int
  OBVIOUS
<1>2. IsFiniteSet(1 .. Len(v)) /\ Cardinality(1 .. Len(v)) = Len(v)
  BY <1>1, Indices
<1>3. \A y \in Int : /\ Dist!UpTo(v, y) \subseteq 1 .. Len(v)
                     /\ Dist!Below(v, y) \subseteq Dist!UpTo(v, y)
  BY <1>1 DEF Dist!UpTo, Dist!Below
<1>4. \A y \in Int : IsFiniteSet(Dist!UpTo(v, y)) /\ Cardinality(Dist!UpTo(v, y)) \in 0 .. Len(v)
  BY <1>1, <1>2, <1>3, FS_Subset, FS_CardinalityType
<1>5. IsFiniteSet(Dist!Below(v, x)) /\ Cardinality(Dist!Below(v, x)) \in 0 .. Len(v)
  <2>1. /\ Dist!Below(v, x) \subseteq Dist!UpTo(v, x) /\ IsFiniteSet(Dist!UpTo(v, x))
        /\ Cardinality(Dist!UpTo(v, x)) \in 0 .. Len(v)
    BY <1>3, <1>4
  <2>2. /\ IsFiniteSet(Dist!Below(v, x))
        /\ Cardinality(Dist!Below(v, x)) <= Cardinality(Dist!UpTo(v, x))
    BY <2>1, FS_Subset
  <2>3. Cardinality(Dist!Below(v, x)) \in Nat
    BY <2>2, FS_CardinalityType
  <2> QED BY <2>1, <2>2, <2>3, <1>1
<1>6. ASSUME NEW S, S \subseteq Dist!UpTo(v, x), NEW i, i \in Dist!UpTo(v, x), i \notin S
      PROVE  Cardinality(S) < Cardinality(Dist!UpTo(v, x))
  <2>1. /\ IsFiniteSet(S) /\ Cardinality(S) <= Cardinality(Dist!UpTo(v, x))
        /\ Cardinality(S) # Cardinality(Dist!UpTo(v, x))
    BY <1>4, <1>6, FS_Subset
  <2> QED BY <2>1, <1>4, FS_CardinalityType
<1>7. ASSUME NEW i \in 1 .. Len(v), v[i] <= x, ~(v[i] < x)
      PROVE  Cardinality(Dist!Below(v, x)) < Cardinality(Dist!UpTo(v, x))
  <2>1. i \in Dist!UpTo(v, x) /\ i \notin Dist!Below(v, x)
    BY <1>1, <1>7 DEF Dist!UpTo, Dist!Below
  <2> QED BY <2>1, <1>3, <1>6
<1>8. ASSUME NEW y \in Int, NEW i \in 1 .. Len(v), y < x, v[i] = x
      PROVE  Cardinality(Dist!UpTo(v, y)) < Cardinality(Dist!UpTo(v, x))
  <2>1. /\ i \in Dist!UpTo(v, x) /\ i \notin Dist!UpTo(v, y)
        /\ Dist!UpTo(v, y) \subseteq Dist!UpTo(v, x)
    BY <1>1, <1>8 DEF Dist!UpTo
  <2> QED BY <2>1, <1>6
<1> QED BY <1>4, <1>5, <1>7, <1>8

\* Of some of the values one is the largest.
LEMMA Largest ==
  ASSUME NEW v \in Seq(Int), NEW I, I \subseteq 1 .. Len(v), I # {}
  PROVE  \E i \in I : \A j \in I : v[j] <= v[i]
<1> DEFINE T == {Len(v) - Rank(v, i) : i \in I}
<1>1. /\ Len(v) \in Nat /\ \A i \in I : i \in 1 .. Len(v) /\ v[i] \in Int
  OBVIOUS
<1>2. \A i \in I : Rank(v, i) \in 0 .. Len(v)
  BY <1>1, Ranks DEF Rank
<1>3. T \subseteq Nat /\ T # {}
  <2>1. ASSUME NEW i \in I PROVE Len(v) - Rank(v, i) \in Nat
    <3>1. Len(v) \in Nat /\ Rank(v, i) \in 0 .. Len(v)
      BY <1>1, <1>2
    <3> QED BY <3>1
  <2> QED BY Zenon, <2>1
<1>4. PICK n \in T : \A m \in T : n <= m
  <2> HIDE DEF T
  <2> QED BY <1>3, LeastNumber
<1>5. PICK i \in I : n = Len(v) - Rank(v, i)
  OBVIOUS
<1>6. ASSUME NEW j \in I, ~(v[j] <= v[i]) PROVE FALSE
  <2>1. v[i] < v[j] /\ v[i] \in Int /\ v[j] \in Int
    BY <1>1, <1>6
  <2>2. Rank(v, i) < Rank(v, j)
    BY <2>1, <1>1, Ranks DEF Rank
  <2>3. n <= Len(v) - Rank(v, j)
    BY <1>4
  <2> QED BY <2>2, <2>3, <1>1, <1>2, <1>5
<1> QED BY <1>6

\* The median is one of the values, and in the middle of them.
LEMMA MiddleExists ==
  ASSUME NEW v \in Seq(Int), Len(v) > 0
  PROVE  Dist!MedianOf(v) \in Dist!Range(v) /\ Dist!IsMiddle(v, Dist!MedianOf(v))
<1> DEFINE n == Len(v)
           half == n \div 2
           Enough == {i \in 1 .. n : half < Rank(v, i)}
           T == {Rank(v, i) : i \in Enough}
<1>1. /\ n \in Nat /\ n > 0 /\ DOMAIN v = 1 .. n /\ n \in Int /\ 1 \in Int
      /\ \A i \in 1 .. n : v[i] \in Int
  OBVIOUS
<1>2. half \in Nat /\ half < n
  BY <1>1
<1> HIDE DEF half
<1>3. \A i \in 1 .. n : Rank(v, i) \in 0 .. n
  BY <1>1, Ranks DEF Rank
<1>4. Enough # {}
  <2>0. 1 \in 1 .. n
    BY <1>1
  <2>1. PICK i \in 1 .. n : \A j \in 1 .. n : v[j] <= v[i]
    BY <2>0, Largest
  <2>2. Dist!UpTo(v, v[i]) = 1 .. n
    BY <1>1, <2>1 DEF Dist!UpTo
  <2>3. Rank(v, i) = n
    BY <1>1, <2>2, Indices DEF Rank
  <2> QED BY <2>3, <1>2
<1>5. T \subseteq Nat /\ T # {}
  BY <1>3, <1>4
<1>6. PICK r \in T : \A m \in T : r <= m
  <2> HIDE DEF T
  <2> QED BY <1>5, LeastNumber
<1>7. PICK i \in Enough : r = Rank(v, i)
  OBVIOUS
<1> DEFINE x == v[i]
           B == Cardinality(Dist!Below(v, x))
           U == Cardinality(Dist!UpTo(v, x))
<1>8. i \in 1 .. n /\ x \in Int /\ x \in Dist!Range(v) /\ half < Rank(v, i)
  BY <1>1, <1>7 DEF Dist!Range
<1>9. Rank(v, i) = U
  BY DEF Rank
<1>10. B \in 0 .. n /\ U \in 0 .. n /\ B < U
  <2>1. v[i] <= x /\ ~(v[i] < x)
    BY <1>8
  <2> HIDE DEF x
  <2> QED BY <2>1, <1>8, Ranks
<1> HIDE DEF x, B, U
<1>11. B <= half
  <2> SUFFICES ASSUME ~(B <= half) PROVE FALSE
    OBVIOUS
  <2>1. half < B
    BY <1>2, <1>10
  <2>2. Dist!Below(v, x) # {}
    <3>1. Cardinality({}) = 0
      BY FS_EmptySet
    <3>2. B # 0
      BY <2>1, <1>2
    <3> QED BY Zenon, <3>1, <3>2 DEF B
  <2>3. Dist!Below(v, x) \subseteq 1 .. n
    BY <1>1 DEF Dist!Below
  <2>4. PICK j \in Dist!Below(v, x) : \A k \in Dist!Below(v, x) : v[k] <= v[j]
    BY <2>2, <2>3, Largest
  <2>5. Dist!UpTo(v, v[j]) = Dist!Below(v, x)
    BY <1>1, <1>8, <2>3, <2>4 DEF Dist!UpTo, Dist!Below
  <2>6. Rank(v, j) = B
    BY Zenon, <2>5 DEF Rank, B
  <2>7. j \in Enough
    BY <2>1, <2>3, <2>4, <2>6
  <2>8. U <= B
    BY <1>6, <1>7, <1>9, <2>6, <2>7
  <2> QED BY <2>8, <1>10
<1>12. half < U
  BY Zenon, <1>8, <1>9
<1>13. Dist!IsMiddle(v, x)
  BY Zenon, <1>11, <1>12, Counting DEF Dist!IsMiddle, B, U, half
<1> QED BY Zenon, <1>8, <1>13 DEF Dist!MedianOf

\* With fewer astray than half, the median is between two that are not.
LEMMA MedianOffTheWater ==
  ASSUME Dist!Configured, NEW v \in Seq(Int), Len(v) > 0, 2 * Cardinality(Astray(v)) < Len(v)
  PROVE  Dist!OffTheWater(Dist!MedianOf(v))
<1> DEFINE x == Dist!MedianOf(v)
           n == Len(v)
           Good == {i \in 1 .. n : Dist!OffTheWater(v[i])}
<1>1. /\ n \in Nat /\ n > 0 /\ DOMAIN v = 1 .. n /\ n \in Int /\ 1 \in Int
      /\ \A i \in 1 .. n : v[i] \in Int
      /\ n \div 2 \in Nat /\ n \div 2 < n /\ 2 * (n \div 2) <= n /\ n < 2 * (n \div 2) + 2
  OBVIOUS
<1>2. IsFiniteSet(1 .. n) /\ Cardinality(1 .. n) = n
  BY <1>1, Indices
<1>3. /\ x \in Int /\ Cardinality(Dist!Below(v, x)) <= n \div 2
      /\ n \div 2 < Cardinality(Dist!UpTo(v, x))
  <2>1. x \in Dist!Range(v) /\ Dist!IsMiddle(v, x)
    BY Zenon, MiddleExists
  <2>2. x \in Int
    <3> HIDE DEF x
    <3> QED BY <2>1, <1>1 DEF Dist!Range
  <2> QED BY Zenon, <2>1, <2>2, Counting DEF Dist!IsMiddle
<1>4. IsFiniteSet(Astray(v)) /\ Cardinality(Astray(v)) \in Nat
  BY AstrayFinite
<1>5. /\ Cardinality(Dist!UpTo(v, x)) \in Nat /\ Cardinality(Dist!Below(v, x)) \in Nat
      /\ IsFiniteSet(Dist!Below(v, x))
  BY <1>1, <1>3, Ranks
<1> HIDE DEF x
<1>6. PICK i \in Good : v[i] <= x
  <2> SUFFICES ASSUME \A i \in Good : ~(v[i] <= x) PROVE FALSE
    OBVIOUS
  <2>1. Dist!UpTo(v, x) \subseteq Astray(v)
    BY <1>1 DEF Dist!UpTo, Astray
  <2>2. Cardinality(Dist!UpTo(v, x)) <= Cardinality(Astray(v))
    BY <2>1, <1>4, FS_Subset
  <2> QED BY <2>2, <1>1, <1>3, <1>4, <1>5
<1>7. PICK j \in Good : x <= v[j]
  <2> SUFFICES ASSUME \A j \in Good : ~(x <= v[j]) PROVE FALSE
    OBVIOUS
  <2>1. (1 .. n) \subseteq (Astray(v) \cup Dist!Below(v, x))
    BY <1>1, <1>3 DEF Dist!Below, Astray
  <2>2. /\ IsFiniteSet(Astray(v) \cup Dist!Below(v, x))
        /\ Cardinality(Astray(v) \cup Dist!Below(v, x)) =
             Cardinality(Astray(v)) + Cardinality(Dist!Below(v, x))
               - Cardinality(Astray(v) \cap Dist!Below(v, x))
        /\ IsFiniteSet(Astray(v) \cap Dist!Below(v, x))
    BY <1>4, <1>5, FS_Union, FS_Intersection
  <2>3. Cardinality(Astray(v) \cap Dist!Below(v, x)) \in Nat
    BY <2>2, FS_CardinalityType
  <2>4. n <= Cardinality(Astray(v) \cup Dist!Below(v, x))
    BY <2>1, <2>2, <1>2, FS_Subset
  <2> QED BY <2>2, <2>3, <2>4, <1>1, <1>3, <1>4, <1>5
<1>8. PICK a \in Levels : a <= v[i]
  BY DEF Dist!OffTheWater
<1>9. PICK b \in Levels : v[j] <= b
  BY DEF Dist!OffTheWater
<1>10. a \in Int /\ b \in Int
  BY SpokenAreNaturals DEF Spoken
<1>11. v[i] \in Int /\ v[j] \in Int
  BY <1>1
<1>12. a <= x /\ x <= b
  BY <1>3, <1>6, <1>7, <1>8, <1>9, <1>10, <1>11
<1> QED BY <1>8, <1>9, <1>12 DEF Dist!OffTheWater, x

-----------------------------------------------------------------------------
\* At least one sample is wanted.
LEMMA WantPositive ==
  ASSUME Dist!Configured
  PROVE  Dist!Want \in Nat /\ Dist!Want >= 1
BY ConfigTypes DEF Dist!Want

\* Where each of two frames' bytes is among the eight.
LEMMA SentBytes ==
  ASSUME Dist!Configured, NEW a \in Spoken, NEW b \in Spoken
  PROVE  /\ \A j \in 1 .. 4 : Dist!Sent(a, b, j) = Dist!FrameOf(a)[j]
         /\ \A j \in 1 .. 4 : Dist!Sent(a, b, 4 + j) = Dist!FrameOf(b)[j]
         /\ \A j \in 1 .. 8 : Dist!Sent(a, b, j) \in Int
<1>1. a \in Nat /\ b \in Nat
  BY SpokenAreNaturals
<1>2. \A j \in 1 .. 4 : Dist!FrameOf(a)[j] \in Int /\ Dist!FrameOf(b)[j] \in Int
  BY <1>1, BytesOfFrames
<1>3. \A j \in 1 .. 4 : Dist!Sent(a, b, j) = Dist!FrameOf(a)[j]
  BY DEF Dist!Sent
<1>4. \A j \in 1 .. 4 : Dist!Sent(a, b, 4 + j) = Dist!FrameOf(b)[j]
  <2> SUFFICES ASSUME NEW j \in 1 .. 4 PROVE Dist!Sent(a, b, 4 + j) = Dist!FrameOf(b)[j]
    OBVIOUS
  <2>1. ~(4 + j <= 4) /\ 4 + j - 4 = j
    OBVIOUS
  <2> QED BY <2>1 DEF Dist!Sent
<1>5. \A j \in 1 .. 8 : j \in 1 .. 4 \/ (j - 4 \in 1 .. 4 /\ j = 4 + (j - 4))
  OBVIOUS
<1> HIDE DEF Dist!Sent
<1>6. ASSUME NEW j \in 1 .. 8 PROVE Dist!Sent(a, b, j) \in Int
  <2>1. CASE j \in 1 .. 4 BY <2>1, <1>2, <1>3
  <2>2. CASE j - 4 \in 1 .. 4 /\ j = 4 + (j - 4)
    BY <2>2, <1>2, <1>4
  <2> QED BY <2>1, <2>2, <1>5
<1> QED BY <1>3, <1>4, <1>6

\* The bytes in hand are few.
LEMMA HitFinite ==
  ASSUME NEW a, NEW b, DistanceTypes
  PROVE  IsFiniteSet(Hit(a, b)) /\ Cardinality(Hit(a, b)) \in Nat
<1>1. Len(d_held) \in Nat
  BY DEF DistanceTypes
<1>2. IsFiniteSet(1 .. Len(d_held)) /\ Hit(a, b) \subseteq 1 .. Len(d_held)
  BY <1>1, Indices DEF Hit
<1> QED BY <1>2, FS_Subset, FS_CardinalityType

\* The byte the driver is given.
Comes(c) == c = d_frame[d_sent + 1] \/ (c \in Damage /\ d_damaged < MaxDamaged)

\* A right sum is believed only of a distance off the water, or of what the
\* sensor has just said.
LEMMA Trusted ==
  ASSUME Dist!Configured, Dist!SumsTell, DistanceTypes,
         NEW a \in Spoken, NEW b \in Spoken, Heard(a, b),
         NEW c, Comes(c), Len(d_held) = 3, d_sent < 4, Dist!SumHolds(c),
         Dist!Reportable(Dist!Distance(d_held[2], d_held[3]))
  PROVE  LET mm == Dist!Distance(d_held[2], d_held[3])
         IN  Dist!OffTheWater(mm) \/ (d_sent = 3 /\ mm = b)
<1> DEFINE mm == Dist!Distance(d_held[2], d_held[3])
           A == IF d_sent = 3 THEN b ELSE a
           k == IF d_sent = 3 THEN 0 ELSE d_sent + 1
           last == IF c = d_frame[d_sent + 1] THEN {} ELSE {4}
           hit == Hit(a, b) \cup last
           d == [i \in hit |-> IF i = 4 THEN c ELSE d_held[i]]
           w == Dist!Window(A, b, k, hit, d)
<1>1. /\ d_sent \in 0 .. 3 /\ d_held \in Seq(Int) /\ d_held[1] = Dist!Header
      /\ d_damaged \in 0 .. MaxDamaged /\ MaxDamaged \in Nat
  <2>1. d_held # <<>>
    OBVIOUS
  <2>2. MaxDamaged \in Nat
    BY ConfigTypes
  <2> QED BY <2>1, <2>2 DEF DistanceTypes
<1>2. A \in Spoken /\ k \in 0 .. 3
  BY <1>1
<1>3. Hit(a, b) \subseteq 1 .. 3 /\ hit \subseteq 1 .. 4 /\ 4 \notin Hit(a, b)
  BY DEF Hit
<1>4. Cardinality(hit) <= MaxDamaged
  <2>1. Cardinality(Hit(a, b)) \in Nat /\ IsFiniteSet(Hit(a, b)) /\ Cardinality(Hit(a, b)) <= d_damaged
    BY HitFinite DEF Heard
  <2>2. CASE c = d_frame[d_sent + 1]
    <3>1. hit = Hit(a, b)
      BY <2>2
    <3> HIDE DEF hit
    <3> QED BY <3>1, <2>1, <1>1
  <2>3. CASE c # d_frame[d_sent + 1]
    <3>1. hit = Hit(a, b) \cup {4}
      BY <2>3
    <3>2. Cardinality(hit) = Cardinality(Hit(a, b)) + 1
      BY <3>1, <2>1, <1>3, FS_AddElement
    <3> HIDE DEF hit
    <3>3. d_damaged < MaxDamaged
      BY <2>3 DEF Comes
    <3> QED BY <3>2, <3>3, <2>1, <1>1
  <2> QED BY <2>2, <2>3
<1>5. d \in [hit -> Damage]
  <2>1. \A i \in Hit(a, b) : d_held[i] \in Damage
    BY DEF Heard
  <2>2. c # d_frame[d_sent + 1] => c \in Damage
    BY DEF Comes
  <2>3. ASSUME NEW i \in hit PROVE (IF i = 4 THEN c ELSE d_held[i]) \in Damage
    BY <2>1, <2>2, <1>3
  <2> QED BY <2>3
<1>6. /\ \A i \in 1 .. 3 : Place(i) = d_sent + 1 + i
      /\ \A i \in 1 .. 3 : Dist!Sent(A, b, k + i) = Dist!Sent(a, b, Place(i))
      /\ Dist!Sent(A, b, k + 4) = d_frame[d_sent + 1]
  <2>1. ASSUME NEW i \in 1 .. 3 PROVE Place(i) = d_sent + 1 + i
    BY <1>1 DEF Place
  <2>2. d_frame = Dist!FrameOf(b)
    BY DEF Heard
  <2>3. CASE d_sent = 3
    <3>1. A = b /\ k = 0
      BY <2>3
    <3>2. \A i \in 1 .. 4 : Dist!Sent(b, b, 0 + i) = Dist!FrameOf(b)[i]
      BY SentBytes
    <3>3. \A i \in 1 .. 3 : Dist!Sent(a, b, 3 + 1 + i) = Dist!FrameOf(b)[i]
      <4>1. \A i \in 1 .. 3 : 3 + 1 + i = 4 + i /\ i \in 1 .. 4
        OBVIOUS
      <4> QED BY <4>1, SentBytes
    <3> QED BY <3>1, <3>2, <3>3, <2>1, <2>2, <2>3
  <2>4. CASE d_sent # 3
    <3>1. A = a /\ k = d_sent + 1
      BY <2>4
    <3>2. k + 4 = 4 + (d_sent + 1) /\ d_sent + 1 \in 1 .. 4
      BY <3>1, <1>1
    <3>3. Dist!Sent(a, b, 4 + (d_sent + 1)) = Dist!FrameOf(b)[d_sent + 1]
      BY <3>2, SentBytes
    <3> QED BY <3>1, <3>2, <3>3, <2>1, <2>2
  <2> QED BY <2>3, <2>4
<1>7. \A i \in 1 .. 3 : w[i] = d_held[i]
  <2> SUFFICES ASSUME NEW i \in 1 .. 3 PROVE w[i] = d_held[i]
    OBVIOUS
  <2>1. i \in 1 .. Len(d_held) /\ i # 4 /\ i \in 1 .. 4
    OBVIOUS
  <2>2. CASE i \in Hit(a, b)
    BY <2>1, <2>2 DEF Dist!Window
  <2>3. CASE i \notin Hit(a, b)
    <3>1. d_held[i] = Dist!Sent(a, b, Place(i))
      BY <2>1, <2>3 DEF Hit
    <3>2. i \notin hit
      BY <2>1, <2>3
    <3> QED BY <2>1, <3>1, <3>2, <1>6 DEF Dist!Window
  <2> QED BY <2>2, <2>3
<1>8. w[4] = c
  <2>1. CASE c = d_frame[d_sent + 1]
    BY <2>1, <1>3, <1>6 DEF Dist!Window
  <2>2. CASE c # d_frame[d_sent + 1]
    BY <2>2 DEF Dist!Window
  <2> QED BY <2>1, <2>2
<1> HIDE DEF A, k, hit, d
<1>9. hit \in SUBSET (1 .. 4)
  BY <1>3
<1>10. Dist!Passes(w) => \/ Dist!OffTheWater(Dist!Distance(w[2], w[3]))
                         \/ k = 0 /\ Dist!Distance(w[2], w[3]) = A
  <2>1. A \in Levels \cup Echoes /\ b \in Levels \cup Echoes
    BY Zenon, <1>2 DEF Spoken
  <2>2. \A e \in [hit -> Damage] :
          Dist!Passes(Dist!Window(A, b, k, hit, e)) =>
            \/ Dist!OffTheWater(Dist!Distance(Dist!Window(A, b, k, hit, e)[2],
                                             Dist!Window(A, b, k, hit, e)[3]))
            \/ /\ k = 0
               /\ Dist!Distance(Dist!Window(A, b, k, hit, e)[2],
                                Dist!Window(A, b, k, hit, e)[3]) = A
    BY Zenon, <2>1, <1>2, <1>4, <1>9, Counting DEF Dist!SumsTell
  <2> QED BY Zenon, <2>2, <1>5
<1>11. w[1] = Dist!Header /\ w[2] = d_held[2] /\ w[3] = d_held[3]
  BY <1>1, <1>7
<1>12. w[4] = Dist!CheckSum(d_held[2], d_held[3])
  BY <1>8 DEF Dist!SumHolds
<1> HIDE DEF w
<1>13. Dist!Passes(w)
  BY Zenon, <1>11, <1>12 DEF Dist!Passes
<1>14. Dist!OffTheWater(mm) \/ (k = 0 /\ mm = A)
  BY Zenon, <1>10, <1>11, <1>13
<1>15. k = 0 => d_sent = 3 /\ A = b
  BY <1>1 DEF k, A
<1> QED BY <1>14, <1>15

-----------------------------------------------------------------------------
LEMMA NothingAstray == Astray(<<>>) = {} /\ Cardinality(Astray(<<>>)) = 0
<1>1. Astray(<<>>) = {}
  BY DEF Astray
<1> QED BY <1>1, FS_EmptySet

LEMMA NothingHeard ==
  ASSUME NEW a, NEW b, d_held' = <<>>, d_frame' = Dist!FrameOf(b), d_damaged' \in Nat
  PROVE  Heard(a, b)'
<1>1. Hit(a, b)' = {}
  BY DEF Hit
<1>2. Cardinality({}) = 0 /\ d_damaged' >= 0
  BY FS_EmptySet
<1> QED BY <1>1, <1>2 DEF Heard

\* Before the first read.
LEMMA MedianInit ==
  ASSUME Dist!Configured, Dist!Init
  PROVE  MedianInv
<1>1. DistanceTypes
  BY ConfigTypes DEF Dist!Init, DistanceTypes
<1> QED BY <1>1 DEF Dist!Init, MedianInv, MedianGood, Dist!Failed

\* A read begins with nothing in hand, and with a frame off the water.
LEMMA DistanceStartKeeps ==
  ASSUME Dist!Configured, MedianInv, Dist!Start
  PROVE  MedianInv'
<1>1. DistanceTypes'
  BY ConfigTypes DEF Dist!Start, MedianInv, DistanceTypes
<1>2. MedianGood'
  BY DEF Dist!Start, MedianGood, Dist!Failed
<1>3. Paced'
  <2>1. d_since' = 0 /\ d_held' = <<>> /\ Len(d_held') = 0 /\ d_discarded' = 0 /\ d_samples' = <<>>
        /\ d_sent' = d_offset' /\ d_offset' \in 0 .. 3 /\ Settle \in Nat
    BY ConfigTypes DEF Dist!Start
  <2>2. Phase' = 0
    <3>1. 0 \in 0 .. 4
      OBVIOUS
    <3>2. PhaseAt(d_offset', d_offset') = 0
      BY <2>1, <3>1, Phases
    <3> QED BY <2>1, <3>2 DEF Phase
  <2> QED BY <2>1, <2>2 DEF Paced
<1>4. Len(d_samples') < Dist!Want /\ Cardinality(Astray(d_samples')) <= d_echoed'
  BY WantPositive, NothingAstray DEF Dist!Start
<1>5. PICK mm \in Levels : d_frame' = Dist!FrameOf(mm)
  BY DEF Dist!Start
<1>6. mm \in Spoken /\ Dist!OffTheWater(mm)
  BY <1>5, SpokenAreNaturals DEF Spoken, Dist!OffTheWater
<1>7. Heard(mm, mm)'
  BY <1>5, NothingHeard DEF Dist!Start
<1>8. Pending(mm)'
  BY <1>6 DEF Pending
<1> QED BY <1>1, <1>2, <1>3, <1>4, <1>6, <1>7, <1>8 DEF MedianInv, Listening

\* Whatever ends a read.
LEMMA DistanceEndKeeps ==
  ASSUME MedianInv, d_pc' = "idle", d_result' = Dist!Failed,
         UNCHANGED <<d_since, d_held, d_discarded, d_samples, Dist!sensorVars>>
  PROVE  MedianInv'
<1>1. DistanceTypes'
  BY DEF MedianInv, DistanceTypes, Dist!sensorVars
<1> QED BY <1>1 DEF MedianInv, MedianGood, Dist!Failed

\* Silence only lets time pass.
LEMMA SilenceKeeps ==
  ASSUME Dist!Configured, MedianInv, Dist!Silence
  PROVE  MedianInv'
<1>1. DistanceTypes' /\ MedianGood' /\ DistanceTypes /\ Listening
  BY DEF Dist!Silence, MedianInv, DistanceTypes, MedianGood, Dist!sensorVars
<1>2. Paced'
  <2>1. /\ d_since \in Nat /\ d_since' = d_since + 1 /\ Settle \in Nat /\ d_discarded \in Nat
        /\ Phase' = Phase /\ Phase \in 0 .. 4 /\ Len(d_held) \in Nat
        /\ UNCHANGED <<d_held, d_discarded, d_samples>>
    <3>1. d_since \in Nat /\ d_discarded \in Nat /\ d_sent \in 0 .. 4 /\ d_offset \in 0 .. 3
          /\ Len(d_held) \in Nat
      BY <1>1 DEF DistanceTypes
    <3>2. Phase \in 0 .. 4
      BY <3>1, Phases DEF Phase
    <3>3. d_since' = d_since + 1 /\ Phase' = Phase /\ UNCHANGED <<d_held, d_discarded, d_samples>>
      BY DEF Dist!Silence, Dist!sensorVars, Phase
    <3> QED BY <3>1, <3>2, <3>3, ConfigTypes
  <2>2. Len(<<>>) = 0
    OBVIOUS
  <2> QED BY <1>1, <2>1, <2>2 DEF Listening, Paced
<1>3. /\ UNCHANGED <<d_held, d_samples, d_frame, d_sent, d_damaged, d_echoed, d_discarded>>
      /\ \A a, b : Hit(a, b)' = Hit(a, b)
  BY DEF Dist!Silence, Dist!sensorVars, Hit, Place
<1>4. /\ Len(d_samples') < Dist!Want /\ Cardinality(Astray(d_samples')) <= d_echoed'
      /\ \E a, b \in Spoken : Heard(a, b)' /\ Pending(b)'
  BY <1>1, <1>3 DEF Listening, Heard, Pending
<1> QED BY <1>1, <1>2, <1>4 DEF MedianInv, Listening

\* What a frame that begins now owes.
LEMMA NewFramePending ==
  ASSUME Dist!Configured, DistanceTypes', Paced', DiscardFrames > 0, NEW b \in Spoken, d_sent' = 0,
         \/ Cardinality(Astray(d_samples')) + 1 <= d_echoed'
         \/ d_since' < Settle + DiscardFrames
         \/ ~Dist!Reportable(b)
         \/ Dist!OffTheWater(b)
  PROVE  Pending(b)'
<1> SUFFICES ASSUME d_since' < Settle + DiscardFrames, Len(d_held') = 0
             PROVE  d_discarded' < DiscardFrames
  BY DEF Pending
<1>1. /\ d_since' \in Nat /\ Settle \in Nat /\ d_discarded' \in Nat /\ DiscardFrames \in Nat
      /\ d_offset' \in 0 .. 3
  BY ConfigTypes DEF DistanceTypes
<1>2. CASE d_since' < Settle
  BY <1>1, <1>2 DEF Paced
<1>3. CASE ~(d_since' < Settle)
  <2>1. Phase' \in 0 .. 4 /\ Phase' <= 3
    <3>1. PhaseAt(0, d_offset') \in 0 .. 4 /\ PhaseAt(0, d_offset') <= 3
      BY <1>1, Phases
    <3> QED BY <3>1 DEF Phase
  <2>2. 4 * d_discarded' <= 4 * (d_since' - Settle) + Phase'
    <3>1. 4 * d_discarded' + 0 <= 4 * (d_since' - Settle) + Phase'
      BY <1>3 DEF Paced
    <3> QED BY <3>1, <1>1
  <2> QED BY <1>1, <2>1, <2>2, Fewer
<1> QED BY <1>2, <1>3

\* The next frame: the bytes in hand are now of the one before, and a false echo is
\* counted or will be discarded.
LEMMA NextFrameKeeps ==
  ASSUME Dist!Configured, DiscardFrames > 0, MedianInv, Dist!NextFrame
  PROVE  MedianInv'
<1>1. DistanceTypes /\ Listening /\ d_pc = "reading" /\ d_sent = 4 /\ d_sent' = 0
      /\ UNCHANGED <<d_pc, d_held, d_discarded, d_samples, d_result, d_offset, d_damaged>>
      /\ d_since' = IF d_offset = 0 THEN d_since + 1 ELSE d_since
  BY DEF Dist!NextFrame, MedianInv
<1>2. PICK c \in Spoken :
        /\ d_frame' = Dist!FrameOf(c)
        /\ d_echoed' \in {d_echoed, d_echoed + 1}
        /\ \/ c \in Levels
           \/ d_echoed' = d_echoed + 1
           \/ d_since' < Settle + DiscardFrames
           \/ ~(c \in MinMm .. MaxMm)
  <2>1. Dist!NewFrame(d_since' >= Settle + DiscardFrames)
    BY DEF Dist!NextFrame
  <2>2. CASE \E mm \in Levels : d_frame' = Dist!FrameOf(mm) /\ UNCHANGED d_echoed
    BY <2>2 DEF Spoken
  <2>3. CASE \E mm \in Echoes :
               /\ d_frame' = Dist!FrameOf(mm)
               /\ d_echoed' = IF d_since' >= Settle + DiscardFrames /\ mm \in MinMm .. MaxMm
                              THEN d_echoed + 1 ELSE d_echoed
               /\ d_echoed' <= MaxEchoes
    <3>1. PICK mm \in Echoes :
               /\ d_frame' = Dist!FrameOf(mm)
               /\ d_echoed' = IF d_since' >= Settle + DiscardFrames /\ mm \in MinMm .. MaxMm
                              THEN d_echoed + 1 ELSE d_echoed
      BY <2>3
    <3>2. d_since' \in Int /\ Settle + DiscardFrames \in Int
      BY <1>1, ConfigTypes DEF DistanceTypes
    <3>3. mm \in Spoken
      BY DEF Spoken
    <3> QED BY <3>1, <3>2, <3>3
  <2> QED BY <2>1, <2>2, <2>3 DEF Dist!NewFrame
<1>3. DistanceTypes'
  BY <1>1, <1>2 DEF DistanceTypes
<1>4. MedianGood'
  <2>1. d_echoed \in Nat /\ d_echoed' \in Nat /\ d_echoed <= d_echoed' /\ Dist!Want \in Nat
    BY <1>1, <1>2, WantPositive DEF DistanceTypes
  <2>2. 2 * d_echoed' < Dist!Want => 2 * d_echoed < Dist!Want
    BY <2>1, Doubles
  <2> QED BY <1>1, <2>2 DEF MedianInv, MedianGood
<1>5. Paced'
  <2>1. /\ d_since \in Nat /\ Settle \in Nat /\ d_discarded \in Nat /\ d_offset \in 0 .. 3
        /\ Len(d_held) \in Nat /\ Len(<<>>) = 0
    BY <1>1, ConfigTypes DEF DistanceTypes
  <2>2. Phase = 4 - d_offset /\ Phase' = IF d_offset = 0 THEN 0 ELSE 4 - d_offset
    BY <1>1, <2>1, Phases DEF Phase
  <2>3. CASE d_offset = 0
    BY <1>1, <2>1, <2>2, <2>3 DEF Paced, Listening
  <2>4. CASE d_offset # 0
    BY <1>1, <2>1, <2>2, <2>4 DEF Paced, Listening
  <2> QED BY <2>3, <2>4
<1>6. /\ Len(d_samples') < Dist!Want /\ Cardinality(Astray(d_samples')) <= d_echoed'
      /\ Cardinality(Astray(d_samples)) \in Nat /\ d_echoed \in Nat
      /\ d_echoed' = d_echoed + 1 => Cardinality(Astray(d_samples')) + 1 <= d_echoed'
  <2>1. /\ Cardinality(Astray(d_samples)) \in Nat /\ d_echoed \in Nat
        /\ Cardinality(Astray(d_samples)) <= d_echoed
    BY <1>1, AstrayFinite DEF Listening, DistanceTypes
  <2> QED BY <1>1, <1>2, <2>1 DEF Listening
<1>7. PICK a \in Spoken, b \in Spoken : Heard(a, b)
  BY <1>1 DEF Listening
<1>8. Heard(b, c)'
  <2>1. Len(d_held) \in 0 .. 3
    BY <1>1 DEF DistanceTypes
  <2>2. ASSUME NEW i \in 1 .. Len(d_held)
        PROVE  Dist!Sent(a, b, Place(i)) = Dist!Sent(b, c, Place(i)')
    <3> DEFINE n == Len(d_held)
               j == 4 - n + i
    <3>0. n \in 0 .. 3 /\ i \in 1 .. n /\ Place(i) = 4 + 4 - n + i /\ Place(i)' = 4 + 0 - n + i
      BY <1>1, <2>1 DEF Place
    <3> HIDE DEF n
    <3>1. j \in 1 .. 4 /\ Place(i) = 4 + j /\ Place(i)' = j
      BY <3>0
    <3>2. Dist!Sent(a, b, 4 + j) = Dist!FrameOf(b)[j]
      BY <3>1, SentBytes
    <3>3. Dist!Sent(b, c, j) = Dist!FrameOf(b)[j]
      BY <3>1, SentBytes
    <3> QED BY <3>1, <3>2, <3>3
  <2>3. Hit(b, c)' = Hit(a, b)
    BY <1>1, <2>2 DEF Hit
  <2> QED BY <1>1, <1>2, <1>7, <2>3 DEF Heard
<1>9. Pending(c)'
  <2>1. c \in Levels => Dist!OffTheWater(c)
    BY SpokenAreNaturals DEF Dist!OffTheWater, Spoken
  <2>2. c \notin MinMm .. MaxMm => ~Dist!Reportable(c)
    BY SpokenAreNaturals, ConfigTypes DEF Dist!Reportable
  <2>3. Cardinality(Astray(d_samples')) + 1 <= d_echoed'
          \/ d_since' < Settle + DiscardFrames \/ ~Dist!Reportable(c) \/ Dist!OffTheWater(c)
    BY <1>2, <1>6, <2>1, <2>2
  <2> QED BY Zenon, <1>1, <1>3, <1>5, <2>3, NewFramePending
<1> QED BY <1>1, <1>3, <1>4, <1>5, <1>6, <1>8, <1>9 DEF MedianInv, Listening

-----------------------------------------------------------------------------
(* A byte *)

\* The clock and the phase go on by one byte.
LEMMA ByteTicks ==
  ASSUME DistanceTypes, Dist!Byte
  PROVE  /\ d_since' \in Nat /\ d_since' \in {d_since, d_since + 1} /\ Phase' \in 0 .. 4
         /\ 4 * d_since' + Phase' = 4 * d_since + Phase + 1
         /\ d_since' = d_since + 1 => Phase' = 0
<1>1. /\ d_since \in Nat /\ d_sent \in 0 .. 4 /\ d_offset \in 0 .. 3 /\ d_sent < 4
      /\ d_sent' = d_sent + 1 /\ d_offset' = d_offset
      /\ d_since' = IF d_sent' = d_offset THEN d_since + 1 ELSE d_since
  BY DEF DistanceTypes, Dist!Byte
<1>2. d_sent + 1 \in 0 .. 4
  BY <1>1
<1>3. PhaseAt(d_sent, d_offset) \in 0 .. 4 /\ PhaseAt(d_sent + 1, d_offset) \in 0 .. 4
  BY <1>1, <1>2, Phases
<1>4. IF d_sent + 1 = d_offset
        THEN PhaseAt(d_sent, d_offset) = 3 /\ PhaseAt(d_sent + 1, d_offset) = 0
        ELSE PhaseAt(d_sent + 1, d_offset) = PhaseAt(d_sent, d_offset) + 1
  BY <1>1, Phases
<1>5. Phase = PhaseAt(d_sent, d_offset) /\ Phase' = PhaseAt(d_sent + 1, d_offset)
  BY <1>1 DEF Phase
<1>6. CASE d_sent + 1 = d_offset
  <2>1. d_since' = d_since + 1 /\ Phase = 3 /\ Phase' = 0
    BY <1>1, <1>4, <1>5, <1>6
  <2> QED BY <2>1, <1>1
<1>7. CASE d_sent + 1 # d_offset
  <2>1. d_since' = d_since /\ Phase' = Phase + 1 /\ Phase \in 0 .. 4 /\ Phase' \in 0 .. 4
    BY <1>1, <1>3, <1>4, <1>5, <1>7
  <2> QED BY <2>1, <1>1
<1> QED BY <1>6, <1>7

\* The bytes parsed stay within the bytes that have come.
LEMMA Ticked ==
  \A d, e, t, u, s \in Nat, n, m \in 0 .. 3, p, q \in 0 .. 4 :
    /\ 4 * d + n <= 4 * (t - s) + p
    /\ 4 * u + q = 4 * t + p + 1
    /\ 4 * e + m <= 4 * d + n + 1
    => 4 * e + m <= 4 * (u - s) + q
OBVIOUS

\* While the sensor settles the parser is given nothing.
LEMMA DroppedKeeps ==
  ASSUME Dist!Configured, MedianInv, Dist!Byte, Dist!Dropped, d_held' = d_held,
         UNCHANGED <<d_pc, rail, d_discarded, d_samples, d_result>>,
         d_damaged' \in {d_damaged, d_damaged + 1}, d_damaged' <= MaxDamaged
  PROVE  MedianInv'
<1>1. /\ DistanceTypes /\ Listening /\ d_pc = "reading" /\ d_since < Settle /\ d_sent < 4
      /\ d_sent' = d_sent + 1 /\ UNCHANGED <<d_frame, d_offset, d_echoed>>
  BY DEF MedianInv, Dist!Byte, Dist!Dropped
<1>2. d_held = <<>> /\ d_discarded = 0 /\ d_samples = <<>>
  BY <1>1 DEF Listening, Paced
<1>3. DistanceTypes'
  BY <1>1, ByteTicks, ConfigTypes DEF DistanceTypes
<1>4. MedianGood'
  BY <1>1 DEF MedianInv, MedianGood
<1>5. Paced'
  <2>1. /\ d_since \in Nat /\ d_since' \in Nat /\ Settle \in Nat
        /\ d_since' \in {d_since, d_since + 1}
        /\ d_since' = d_since + 1 => Phase' = 0
    BY <1>1, ByteTicks, ConfigTypes DEF DistanceTypes
  <2>2. d_since' < Settle \/ (d_since' = Settle /\ Phase' = 0)
    BY <2>1, <1>1
  <2>3. Len(<<>>) = 0 /\ Settle - Settle = 0
    BY <2>1
  <2> QED BY <1>2, <2>1, <2>2, <2>3 DEF Paced
<1>6. PICK a \in Spoken, b \in Spoken : Heard(a, b)
  BY <1>1 DEF Listening
<1>7. Heard(a, b)'
  BY <1>1, <1>2, <1>3, <1>6, NothingHeard DEF Heard, DistanceTypes
<1>8. Pending(b)'
  <2>1. Len(d_held') = 0 /\ d_sent' # 0
    BY <1>1, <1>2 DEF DistanceTypes
  <2> QED BY <2>1 DEF Pending
<1> QED BY <1>1, <1>2, <1>3, <1>4, <1>5, <1>6, <1>7, <1>8 DEF MedianInv, Listening

\* Short of a whole frame the byte is kept, unless it is hunted past.
LEMMA KeptKeeps ==
  ASSUME Dist!Configured, MedianInv, Dist!Byte, ~Dist!Dropped, NEW c, Comes(c),
         Len(d_held) < 3, d_held' = Dist!Kept(c),
         d_damaged' = IF c = d_frame[d_sent + 1] THEN d_damaged ELSE d_damaged + 1,
         UNCHANGED <<d_pc, rail, d_discarded, d_samples, d_result>>
  PROVE  MedianInv'
<1>1. /\ DistanceTypes /\ Listening /\ d_pc = "reading" /\ ~(d_since < Settle) /\ d_sent \in 0 .. 3
      /\ d_sent' = d_sent + 1 /\ UNCHANGED <<d_frame, d_offset, d_echoed>>
  BY DEF MedianInv, Dist!Byte, Dist!Dropped, DistanceTypes
<1>2. PICK a \in Spoken, b \in Spoken : Heard(a, b) /\ Pending(b)
  BY <1>1 DEF Listening
<1>3. d_frame[d_sent + 1] = Dist!Sent(a, b, 4 + (d_sent + 1)) /\ c \in Int
  <2>1. d_sent + 1 \in 1 .. 4 /\ 4 + (d_sent + 1) \in 1 .. 8
    BY <1>1
  <2>2. d_frame[d_sent + 1] = Dist!Sent(a, b, 4 + (d_sent + 1))
    BY <1>2, <2>1, SentBytes DEF Heard
  <2>3. Dist!Sent(a, b, 4 + (d_sent + 1)) \in Int
    BY <2>1, SentBytes
  <2> QED BY <2>2, <2>3, SpokenAreNaturals DEF Comes
<1>4. \/ d_held' = Append(d_held, c)
      \/ d_held = <<>> /\ d_held' = <<>>
  BY DEF Dist!Kept
<1>5. /\ d_held' \in Seq(Int) /\ Len(d_held') \in 0 .. 3
      /\ Len(d_held') = Len(d_held) + 1 \/ (Len(d_held') = 0 /\ Len(d_held) = 0)
      /\ d_held' # <<>> => d_held'[1] = Dist!Header
      /\ Len(d_held) \in 0 .. 2
  <2>1. d_held \in Seq(Int) /\ Len(d_held) \in 0 .. 2 /\ (d_held # <<>> => d_held[1] = Dist!Header)
    <3>1. PICK n \in 0 .. 3 : n = Len(d_held)
      BY <1>1 DEF DistanceTypes
    <3>2. n < 3
      BY <3>1
    <3> QED BY <1>1, <3>1, <3>2 DEF DistanceTypes
  <2>2. CASE d_held = <<>>
    BY <2>2, <1>3 DEF Dist!Kept
  <2>3. CASE d_held # <<>>
    BY <2>1, <2>3, <1>3 DEF Dist!Kept
  <2> QED BY <2>1, <2>2, <2>3
<1>6. d_damaged' \in 0 .. MaxDamaged
  BY <1>1, ConfigTypes DEF Comes, DistanceTypes
<1>7. DistanceTypes'
  BY <1>1, <1>5, <1>6, ByteTicks DEF DistanceTypes
<1>8. MedianGood'
  BY <1>1 DEF MedianInv, MedianGood
<1>9. Paced'
  <2>1. /\ d_since \in Nat /\ d_since' \in Nat /\ Settle \in Nat /\ d_discarded \in Nat
        /\ Len(d_held) \in 0 .. 3 /\ Len(d_held') \in 0 .. 3 /\ Phase' \in 0 .. 4
        /\ 4 * d_since' + Phase' = 4 * d_since + Phase + 1 /\ Phase \in 0 .. 4
        /\ d_since' \in {d_since, d_since + 1}
    BY <1>1, <1>5, ByteTicks, Phases, ConfigTypes DEF DistanceTypes, Phase
  <2>2. 4 * d_discarded + Len(d_held) <= 4 * (d_since - Settle) + Phase
    BY <1>1 DEF Listening, Paced
  <2>3. 4 * d_discarded + Len(d_held') <= 4 * d_discarded + Len(d_held) + 1
    BY <2>1, <1>5
  <2>4. 4 * d_discarded + Len(d_held') <= 4 * (d_since' - Settle) + Phase'
    <3>1. PICK d \in Nat, t \in Nat, u \in Nat, n \in 0 .. 3, m \in 0 .. 3, p \in 0 .. 4, q \in 0 .. 4 :
            /\ d = d_discarded /\ t = d_since /\ u = d_since' /\ n = Len(d_held) /\ m = Len(d_held')
            /\ p = Phase /\ q = Phase'
      BY Zenon, <2>1
    <3>2. 4 * d + n <= 4 * (t - Settle) + p
      BY Zenon, <3>1, <2>2
    <3>3. 4 * u + q = 4 * t + p + 1
      BY Zenon, <3>1, <2>1
    <3>4. 4 * d + m <= 4 * d + n + 1
      BY Zenon, <3>1, <2>3
    <3>5. Settle \in Nat
      BY <2>1
    <3>6. 4 * d + m <= 4 * (u - Settle) + q
      BY <3>2, <3>3, <3>4, <3>5
    <3> QED BY Zenon, <3>1, <3>6
  <2>5. ~(d_since' < Settle)
    BY <2>1, <1>1
  <2> QED BY <2>4, <2>5 DEF Paced
<1>10. Heard(a, b)'
  <2>1. CASE d_held' = <<>>
    BY <1>1, <1>2, <1>6, <2>1, NothingHeard, ConfigTypes DEF Heard
  <2>2. CASE d_held' = Append(d_held, c)
    <3>0. PICK n \in 0 .. 2 : n = Len(d_held)
      BY <1>5
    <3> DEFINE last == IF c = d_frame[d_sent + 1] THEN {} ELSE {n + 1}
    <3>1. /\ n \in 0 .. 2 /\ Len(d_held') = n + 1 /\ d_held'[n + 1] = c
          /\ \A i \in 1 .. n : d_held'[i] = d_held[i]
      BY <1>1, <1>5, <2>2, <3>0 DEF DistanceTypes
    <3>2. \A i \in 1 .. n : Place(i)' = Place(i)
      BY <1>1, <3>0, <3>1 DEF Place
    <3>3. Place(n + 1)' = 4 + (d_sent + 1)
      <4>1. Place(n + 1)' = 4 + (d_sent + 1) - (n + 1) + (n + 1)
        BY <1>1, <3>1 DEF Place
      <4> QED BY <4>1, <3>1, <1>1
    <3>4. Hit(a, b)' = Hit(a, b) \cup last
      <4>1. 1 .. n + 1 = (1 .. n) \cup {n + 1} /\ n + 1 \notin 1 .. n
        BY <3>1
      <4>2. Hit(a, b) = {i \in 1 .. n : d_held[i] # Dist!Sent(a, b, Place(i))}
        BY <3>0 DEF Hit
      <4>3. Hit(a, b)' = {i \in 1 .. n + 1 : d_held'[i] # Dist!Sent(a, b, Place(i)')}
        BY <3>1 DEF Hit
      <4>4. d_held'[n + 1] # Dist!Sent(a, b, Place(n + 1)') <=> c # d_frame[d_sent + 1]
        BY Zenon, <3>1, <3>3, <1>3
      <4>5. \A i \in 1 .. n : d_held'[i] # Dist!Sent(a, b, Place(i)')
                               <=> d_held[i] # Dist!Sent(a, b, Place(i))
        BY Zenon, <3>1, <3>2
      <4>6. ASSUME NEW i PROVE i \in Hit(a, b)' <=> i \in Hit(a, b) \cup last
        <5>1. CASE i = n + 1
          <6>1. i \in Hit(a, b)' <=> c # d_frame[d_sent + 1]
            BY Zenon, <4>1, <4>3, <4>4, <5>1
          <6>2. i \notin Hit(a, b) /\ (i \in last <=> c # d_frame[d_sent + 1])
            BY Zenon, <4>1, <4>2, <5>1
          <6> QED BY Zenon, <6>1, <6>2
        <5>2. CASE i # n + 1
          <6>1. i \in Hit(a, b)' <=> i \in Hit(a, b)
            BY Zenon, <4>1, <4>2, <4>3, <4>5, <5>2
          <6>2. i \notin last
            BY Zenon, <5>2
          <6> QED BY Zenon, <6>1, <6>2
        <5> QED BY Zenon, <5>1, <5>2
      <4> QED BY Zenon, <4>6
    <3>5. \A i \in Hit(a, b)' : d_held'[i] \in Damage
      <4>1. \A i \in Hit(a, b) : i \in 1 .. n /\ d_held[i] \in Damage
        BY <1>2, <3>0 DEF Heard, Hit
      <4>2. c # d_frame[d_sent + 1] => c \in Damage
        BY DEF Comes
      <4> QED BY <3>1, <3>4, <4>1, <4>2
    <3>6. Cardinality(Hit(a, b)') <= d_damaged'
      <4>1. IsFiniteSet(Hit(a, b)) /\ Cardinality(Hit(a, b)) \in Nat
            /\ Cardinality(Hit(a, b)) <= d_damaged /\ d_damaged \in Int
        BY <1>1, <1>2, HitFinite, ConfigTypes DEF Heard, DistanceTypes
      <4>2. CASE c = d_frame[d_sent + 1]
        <5>1. Hit(a, b)' = Hit(a, b) /\ d_damaged' = d_damaged
          BY <3>4, <4>2
        <5> QED BY <4>1, <5>1
      <4>3. CASE c # d_frame[d_sent + 1]
        <5>1. Hit(a, b)' = Hit(a, b) \cup {n + 1} /\ d_damaged' = d_damaged + 1
          BY <3>4, <4>3
        <5>2. Cardinality(Hit(a, b)') \in {Cardinality(Hit(a, b)), Cardinality(Hit(a, b)) + 1}
          BY <4>1, <5>1, FS_AddElement
        <5> QED BY <4>1, <5>1, <5>2
      <4> QED BY <4>2, <4>3
    <3> QED BY <1>1, <1>2, <3>5, <3>6 DEF Heard
  <2> QED BY <1>4, <2>1, <2>2
<1>11. Pending(b)'
  <2>1. Len(d_held') = d_sent' => Len(d_held) = d_sent /\ d_sent < 4
    BY <1>1, <1>5
  <2> QED BY <1>1, <1>2, <2>1 DEF Pending
<1> QED BY <1>1, <1>2, <1>7, <1>8, <1>9, <1>10, <1>11 DEF MedianInv, Listening

\* Everything about the frame is used up; what is left to show is the samples' part.
LEMMA FrameDone ==
  ASSUME Dist!Configured, MedianInv, Dist!Byte, ~Dist!Dropped, NEW c, Comes(c),
         Len(d_held) = 3, d_held' = <<>>,
         d_damaged' = IF c = d_frame[d_sent + 1] THEN d_damaged ELSE d_damaged + 1,
         d_pc' \in {"idle", "reading"}, d_samples' \in Seq(Int), d_discarded' \in Nat
  PROVE  /\ DistanceTypes'
         /\ \E a, b \in Spoken : Heard(a, b)' /\ Pending(b)'
         /\ d_discarded' <= d_discarded + 1 => Paced'
<1>1. /\ DistanceTypes /\ Listening /\ ~(d_since < Settle) /\ d_sent \in 0 .. 3
      /\ d_sent' = d_sent + 1 /\ UNCHANGED <<d_frame, d_offset, d_echoed>>
  BY DEF MedianInv, Dist!Byte, Dist!Dropped, DistanceTypes
<1>2. d_damaged' \in 0 .. MaxDamaged
  BY <1>1, ConfigTypes DEF Comes, DistanceTypes
<1>3. DistanceTypes'
  BY <1>1, <1>2, ByteTicks DEF DistanceTypes
<1>4. PICK a \in Spoken, b \in Spoken : Heard(a, b)
  BY <1>1 DEF Listening
<1>5. Heard(a, b)'
  BY <1>1, <1>2, <1>4, NothingHeard, ConfigTypes DEF Heard
<1>6. Pending(b)'
  <2>1. Len(d_held') = 0 /\ d_sent' # 0
    BY <1>1
  <2> QED BY <2>1 DEF Pending
<1>7. ASSUME d_discarded' <= d_discarded + 1 PROVE Paced'
  <2>1. /\ d_since \in Nat /\ d_since' \in Nat /\ Settle \in Nat /\ d_discarded \in Nat
        /\ Phase' \in 0 .. 4 /\ Phase \in 0 .. 4
        /\ 4 * d_since' + Phase' = 4 * d_since + Phase + 1
        /\ d_since' \in {d_since, d_since + 1}
    BY <1>1, ByteTicks, Phases, ConfigTypes DEF DistanceTypes, Phase
  <2>2. 4 * d_discarded + 3 <= 4 * (d_since - Settle) + Phase
    BY <1>1 DEF Listening, Paced
  <2>3. PICK d \in Nat, e \in Nat, t \in Nat, u \in Nat, p \in 0 .. 4, q \in 0 .. 4 :
          /\ d = d_discarded /\ e = d_discarded' /\ t = d_since /\ u = d_since'
          /\ p = Phase /\ q = Phase'
    BY Zenon, <2>1
  <2>4. 4 * d + 3 <= 4 * (t - Settle) + p
    BY Zenon, <2>2, <2>3
  <2>5. 4 * u + q = 4 * t + p + 1
    BY Zenon, <2>1, <2>3
  <2>6. e <= d + 1
    BY Zenon, <1>7, <2>3
  <2>7. Settle \in Nat
    BY <2>1
  <2>8. 4 * e + 0 <= 4 * (u - Settle) + q
    BY <2>4, <2>5, <2>6, <2>7
  <2>9. 4 * d_discarded' + Len(d_held') <= 4 * (d_since' - Settle) + Phase'
    <3>1. Len(d_held') = 0
      OBVIOUS
    <3> QED BY Zenon, <3>1, <2>3, <2>8
  <2>10. ~(d_since' < Settle)
    BY <2>1, <1>1
  <2> QED BY <2>9, <2>10 DEF Paced
<1> QED BY <1>3, <1>4, <1>5, <1>6, <1>7

\* A frame whose sum is wrong.
LEMMA RefusedKeeps ==
  ASSUME Dist!Configured, MedianInv, Dist!Byte, ~Dist!Dropped, NEW c, Comes(c),
         Len(d_held) = 3, d_held' = <<>>,
         d_damaged' = IF c = d_frame[d_sent + 1] THEN d_damaged ELSE d_damaged + 1,
         UNCHANGED <<d_pc, rail, d_discarded, d_samples, d_result>>
  PROVE  MedianInv'
<1>1. DistanceTypes /\ Listening /\ d_pc = "reading" /\ d_echoed' = d_echoed
  BY DEF MedianInv, Dist!Byte
<1>2. d_pc' \in {"idle", "reading"} /\ d_samples' \in Seq(Int) /\ d_discarded' \in Nat
      /\ d_discarded' <= d_discarded + 1
  BY <1>1 DEF DistanceTypes
<1>3. DistanceTypes' /\ Paced' /\ \E a, b \in Spoken : Heard(a, b)' /\ Pending(b)'
  BY <1>2, FrameDone
<1>4. MedianGood'
  BY <1>1 DEF MedianInv, MedianGood
<1> QED BY <1>1, <1>3, <1>4 DEF MedianInv, Listening

\* A frame whose sum is right: out of range, discarded, or a sample.
LEMMA DeliveredKeeps ==
  ASSUME Dist!Configured, Dist!SumsTell, MedianInv, Dist!Byte, ~Dist!Dropped,
         NEW c, Comes(c), Len(d_held) = 3, d_held' = <<>>,
         d_damaged' = IF c = d_frame[d_sent + 1] THEN d_damaged ELSE d_damaged + 1,
         Dist!SumHolds(c), Dist!Take(Dist!Distance(d_held[2], d_held[3]))
  PROVE  MedianInv'
<1> DEFINE mm == Dist!Distance(d_held[2], d_held[3])
<1>1. /\ DistanceTypes /\ Listening /\ d_pc = "reading" /\ d_sent < 4 /\ d_echoed' = d_echoed
      /\ MedianGood
  BY DEF MedianInv, Dist!Byte
<1>2. mm \in Int
  <2>1. d_held \in Seq(Int) /\ 2 \in 1 .. Len(d_held) /\ 3 \in 1 .. Len(d_held)
    BY <1>1 DEF DistanceTypes
  <2>2. d_held[2] \in Int /\ d_held[3] \in Int
    BY Zenon, <2>1, ElementIs
  <2> QED BY <2>2 DEF Dist!Distance
<1>3. CASE ~Dist!Reportable(mm)
  BY <1>3, RefusedKeeps DEF Dist!Take
<1>4. CASE Dist!Reportable(mm) /\ Dist!StillSettling(mm)
  <2>1. d_discarded' = d_discarded + 1 /\ UNCHANGED <<d_pc, rail, d_samples, d_result>>
    BY <1>4 DEF Dist!Take
  <2>2. d_pc' \in {"idle", "reading"} /\ d_samples' \in Seq(Int) /\ d_discarded' \in Nat
        /\ d_discarded' <= d_discarded + 1
    BY <1>1, <2>1 DEF DistanceTypes
  <2>3. DistanceTypes' /\ Paced' /\ \E a, b \in Spoken : Heard(a, b)' /\ Pending(b)'
    BY <2>2, FrameDone
  <2>4. MedianGood'
    BY <1>1, <2>1 DEF MedianGood
  <2> QED BY <1>1, <2>1, <2>3, <2>4 DEF MedianInv, Listening
<1>5. CASE Dist!Reportable(mm) /\ ~Dist!StillSettling(mm)
  <2> DEFINE v == Append(d_samples, mm)
  <2>1. /\ d_samples' = v /\ d_discarded' = d_discarded
        /\ IF Len(v) >= Dist!Want
             THEN d_result' = [ok |-> TRUE, raw |-> Dist!MedianOf(v)] /\ d_pc' = "idle"
             ELSE UNCHANGED <<d_pc, d_result>>
    BY <1>5 DEF Dist!Take
  <2>2. d_samples \in Seq(Int) /\ v \in Seq(Int) /\ Len(v) = Len(d_samples) + 1 /\ Len(d_samples) \in Nat
    BY <1>1, <1>2 DEF DistanceTypes
  <2>3. d_pc' \in {"idle", "reading"} /\ d_samples' \in Seq(Int) /\ d_discarded' \in Nat
        /\ d_discarded' <= d_discarded + 1
    BY <1>1, <2>1, <2>2 DEF DistanceTypes
  <2>4. DistanceTypes' /\ Paced' /\ \E a, b \in Spoken : Heard(a, b)' /\ Pending(b)'
    BY <2>3, FrameDone
  <2>5. Cardinality(Astray(v)) <= d_echoed
    <3>1. Cardinality(Astray(d_samples)) \in Nat /\ Cardinality(Astray(v)) \in Nat
          /\ Cardinality(Astray(d_samples)) <= d_echoed /\ d_echoed \in Nat
      BY <1>1, <2>2, AstrayFinite DEF Listening, DistanceTypes
    <3>2. CASE Dist!OffTheWater(mm)
      <4>1. Cardinality(Astray(v)) = Cardinality(Astray(d_samples))
        BY <1>2, <2>2, <3>2, AstrayAppend
      <4> QED BY <3>1, <4>1
    <3>3. CASE ~Dist!OffTheWater(mm)
      <4>1. PICK a \in Spoken, b \in Spoken : Heard(a, b) /\ Pending(b)
        BY <1>1 DEF Listening
      <4>2. d_sent = 3 /\ mm = b
        BY <1>1, <1>5, <3>3, <4>1, Trusted
      <4>3. ~(d_discarded < DiscardFrames)
        BY <1>5 DEF Dist!StillSettling
      <4>4. Cardinality(Astray(d_samples)) + 1 <= d_echoed
        BY <1>1, <1>5, <3>3, <4>1, <4>2, <4>3 DEF Pending
      <4>5. Cardinality(Astray(v)) <= Cardinality(Astray(d_samples)) + 1
        BY <1>2, <2>2, AstrayAppend
      <4> QED BY <3>1, <4>4, <4>5
    <3> QED BY <3>2, <3>3
  <2>6. CASE Len(v) >= Dist!Want
    <3>1. Len(v) = Dist!Want /\ Len(v) > 0 /\ Dist!Want \in Nat
      BY <1>1, <2>2, <2>6, WantPositive DEF Listening
    <3>2. ASSUME 2 * d_echoed < Dist!Want PROVE Dist!OffTheWater(Dist!MedianOf(v))
      <4>1. Cardinality(Astray(v)) \in Nat /\ d_echoed \in Nat
        BY <1>1, <2>2, AstrayFinite DEF DistanceTypes
      <4>2. 2 * Cardinality(Astray(v)) < Dist!Want
        BY <2>5, <3>1, <3>2, <4>1, Doubles
      <4> QED BY <2>2, <3>1, <4>2, MedianOffTheWater
    <3>3. MedianGood'
      BY <1>1, <2>1, <2>6, <3>2 DEF MedianGood
    <3> QED BY <2>1, <2>4, <2>6, <3>3 DEF MedianInv
  <2>7. CASE ~(Len(v) >= Dist!Want)
    <3>1. Len(v) < Dist!Want
      BY <2>2, <2>7, WantPositive
    <3>2. MedianGood'
      BY <1>1, <2>1, <2>7 DEF MedianGood
    <3> QED BY <1>1, <2>1, <2>4, <2>5, <2>7, <3>1, <3>2 DEF MedianInv, Listening
  <2> QED BY <2>6, <2>7
<1> QED BY <1>3, <1>4, <1>5

\* A byte, wherever the parser is.
LEMMA ByteKeeps ==
  ASSUME Dist!Configured, Dist!SumsTell, MedianInv, Dist!Byte
  PROVE  MedianInv'
<1>1. PICK c \in {d_frame[d_sent + 1]} \cup (IF d_damaged < MaxDamaged THEN Damage ELSE {}) :
        /\ d_damaged' = IF c = d_frame[d_sent + 1] THEN d_damaged ELSE d_damaged + 1
        /\ d_held' = IF Dist!Dropped THEN d_held ELSE Dist!HeldAfter(c)
        /\ IF ~Dist!Dropped /\ Dist!Delivers(c)
             THEN Dist!Take(Dist!Distance(d_held[2], d_held[3]))
             ELSE UNCHANGED <<d_pc, rail, d_discarded, d_samples, d_result>>
  BY DEF Dist!Byte
<1>2. Comes(c)
  BY <1>1 DEF Comes
<1>3. DistanceTypes
  BY DEF MedianInv
<1>4. d_damaged' \in {d_damaged, d_damaged + 1} /\ d_damaged' <= MaxDamaged
  BY <1>1, <1>2, <1>3, ConfigTypes DEF Comes, DistanceTypes
<1>5. CASE Dist!Dropped
  BY <1>1, <1>4, <1>5, DroppedKeeps
<1>6. CASE ~Dist!Dropped /\ Len(d_held) # 3
  <2>1. Len(d_held) < 3
    <3>1. PICK n \in 0 .. 3 : n = Len(d_held)
      BY <1>3 DEF DistanceTypes
    <3>2. n < 3
      BY <1>6, <3>1
    <3> QED BY <3>1, <3>2
  <2> QED BY <1>1, <1>2, <1>6, <2>1, KeptKeeps DEF Dist!HeldAfter, Dist!Delivers
<1>7. CASE ~Dist!Dropped /\ Len(d_held) = 3 /\ ~Dist!SumHolds(c)
  BY <1>1, <1>2, <1>7, RefusedKeeps DEF Dist!HeldAfter, Dist!Delivers
<1>8. CASE ~Dist!Dropped /\ Len(d_held) = 3 /\ Dist!SumHolds(c)
  BY <1>1, <1>2, <1>8, DeliveredKeeps DEF Dist!HeldAfter, Dist!Delivers
<1> QED BY <1>5, <1>6, <1>7, <1>8

\* A step in which the driver has no part.
LEMMA AsideKeeps ==
  ASSUME MedianInv, UNCHANGED <<d_pc, d_since, d_held, d_discarded, d_samples,
                                d_result, Dist!sensorVars>>
  PROVE  MedianInv'
<1>1. UNCHANGED <<d_pc, d_since, d_held, d_discarded, d_samples, d_result, d_frame, d_sent,
                  d_offset, d_damaged, d_echoed>>
  BY DEF Dist!sensorVars
<1>2. DistanceTypes' = DistanceTypes /\ MedianGood' = MedianGood /\ Paced' = Paced
  BY <1>1 DEF DistanceTypes, MedianGood, Paced, Phase
<1>3. \A a, b : Heard(a, b)' = Heard(a, b) /\ Pending(b)' = Pending(b)
  BY <1>1 DEF Heard, Hit, Place, Pending
<1> QED BY <1>1, <1>2, <1>3 DEF MedianInv, Listening

\* Every step of the driver, and every step it has no part in.
LEMMA MedianStep ==
  ASSUME Trustworthy, MedianInv,
         \/ Dist!Start \/ Dist!Byte \/ Dist!NextFrame \/ Dist!Silence
         \/ Dist!GiveUp \/ Dist!PowerLost
         \/ UNCHANGED <<d_pc, d_since, d_held, d_discarded, d_samples,
                        d_result, Dist!sensorVars>>
  PROVE  MedianInv'
<1>0. Dist!Configured /\ Dist!SumsTell /\ DiscardFrames > 0
  BY DEF Trustworthy
<1>1. CASE Dist!Start BY <1>0, <1>1, DistanceStartKeeps
<1>2. CASE Dist!Byte BY <1>0, <1>2, ByteKeeps
<1>3. CASE Dist!NextFrame BY <1>0, <1>3, NextFrameKeeps
<1>4. CASE Dist!Silence BY <1>0, <1>4, SilenceKeeps
<1>5. CASE Dist!GiveUp BY <1>5, DistanceEndKeeps DEF Dist!GiveUp
<1>6. CASE Dist!PowerLost BY <1>6, DistanceEndKeeps DEF Dist!PowerLost
<1>7. CASE UNCHANGED <<d_pc, d_since, d_held, d_discarded, d_samples,
                       d_result, Dist!sensorVars>>
  BY <1>7, AsideKeeps
<1> QED BY <1>1, <1>2, <1>3, <1>4, <1>5, <1>6, <1>7

\* Whatever the sensor sends and the wire does to it within those bounds, with fewer
\* false echoes than half the samples a reading lies between two distances measured
\* off the water (a02yyuw.cpp:28-65 and :103-123, a02yyuw.h:60-88).
THEOREM ReadingOffTheWater ==
  ASSUME Trustworthy
  PROVE  Dist!Spec => []Dist!MedianSurvives
<1>1. Dist!Init => MedianInv
  BY MedianInit DEF Trustworthy
<1>2. ASSUME MedianInv, [Dist!Next]_(Dist!vars) PROVE MedianInv'
  <2>1. \/ Dist!Start \/ Dist!Byte \/ Dist!NextFrame \/ Dist!Silence
        \/ Dist!GiveUp \/ Dist!PowerLost
        \/ UNCHANGED <<d_pc, d_since, d_held, d_discarded, d_samples,
                       d_result, Dist!sensorVars>>
    BY <1>2 DEF Dist!Next, Dist!Read, Dist!vars, Dist!sensorVars
  <2> QED BY <1>2, <2>1, MedianStep
<1>3. MedianInv => Dist!MedianSurvives
  BY DEF MedianInv, MedianGood, Dist!MedianSurvives
<1> QED BY <1>1, <1>2, <1>3, PTL DEF Dist!Spec
=============================================================================
