------------------------------ MODULE Ds18b20 ------------------------------
(***************************************************************************)
(* The headspace probe: Ds18b20Temp::read() (firmware/src/core/            *)
(* ds18b20.cpp), the probe it talks to, the switched rail that powers      *)
(* both it and nothing else that matters here, and the one flag in RTC     *)
(* memory that bounds the writes to the probe's EEPROM.                    *)
(*                                                                         *)
(* The probe is the hard part.  It may be absent, answer garbage, run      *)
(* slower than its datasheet, say it has finished when it has not, drop a  *)
(* configuration write, or keep it in RAM and lose it.  A garbled byte is  *)
(* always caught by the CRC on the way in (a scratchpad read either gives  *)
(* what the probe holds or fails) and never on the way out: Write          *)
(* Scratchpad carries no CRC.                                              *)
(*                                                                         *)
(* Time is milliseconds since Convert T, as the loop reads it: unsigned    *)
(* subtraction makes the difference exact across the clock's wrap.  Two    *)
(* readings of one turn of the loop are less than Pass apart.              *)
(* Reads are a sleep interval apart, so the rail has fallen and the probe  *)
(* restarts from its EEPROM at the start of each.                          *)
(***************************************************************************)
EXTENDS Integers

CONSTANTS
  Wanted,     \* cfg_.resolution
  Configs,    \* configuration bytes a probe may hold
  Deadline,   \* cfg_.conversionDeadlineMs
  Sentinel,   \* cfg_.sentinelRaw, the register's power-up value
  MinRaw,     \* cfg_.minRaw
  MaxRaw,     \* cfg_.maxRaw
  Temps,      \* air temperatures, in 1/16 C
  Finishes,   \* how long a conversion may really take
  Instants,   \* clock readings the wait loop may see
  Pass,       \* the longest one turn of the wait loop takes
  MaxBoots    \* bound: how often the node loses power

ASSUME ConfigsAssumption == Wanted \in Configs /\ Configs \subseteq 0 .. 255
ASSUME RawAssumption ==
  /\ Sentinel \in Int /\ MinRaw \in Int /\ MaxRaw \in Int /\ Temps \subseteq Int
  \* 0x0550 reads the same at every resolution
  /\ Sentinel % 8 = 0
ASSUME TimeAssumption ==
  /\ Deadline \in Nat /\ Pass \in Nat /\ MaxBoots \in Nat
  /\ Instants \subseteq Nat /\ Finishes \subseteq Nat
  \* a 12-bit conversion and one turn of the loop fit under the deadline, as
  \* ds18b20.h asks of it ("this must cover 750 ms")
  /\ 750 + Pass < Deadline

VARIABLES
  pc,        \* where in read() the driver is; "idle" outside it
  rail,      \* the switched rail
  since,     \* the last clock reading of the wait loop
  minConv,   \* minConvMs: the floor under the wait
  result,    \* the last read's Reading
  flag,      \* g_healAttempted, in RTC memory
  probe,     \* the part: the configuration in its EEPROM and in force, and
             \*   whether it lies about being busy
  finish,    \* when the conversion under way really ends
  air,       \* the temperature it measures
  excuse,    \* history: the wire or the probe misbehaved during the last read,
             \*   or power was lost in it
  copies,    \* history: Copy Scratchpad commands since power-up
  allCopies, \* history: Copy Scratchpad commands in the probe's life
  boots      \* how often the node has been powered up

probeVars == <<finish, air, excuse>>
wearVars == <<copies, allCopies, boots>>
vars == <<pc, rail, since, minConv, result, flag, probe, finish, air, excuse,
          copies, allCopies, boots>>

-----------------------------------------------------------------------------
(* The datasheet's tables, as the driver has them *)

\* 2^n for the n low bits that mean nothing at a resolution; every bit counts
\* at 12 bits and at a configuration byte nobody recognises.
UndefinedBelow(config) ==
  CASE config = 31 -> 8
    [] config = 63 -> 4
    [] config = 95 -> 2
    [] OTHER       -> 1

ConversionMs(config) ==
  CASE config = 31 -> 94
    [] config = 63 -> 188
    [] config = 95 -> 375
    [] OTHER       -> 750

\* Mutant: the register is taken as it comes.
Unmasked(reg, config) == reg
\* bits & ~undefined, in two's complement
Masked(reg, config) == reg - (reg % UndefinedBelow(config))

\* The probe's side of it: the value a temperature has at a resolution.
Representable(t, config) == t - (t % UndefinedBelow(config))

Failed == [ok |-> FALSE, raw |-> 0]
NewProbe == [eeprom : Configs, live : Configs, lies : BOOLEAN]

Init ==
  /\ pc = "idle"
  /\ rail = FALSE
  /\ since = 0
  /\ minConv = 0
  /\ result = Failed
  /\ flag = FALSE
  /\ probe \in NewProbe
  /\ finish = 0
  /\ air = 0
  /\ excuse = TRUE
  /\ copies = 0
  /\ allCopies = 0
  /\ boots = 1

-----------------------------------------------------------------------------
(* read() *)

\* Every return: the rail comes down first.
Finish(r) ==
  /\ result' = r
  /\ rail' = FALSE
  /\ pc' = "idle"

\* The bus did not answer, or the CRC did not match.
BusFails ==
  /\ excuse' = TRUE
  /\ Finish(Failed)

\* Power reaches the probe, which reloads its configuration from EEPROM.
Start ==
  /\ pc = "idle"
  /\ rail' = TRUE
  /\ pc' = "before"
  /\ probe' = [probe EXCEPT !.live = probe.eeprom]
  /\ excuse' = FALSE
  /\ result' = Failed
  /\ UNCHANGED <<since, minConv, flag, finish, air, wearVars>>

\* The scratchpad is read before the conversion, for its configuration byte.
ReadBefore ==
  /\ pc = "before"
  /\ \/ /\ minConv' = ConversionMs(probe.live)
        /\ pc' = "convert"
        /\ UNCHANGED <<rail, result, excuse>>
     \/ /\ BusFails
        /\ UNCHANGED minConv
  /\ UNCHANGED <<since, flag, probe, finish, air, wearVars>>

\* Convert T.  The part takes as long as it takes.
Convert ==
  /\ pc = "convert"
  /\ \/ /\ \E t \in Temps, f \in Finishes :
             /\ air' = t
             /\ finish' = f
             /\ excuse' = (f > ConversionMs(probe.live))
        /\ since' = 0
        /\ pc' = "wait"
        /\ UNCHANGED <<rail, result>>
     \/ /\ BusFails
        /\ UNCHANGED <<since, finish, air>>
  /\ UNCHANGED <<minConv, flag, probe, wearVars>>

Expired(now) == now >= Deadline

\* Mutant: the floor is left out, and the probe's own word is taken.
PollFirst(now) == probe.lies \/ now >= finish
\* The floor has passed and the read slot came back 1.
SaysDone(now) == now >= minConv /\ (probe.lies \/ now >= finish)

\* One turn of the wait loop: the deadline, then the floor, then the bus.
Wait ==
  /\ pc = "wait"
  /\ \E now \in Instants :
       /\ now >= since
       /\ now - since < Pass
       /\ since' = now
       /\ \/ /\ Expired(now)
             /\ Finish(Failed)
          \/ /\ ~Expired(now)
             /\ pc' = IF SaysDone(now) THEN "after" ELSE "wait"
             /\ UNCHANGED <<rail, result>>
  /\ UNCHANGED <<minConv, flag, probe, probeVars, wearVars>>

Believable(raw) == raw # Sentinel /\ raw >= MinRaw /\ raw <= MaxRaw

\* Mutants: any wake that sees a wrong resolution heals it; any first wake heals.
HealEveryTime(config) == config # Wanted
NeedsHeal(config) == config # Wanted /\ ~flag

\* What the register holds: its power-up value until the part has finished, and
\* then the temperature, with anything at all in the bits its resolution leaves
\* undefined.
Register ==
  IF since >= finish
    THEN {Representable(air, probe.live) + n : n \in 0 .. UndefinedBelow(probe.live) - 1}
    ELSE {Sentinel}

\* The scratchpad is read again.  A reading is published only if it is not the
\* power-up value and in the sensor's range; a good one may start the heal,
\* whose one mark is made before anything is written.
ReadAfter ==
  /\ pc = "after"
  /\ \/ \E reg \in Register :
          LET raw == Masked(reg, probe.live) IN
          /\ IF ~Believable(raw)
               THEN Finish(Failed) /\ UNCHANGED flag
               ELSE IF NeedsHeal(probe.live)
               THEN /\ flag' = TRUE
                    /\ pc' = "heal"
                    /\ result' = [ok |-> TRUE, raw |-> raw]
                    /\ UNCHANGED rail
               ELSE Finish([ok |-> TRUE, raw |-> raw]) /\ UNCHANGED flag
          /\ UNCHANGED excuse
     \/ BusFails /\ UNCHANGED flag
  /\ UNCHANGED <<since, minConv, probe, finish, air, wearVars>>

\* healResolution(): Write Scratchpad, which may be garbled on the way...
WriteConfig ==
  /\ pc = "heal"
  /\ \/ /\ \E c \in Configs : probe' = [probe EXCEPT !.live = c]
        /\ pc' = "copy"
        /\ UNCHANGED <<rail, result>>
     \/ /\ Finish(result)
        /\ UNCHANGED probe
  /\ UNCHANGED <<since, minConv, flag, probeVars, wearVars>>

\* ... and Copy Scratchpad, which the part may take or quietly drop.  Nothing
\* waits for it: the rail goes down on the way out.
CopyConfig ==
  /\ pc = "copy"
  /\ \/ /\ copies' = copies + 1
        /\ allCopies' = allCopies + 1
        /\ probe' \in {probe, [probe EXCEPT !.eeprom = probe.live]}
     \/ UNCHANGED <<copies, allCopies, probe>>
  /\ Finish(result)
  /\ UNCHANGED <<since, minConv, flag, probeVars, boots>>

-----------------------------------------------------------------------------
(* The node around it *)

\* Power goes at any point and comes back: RTC memory starts again, and the
\* rail's gate is pulled up until someone drives it.  The same visit may bring a
\* new probe.
PowerLost ==
  /\ boots < MaxBoots
  /\ boots' = boots + 1
  /\ pc' = "idle"
  /\ rail' = FALSE
  /\ flag' = FALSE
  /\ copies' = 0
  /\ result' = Failed
  /\ excuse' = TRUE
  /\ \/ UNCHANGED <<probe, allCopies>>
     \/ probe' \in NewProbe /\ allCopies' = 0
  /\ UNCHANGED <<since, minConv, finish, air>>

Read ==
  \/ Start \/ ReadBefore \/ Convert \/ Wait \/ ReadAfter
  \/ WriteConfig \/ CopyConfig

Next == Read \/ PowerLost

Spec == Init /\ [][Next]_vars

-----------------------------------------------------------------------------
(* Properties *)

\* Type invariant of the driver (ds18b20.cpp), the probe and the wear counters.
DriverOK ==
  /\ pc \in {"idle", "before", "convert", "wait", "after", "heal", "copy"}
  /\ rail \in BOOLEAN /\ flag \in BOOLEAN
  /\ since \in Nat
  /\ minConv \in {0, 94, 188, 375, 750}
ResultOK == result \in [ok : BOOLEAN, raw : Int]
ProbeOK ==
  /\ probe \in NewProbe
  /\ finish \in Nat /\ air \in Int /\ excuse \in BOOLEAN
WearOK == copies \in Nat /\ allCopies \in Nat /\ boots \in Nat \ {0}
TypeOK == DriverOK /\ ResultOK /\ ProbeOK /\ WearOK

\* A published reading is the temperature of this read's own conversion, at the
\* resolution whose time was waited for, with nothing invented below it: never
\* the power-up value, a value out of range, or a register the conversion had
\* not reached, whatever the probe said (ds18b20.cpp:125-163, ds18b20.h:69-75).
ReadingTrue ==
  result.ok =>
    /\ \E c \in Configs :
         ConversionMs(c) = minConv /\ result.raw = Representable(air, c)
    /\ Believable(result.raw)

\* A read fails for a reason: the wire or the probe misbehaved, the temperature
\* is one the sensor cannot report, or power was lost.  A probe that only lies
\* about being busy, or is still at its factory resolution, is read
\* (ds18b20.cpp:109-124, ds18b20.h:77-90 and :107-118).
FaultHasCause ==
  (pc = "idle" /\ ~result.ok) =>
    excuse \/ \E c \in Configs :
                ConversionMs(c) = minConv /\ ~Believable(Representable(air, c))

\* The EEPROM is written at most once per power-up, and so over a probe's life
\* at most once per time its node was powered up, whatever the probe does with
\* the write and wherever power is lost (ds18b20.cpp:169-187,
\* ihealattemptflag.h:17-21).
WearBounded == copies <= 1 /\ allCopies <= boots

\* Copy Scratchpad never reaches a probe whose EEPROM is already right
\* (ds18b20.cpp:169, ds18b20.h:36-40).
HealthyProbeNotWritten ==
  [][allCopies' > allCopies => probe.eeprom # Wanted]_vars

\* The rail is up for exactly as long as a read lasts, on every return and
\* across a loss of power (ds18b20.cpp:92-95, vext_rail.h:17-21).
Railed == INSTANCE RailedRead WITH reading <- (pc # "idle")
RailSpec == Railed!Spec
=============================================================================
