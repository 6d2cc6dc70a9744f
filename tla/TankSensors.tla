---------------------------- MODULE TankSensors ----------------------------
(***************************************************************************)
(* The tank node's two sensors in one wake: the slots of tankPreset()      *)
(* (firmware/src/core/tank_preset.cpp) sampled in order by assemble(),     *)
(* the distance sensor and then the probe, each driver cycling the ONE     *)
(* switched rail both sensors hang off (firmware/src/esp32/main.cpp:91-95, *)
(* vext_rail.cpp).  Composes A02yyuw and Ds18b20, whose variables are here *)
(* prefixed d_ and t_, over the rail they share.                           *)
(***************************************************************************)
EXTENDS Integers, Sequences

CONSTANTS
  Levels, Echoes, Damage, MaxDamaged, MaxEchoes, Settle, DiscardFrames,
  SampleFrames, Periods, MinMm, MaxMm,
  Wanted, Configs, Deadline, Sentinel, MinRaw, MaxRaw, Temps, Finishes,
  Instants, Pass, MaxBoots

VARIABLES
  turn,   \* whose slot it is: "distance" or "temp"; "asleep" between wakes
  rail,   \* the one rail
  d_pc, d_since, d_held, d_discarded, d_samples, d_result, d_frame, d_sent,
  d_offset, d_damaged, d_echoed,
  t_pc, t_since, t_minConv, t_result, t_flag, t_probe, t_finish, t_air,
  t_excuse, t_copies, t_allCopies, t_boots

dVars == <<d_pc, d_since, d_held, d_discarded, d_samples, d_result, d_frame,
           d_sent, d_offset, d_damaged, d_echoed>>
tVars == <<t_pc, t_since, t_minConv, t_result, t_flag, t_probe, t_finish, t_air,
           t_excuse, t_copies, t_allCopies, t_boots>>
vars == <<turn, rail, dVars, tVars>>

Dist == INSTANCE A02yyuw WITH
  Deadline <- Periods, pc <- d_pc, since <- d_since, held <- d_held,
  discarded <- d_discarded, samples <- d_samples, result <- d_result,
  frame <- d_frame, sent <- d_sent, offset <- d_offset, damaged <- d_damaged,
  echoed <- d_echoed

Temp == INSTANCE Ds18b20 WITH
  pc <- t_pc, since <- t_since, minConv <- t_minConv, result <- t_result,
  flag <- t_flag, probe <- t_probe, finish <- t_finish, air <- t_air,
  excuse <- t_excuse, copies <- t_copies, allCopies <- t_allCopies,
  boots <- t_boots

Init == turn = "asleep" /\ Dist!Init /\ Temp!Init

-----------------------------------------------------------------------------
(* assemble() over the two slots *)

\* The first slot: DistanceSampler::sample().
SampleDistance ==
  /\ turn = "asleep"
  /\ turn' = "distance"
  /\ Dist!Start
  /\ UNCHANGED tVars

ReadDistance ==
  /\ turn = "distance"
  /\ Dist!Byte \/ Dist!NextFrame \/ Dist!Silence \/ Dist!GiveUp
  /\ UNCHANGED <<turn, tVars>>

\* Mutant: the probe is started while the distance sensor is being read.
SampleTempAtOnce ==
  /\ turn = "distance"
  /\ turn' = "temp"
  /\ Temp!Start
  /\ UNCHANGED dVars

\* Mutant: a node whose distance read failed does not go on to the probe.
SampleTempIfHeard ==
  /\ turn = "distance"
  /\ d_pc = "idle" /\ d_result.ok
  /\ turn' = "temp"
  /\ Temp!Start
  /\ UNCHANGED dVars

\* The second slot, once the first has answered or failed: TempSampler::sample().
SampleTemp ==
  /\ turn = "distance"
  /\ d_pc = "idle"
  /\ turn' = "temp"
  /\ Temp!Start
  /\ UNCHANGED dVars

ReadTemp ==
  /\ turn = "temp"
  /\ Temp!ReadBefore \/ Temp!Convert \/ Temp!Wait \/ Temp!ReadAfter
       \/ Temp!WriteConfig \/ Temp!CopyConfig
  /\ UNCHANGED <<turn, dVars>>

\* Both slots are sampled; the rest of the wake does not touch the sensors.
Sleep ==
  /\ turn = "temp"
  /\ t_pc = "idle"
  /\ turn' = "asleep"
  /\ UNCHANGED <<rail, dVars, tVars>>

\* Power goes, at any point of a wake or of the sleep between two.
PowerLost ==
  /\ Temp!PowerLost
  /\ turn' = "asleep"
  /\ \/ d_pc = "idle" /\ UNCHANGED dVars
     \/ Dist!PowerLost

Node == SampleDistance \/ ReadDistance \/ SampleTemp \/ ReadTemp \/ Sleep

Next == Node \/ PowerLost

Spec == Init /\ [][Next]_vars

\* The program never blocks, and its clock moves.
FairSpec ==
  /\ Spec
  /\ WF_vars(SampleDistance \/ ReadDistance \/ SampleTemp \/ Sleep)
  /\ WF_vars(ReadTemp /\ (t_pc # "wait" \/ t_since' > t_since))

-----------------------------------------------------------------------------
(* Properties *)

\* Two drivers that each believe the rail is theirs never hold it at once: it
\* comes up for one read, goes down at that read's end, and is down for all of
\* the sleep (main.cpp:91-95, ipowerrail.h:5-8).
Railed == INSTANCE RailedRead WITH reading <- (d_pc # "idle" \/ t_pc # "idle")
RailSpec == Railed!Spec

\* A wake that goes into the sensors comes out of them and sleeps again, however
\* either read ends (runcycle.cpp:18-27, main.cpp:91-95).
WakeEnds == (turn # "asleep") ~> (turn = "asleep")
============================================================================
