--------------------------- MODULE MCTankSensors ---------------------------
(* Small sensors, so that every way one read can end meets every way the     *)
(* other can.                                                                *)
EXTENDS TankSensors

MCLevels == {2041}
MCEchoes == {}
MCDamage == {}
MCConfigs == {31, 127}
MCTemps == {405}
MCFinishes == {94, 5000}
MCInstants == {0, 94, 200, 340, 480, 620, 750, 890, 900}
MCMinRaw == -880
=============================================================================
