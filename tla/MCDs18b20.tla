----------------------------- MODULE MCDs18b20 -----------------------------
(* A probe at the resolution wanted, one at each other one that matters, and *)
(* one with a configuration byte nobody knows; temperatures on both sides of *)
(* the sensor's range and on the power-up value; conversions that end at     *)
(* once, on time, late, and never.  Instants are the edges of every wait.    *)
EXTENDS Ds18b20

MCConfigs == {31, 63, 127, 255}
MCTemps == {-881, -875, 405, 1365, 2001}
MCFinishes == {0, 94, 188, 750, 800, 5000}
MCInstants == {0, 93, 94, 187, 188, 300, 430, 560, 690, 749, 750, 799, 800,
               899, 900}
MCMinRaw == -880
=============================================================================
