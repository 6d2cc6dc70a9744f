---------------------------- MODULE MCTelemetry ----------------------------
(* A tank node, a bed node and one nobody mapped: all answering, some failed,   *)
(* all failed, out of the sensor's range, and with either end of the numbers.  *)
EXTENDS Telemetry

MCConfig == (1 :> [role |-> "tank", geometry |-> "measured"]) @@
            (2 :> [role |-> "bed", geometry |-> "none"])

Wake(n, s, said, failed) == [node |-> n, seq |-> s, said |-> said, failed |-> failed]
MCWakes == {
  Wake(1, 0, (8 :> 1347) @@ (4 :> 320), {}),
  Wake(1, 65535, (8 :> 1347), {4}),
  Wake(2, 7, (0 :> 6) @@ (1 :> 900) @@ (4 :> 320) @@ (7 :> 30000), {5, 6}),
  Wake(2, 0, << >>, {0, 4}),
  Wake(4, 1, (8 :> 4501), {}) }
=============================================================================
