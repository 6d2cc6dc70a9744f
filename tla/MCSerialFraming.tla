--------------------------- MODULE MCSerialFraming ---------------------------
(* Lengths from 1 to 3 stand for 6..46, so that, as there, the longest        *)
(* payload is not a whole number of shortest frames.  Payloads hold a header, *)
(* half of one, or no sync byte.                                              *)
EXTENDS SerialFraming

MCTricky == { <<9, 8, 1>>, <<0, 9>>, <<0>>, <<0, 0, 0>> }
=============================================================================
