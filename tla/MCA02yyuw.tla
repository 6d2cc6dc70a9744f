----------------------------- MODULE MCA02yyuw -----------------------------
(* Water at levels whose frames are awkward (a checksum of 0xFF, a data byte *)
(* of 0xFF, and a plain one), a wall in range, one of its distances between  *)
(* two of the water's, and answers out of range; a byte damaged into a       *)
(* header or into nothing special.                                           *)
EXTENDS A02yyuw, TLC

ASSUME SumsTellHere == SumsTell

\* medianOf as the code has it: the values sorted, and the one at n / 2.
ASSUME MedianIsTheMiddleOfTheSorted ==
  \A n \in 1 .. 5 : \A v \in [1 .. n -> 0 .. 3] :
    MedianOf(v) = SortSeq(v, <)[n \div 2 + 1]

MCLevels == {1953, 2041, 2047}
MCEchoes == {0, 700, 2000, 4600}
MCDamage == {0, 255}
=============================================================================
