----------------------------- MODULE RailedRead -----------------------------
(***************************************************************************)
(* What both sensor drivers promise about the switched rail, and nothing   *)
(* else (ipowerrail.h, itemp.h, idistance.h): one read is one whole cycle. *)
(* The rail comes up when a read starts, stays up for all of it, and is    *)
(* down when it ends, however it ends.                                     *)
(***************************************************************************)
VARIABLES
  rail,     \* TRUE while the sensors have power
  reading   \* TRUE between the call of read() and its return

railVars == <<rail, reading>>

Init == rail = FALSE /\ reading = FALSE

Begin ==
  /\ ~reading
  /\ reading' = TRUE
  /\ rail' = TRUE

\* The read returned, or the node lost power in the middle of it.
End ==
  /\ reading
  /\ reading' = FALSE
  /\ rail' = FALSE

Next == Begin \/ End

Spec == Init /\ [][Next]_railVars
=============================================================================
