---------------------------- MODULE AtomicUpdate ----------------------------
(***************************************************************************)
(* What an update over the air promises, and nothing else.  What a reset   *)
(* would start changes in one step, once in a wake, to an image that has   *)
(* been released, and the wake it changed in ends by starting that image.  *)
(* Whatever else happens in a wake, the power going included, changes      *)
(* neither what executes nor what a reset would start.  What is released   *)
(* stays released.                                                         *)
(***************************************************************************)
CONSTANTS
  Images,   \* the images there are
  Factory   \* the one flashed over USB

VARIABLES
  running,  \* the image executing
  onReset,  \* the image a reset would start
  released, \* those some manifest signed with the fleet key was served for
  awake     \* TRUE between a wake and the sleep or reset that ends it

updateVars == <<running, onReset, released, awake>>

Init == running = Factory /\ onReset = Factory /\ released = {} /\ awake = FALSE

Release ==
  /\ \E b \in Images : released' = released \cup {b}
  /\ UNCHANGED <<running, onReset, awake>>

Wake ==
  /\ ~awake /\ awake' = TRUE
  /\ UNCHANGED <<running, onReset, released>>

\* The wake ends by a sleep or a reset, asked for or not: in the image a reset
\* starts, and while that is the running one, with nothing changed.
Rest ==
  /\ awake /\ awake' = FALSE
  /\ running' = onReset
  /\ UNCHANGED <<onReset, released>>

\* The new image becomes what a reset starts.
Install ==
  /\ awake
  /\ onReset = running
  /\ onReset' \in released
  /\ UNCHANGED <<running, released, awake>>

Next == Release \/ Wake \/ Rest \/ Install

Spec == Init /\ [][Next]_updateVars
=============================================================================
