----------------------------- MODULE WakeLedger -----------------------------
(***************************************************************************)
(* What a node promises about its sequence numbers, and nothing else.      *)
(*                                                                         *)
(* A wake opens an entry, may put ONE packet on the air under the current  *)
(* number, and closes the entry.  Closing an entry that stood for a packet *)
(* retires the number whether or not anything was heard, so a hole in the  *)
(* numbers the gateway sees is a lost packet and never a quiet node.  The  *)
(* counter lives in RTC memory: a reset that is not a deep-sleep wake      *)
(* starts the ledger again at zero.                                        *)
(***************************************************************************)
EXTENDS Naturals

CONSTANTS
  SeqMod,   \* how many sequence numbers there are (2^16 in packet.h)
  None      \* "no number"

VARIABLES
  seq,      \* the number the next (or current) packet carries
  open,     \* TRUE while the node is awake with this number not yet settled
  aired     \* the number put on the air during this wake, or None

ledgerVars == <<seq, open, aired>>

Numbers == 0 .. SeqMod - 1

\* (uint16_t)(n + 1)
Successor(n) == IF n + 1 = SeqMod THEN 0 ELSE n + 1

Init == seq = 0 /\ open = FALSE /\ aired = None

Begin ==
  /\ ~open
  /\ open' = TRUE
  /\ aired' = None
  /\ UNCHANGED seq

Air ==
  /\ open
  /\ aired = None
  /\ aired' = seq
  /\ UNCHANGED <<seq, open>>

Retire ==
  /\ open
  /\ open' = FALSE
  /\ seq' = Successor(seq)
  /\ UNCHANGED aired

\* No packet could be built: nothing was aired and no number is spent.
Refuse ==
  /\ open
  /\ aired = None
  /\ open' = FALSE
  /\ UNCHANGED <<seq, aired>>

Restart ==
  /\ seq' = 0
  /\ open' = FALSE
  /\ aired' = None

Next == Begin \/ Air \/ Retire \/ Refuse \/ Restart

Spec == Init /\ [][Next]_ledgerVars
=============================================================================
