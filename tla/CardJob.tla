------------------------------ MODULE CardJob ------------------------------
(***************************************************************************)
(* What FlashJob.run promises its caller about the card: it is touched at  *)
(* all only once the device could be opened, it boots only if that was     *)
(* reached without a cancel, and a run that answers "ok" without having    *)
(* been cancelled leaves a card that boots.                                *)
(***************************************************************************)
VARIABLES
  card,     \* "original", "raw", "bootable", "recovered"
  cancel,   \* the operator's cancel
  outcome   \* "none" while the job runs, then "ok" or "failed"

vars == <<card, cancel, outcome>>

Init == card = "original" /\ cancel = FALSE /\ outcome = "none"

Touch ==
  /\ outcome = "none" /\ card = "original"
  /\ card' = "raw"
  /\ UNCHANGED <<cancel, outcome>>

Complete ==
  /\ outcome = "none" /\ card = "raw" /\ ~cancel
  /\ card' = "bootable"
  /\ UNCHANGED <<cancel, outcome>>

Cancel ==
  /\ outcome = "none" /\ cancel' = TRUE
  /\ UNCHANGED <<card, outcome>>

Succeed ==
  /\ outcome = "none" /\ card = "bootable"
  /\ outcome' = "ok"
  /\ UNCHANGED <<card, cancel>>

\* A card that was touched and is not complete is restored, if that works.
GiveUp ==
  /\ outcome = "none"
  /\ \/ card = "raw" /\ cancel /\ outcome' = "ok"
     \/ outcome' = "failed"
  /\ card' \in IF card = "original" THEN {card} ELSE {card, "raw", "recovered"}
  /\ UNCHANGED cancel

Next == Touch \/ Complete \/ Cancel \/ Succeed \/ GiveUp

Spec == Init /\ [][Next]_vars
=============================================================================
