---------------------------- MODULE MCFlashJob ----------------------------
(* FlashJob on images of a few chunks, one poll of the wait gate.           *)
EXTENDS FlashJob

RestoreWorks == FaultKinds \ {"restore"}
=============================================================================
