--------------------------- MODULE MCDiskWriter ---------------------------
(* DiskWriter on small images: more chunks than the queue holds, so that   *)
(* the queue fills up, drains and wraps around while a fault or a cancel   *)
(* strikes at any point.                                                   *)
EXTENDS DiskWriter

AllFaults == FaultKinds
=============================================================================
