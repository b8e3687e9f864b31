--------------------------- MODULE MCPendingQueue ---------------------------
(* Small instances of PendingQueue for TLC. *)
EXTENDS PendingQueue, TLC

(* The phones are interchangeable. *)
DeviceSymmetry == Permutations(Device)
=============================================================================
