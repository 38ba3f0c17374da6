---------------------------- MODULE MCSendThread ----------------------------
(* SendThread on a few packets of each kind. *)
EXTENDS SendThread

CONSTANTS Ordinary

MCPackets == Ordinary \cup Async \cup Sessions

=============================================================================
