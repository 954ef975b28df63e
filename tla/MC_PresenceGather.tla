------------------------- MODULE MC_PresenceGather -------------------------
(* A small cluster for TLC: the asking node n1 and the peer n2, with one  *)
(* connection at each.                                                    *)
EXTENDS PresenceGather, TLC

CONSTANTS n1, n2, ca, cb

MCHome == (ca :> n1) @@ (cb :> n2)

=============================================================================
