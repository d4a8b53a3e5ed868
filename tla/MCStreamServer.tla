--------------------------- MODULE MCStreamServer ---------------------------
(***************************************************************************)
(* StreamServer for TLC: two slots, two peers, two packets of up to the    *)
(* whole ring, so that a ring fills, wraps and refuses.                    *)
(***************************************************************************)
EXTENDS StreamServer

====
