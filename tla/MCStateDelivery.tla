--------------------------- MODULE MCStateDelivery ---------------------------
(* One fast and one slow state for TLC. *)
EXTENDS StateDelivery
CONSTANTS f, s
MCFast == {f}
MCSlow == {s}
=============================================================================
