--------------------------- MODULE MCDeliveryLoop ---------------------------
(* Waits of one to three units, a spool of two parts, one of them split. *)
EXTENDS DeliveryLoop
=============================================================================
