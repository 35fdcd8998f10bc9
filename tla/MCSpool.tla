------------------------------- MODULE MCSpool -------------------------------
(* Instances of Spool for TLC. *)
EXTENDS SpoolProperties

(* One part of one or two items, a batch cut in two parts, and one that is *)
(* larger than the whole budget.                                           *)
MCShapes == {<<1>>, <<2>>, <<1, 2>>, <<1, 2, 3>>}
(* A part of three or four items takes two or three levels of splits. *)
MCDeepShapes == {<<1>>, <<4>>, <<1, 3>>}
=============================================================================
