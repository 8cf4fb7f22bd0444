---------------------------- MODULE MCReadWrite ----------------------------
(* Values for the constants of ReadWrite: one byte, a sector, a sector and *)
(* a byte.                                                                 *)
EXTENDS ReadWrite

Requests == {<<1>>, <<1, 0>>, <<1, 1, 0>>, <<0, 1, 1>>}
=============================================================================
