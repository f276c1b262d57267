-------------------------- MODULE MCSelectiveView ---------------------------
(* One view; the bounds are those of the program, which starts one mapper  *)
(* and one Samba.                                                          *)
EXTENDS SelectiveView

=============================================================================
