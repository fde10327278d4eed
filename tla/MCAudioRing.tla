---------------------------- MODULE MCAudioRing ----------------------------
(* A buffer has room for two samples; a frame has one, or three, of which  *)
(* the last does not fit.                                                  *)
EXTENDS AudioRing

SomeMade == {1, 3}
=============================================================================
