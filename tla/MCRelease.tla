------------------------------ MODULE MCRelease ------------------------------
(* Releases with every kind of change, runs that stop and a toolchain that *)
(* moves.                                                                  *)
EXTENDS Release

First == <<0, 1, 0>>
==============================================================================
