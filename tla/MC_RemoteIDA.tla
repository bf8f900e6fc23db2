---------------------------- MODULE MC_RemoteIDA ----------------------------
(***************************************************************************)
(* An instance of RemoteIDA: two IDAs with either of two modules; the      *)
(* second cannot read the file of the first module.                        *)
(***************************************************************************)
EXTENDS RemoteIDA, TLC

CONSTANTS i1, i2, m1, m2
MCReadable == {<<i1, m1>>, <<i1, m2>>, <<i2, m2>>}
AllReadable == Idas \X Modules
=============================================================================
