---------------------------- MODULE MCTypeCheck ----------------------------
(***************************************************************************)
(* Instance of TypeCheck for TLC: the signatures of the library functions  *)
(* getint and putint (src/src/Unit.cpp).                                   *)
(***************************************************************************)
EXTENDS TypeCheck

MCSignatures == {<<"int", 0>>, <<"void", 1>>}
=============================================================================
