------------------------------ MODULE MCService ------------------------------
(***************************************************************************)
(* Service on its own, for the one promise that the code does not keep.    *)
(***************************************************************************)
EXTENDS Service
=============================================================================
