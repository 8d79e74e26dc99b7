--------------------------- MODULE MCProviderCalls ---------------------------
(***************************************************************************)
(* Instances of ProviderCalls for TLC.                                     *)
(***************************************************************************)
EXTENDS ProviderCalls
=============================================================================
