----------------------------- MODULE MCProvider -----------------------------
(* Provider with a chain of three.                                           *)
EXTENDS Provider

MCChain == <<"m1", "m2", "m3">>
=============================================================================
