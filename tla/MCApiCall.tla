------------------------------ MODULE MCApiCall ------------------------------
(* Instances of ApiCall for TLC.                                           *)
EXTENDS ApiCall

CONSTANTS c1, c2
=============================================================================
