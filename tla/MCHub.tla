-------------------------------- MODULE MCHub -------------------------------
(***************************************************************************)
(* Instance of Hub: two connections of a phone, one after or over the      *)
(* other.                                                                  *)
(***************************************************************************)
EXTENDS Hub

CONSTANTS p1, p2

TwoPhones == {p1, p2}
NoUI      == {}
=============================================================================
