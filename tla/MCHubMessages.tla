---------------------------- MODULE MCHubMessages ---------------------------
(* Instance of HubMessages: a connection of the phone and one of the Vue UI.  *)
EXTENDS HubMessages

CONSTANTS p1, ui

PhoneAndUI == {p1, ui}
TheUI      == {ui}
=============================================================================
