---------------------------- MODULE MCEntraSync -----------------------------
(* EntraSync with one or two users and a device.                           *)
EXTENDS EntraSync
=============================================================================
