----------------------------- MODULE MCJamfSync -----------------------------
(* JamfSync with pages shorter than the inventory.                         *)
EXTENDS JamfSync
=============================================================================
