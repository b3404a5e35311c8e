----------------------------- MODULE MCRequests -----------------------------
(* Two endpoints, three attempts, short countdowns. *)
EXTENDS Requests
=============================================================================
