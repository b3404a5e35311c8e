------------------------------ MODULE MCBuffer ------------------------------
(* The buffer, with Each, on three keys (one written, one deleted, one in  *)
(* the base store only) and two values (a fresh and a stale one).          *)
EXTENDS BufferEach
=============================================================================
