------------------------------ MODULE MCIdset -------------------------------
(* Idset on three ids whose hashes spread them differently under layouts   *)
(* of one, two and three shards: 0 0 0, 0 1 1 and 0 1 2.                   *)
EXTENDS Idset

CONSTANTS a, b, c

MCIds == {a, b, c}
MCHash == [id \in MCIds |-> CASE id = a -> 0 [] id = b -> 1 [] id = c -> 5]
=============================================================================
