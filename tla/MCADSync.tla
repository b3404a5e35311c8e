------------------------------ MODULE MCADSync ------------------------------
(* ADSync in small directories, one to a configuration: two users, whose   *)
(* searches have several pages; two kinds that share the group; users who  *)
(* fill and empty the group; a group beside it, on a page of its own.      *)
EXTENDS ADSync

CONSTANTS u1, u2, d1, h

MCConfigs == {
    <<"users", FALSE, {u1, u2}, {}>>,
    <<"all", FALSE, {u1, d1}, {u1, d1}>>,
    <<"users", TRUE, {u1}, {u1}>>,
    <<"devices", TRUE, {h}, {}>>}
=============================================================================
