---------------------------- MODULE MCGroupGraph ----------------------------
(* Ids of which one begins with another, among groups and among users. *)
EXTENDS GroupGraph

MCGroups == {<<1>>, <<1, 1>>, <<2>>}
MCEntity == <<3>>
MCOther == <<3, 1>>
=============================================================================
