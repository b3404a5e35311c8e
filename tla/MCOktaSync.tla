----------------------------- MODULE MCOktaSync -----------------------------
(* OktaSync with pages of one entity: two pages of users, or one of        *)
(* devices. The kinds share no key of the store: both at a time show       *)
(* nothing new.                                                            *)
EXTENDS OktaSync
=============================================================================
