------------------------- MODULE MCApiUserMigration -------------------------
(* Two credentials in two targets, with the same username; three stops or *)
(* crashes are enough to interrupt a migration, switch the store and      *)
(* migrate back.                                                          *)
EXTENDS ApiUserMigration

MCCreds == {<<"t1", "a">>, <<"t2", "a">>}
==============================================================================
