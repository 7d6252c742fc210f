---------------------------- MODULE MCMigration ----------------------------
(***************************************************************************)
(* Migration for TLC: two accounts with old data under different names,    *)
(* the second with an entry that is not a dictionary.                      *)
(***************************************************************************)
EXTENDS Migration, TLC

CONSTANTS u1, u2, c1, c2, c3

MCOldKey == (u1 :> "ana") @@ (u2 :> "bea")
MCLegacy == ("ana" :> {c1, c2}) @@ ("bea" :> {c2, c3})
=============================================================================
