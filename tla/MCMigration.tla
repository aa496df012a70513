---------------------------- MODULE MCMigration ----------------------------
(* Migration for TLC: interchangeable runs of the command.                  *)
EXTENDS Migration, TLC

Perms == Permutations(Migrators)
=============================================================================
