---------------------------- MODULE MCMigrations ----------------------------
(***************************************************************************)
(* Migrations for TLC: deployments are treated alike.                      *)
(***************************************************************************)
EXTENDS Migrations, TLC

Symmetry == Permutations(Migrators)
=============================================================================
