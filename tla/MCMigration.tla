------------------------------ MODULE MCMigration ------------------------------
(***************************************************************************)
(* Instances of Migration.                                                 *)
(***************************************************************************)
EXTENDS Migration, FiniteSets, Naturals, TLC

\* Two backups of one record, or one backup of two.
Small ==
  \/ Cardinality({b \in Backups : dir[Directory(b)] # Absent}) < 2
  \/ \E id \in deleted : \A b \in Backups : durable[Copy(b, id)] = {Absent}

Symmetric == Permutations(IDs) \cup Permutations(Backups)
================================================================================
