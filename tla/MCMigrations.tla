--------------------------- MODULE MCMigrations ----------------------------
(* The repository's three migrations: 001_init (1), 002_map_identity (2) and *)
(* 002_quest_progress (3), both of which alter tables of the first.          *)
EXTENDS Migrations, TLC

Files     == 1..3
FileNeeds == 1 :> {} @@ 2 :> {1} @@ 3 :> {1}
AllSteps  == {0, 1}
BeforeMaps == {1, 3}

Symmetry == Permutations(Jobs) \cup Permutations(Contents)
=============================================================================
