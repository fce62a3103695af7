----------------------------- MODULE MoleculeMC -----------------------------
(* Instances of Molecule for TLC. *)
EXTENDS Molecule

MCPlatforms == <<"db", "app">>
MCNameOrder == <<"app", "db", "localhost">>
=============================================================================
