--------------------------- MODULE ModuleCacheMC ----------------------------
(* Instances of ModuleCache for TLC. *)
EXTENDS ModuleCache, TLC

(* One key serialises in one way, two keys in either order. *)
MCOrders == [path |-> {"p"}, pathAndFollow |-> {"pf", "fp"}]

MCSymmetry == Permutations(Threads) \union Permutations(Hosts)
=============================================================================
