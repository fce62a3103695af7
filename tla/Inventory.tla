----------------------------- MODULE Inventory ------------------------------
(* Which hosts a play runs on: Inventory::matching_hosts and expand_group    *)
(* (ansiblers-core/src/inventory.rs).                                        *)
EXTENDS Naturals, SequencesExt

CONSTANTS HostOrder, \* every host name, in the order sort() puts them
          InvHosts,  \* keys of inventory.hosts
          Groups     \* Groups[g]: [hosts, children]; no group is its own descendant

HostNames == {HostOrder[i] : i \in DOMAIN HostOrder}

ASSUME InventoryAssumption ==
  /\ HostOrder \in Seq(HostNames)
  /\ \A i, j \in DOMAIN HostOrder : HostOrder[i] = HostOrder[j] => i = j
  /\ "localhost" \in HostNames
  /\ InvHosts \subseteq HostNames
  /\ \A g \in DOMAIN Groups : Groups[g].hosts \subseteq HostNames

(* sort() and dedup(): the list of S in which earlier names come first. *)
Place(h) == CHOOSE i \in DOMAIN HostOrder : HostOrder[i] = h
Sorted(S) ==
  {s \in SetToSeqs(S \intersect HostNames) :
     \A i, j \in DOMAIN s : i < j => Place(s[i]) < Place(s[j])}

(* A child that is no group is passed over.  A group that is a descendant of *)
(* itself recurses for ever, here as in the code.                            *)
Members[g \in DOMAIN Groups] ==
  Groups[g].hosts \union
    UNION {Members[c] : c \in Groups[g].children \intersect DOMAIN Groups}

(* The host lists a pattern may stand for: `all` takes the keys of a HashMap *)
(* in whatever order they come, and is localhost when there are none; a      *)
(* group hides a host of the same name.                                      *)
MatchingHosts(pattern) ==
  CASE pattern \in {"all", "*"} ->
         IF InvHosts = {} THEN {<<"localhost">>} ELSE SetToSeqs(InvHosts)
    [] pattern = "localhost" -> {<<"localhost">>}
    [] pattern \in DOMAIN Groups \ {"all", "*", "localhost"} -> Sorted(Members[pattern])
    [] pattern \in InvHosts \ (DOMAIN Groups \union {"localhost"}) -> {<<pattern>>}
    [] OTHER -> {<<>>}
=============================================================================
