---------------------------- MODULE MCRegistryApi ----------------------------
(* Instance of RegistryApi for TLC. *)
EXTENDS RegistryApi, TLC

CONSTANTS c1

\* ann and bob belong to a tenant each, eve to none.
MCTenantOf == [s \in Subjects |-> CASE s = "ann" -> "acme"
                                    [] s = "bob" -> "beta"
                                    [] s = "eve" -> NoClaim]

MCLists == {<<c1>>}

\* A tree by the trees below its root, and a leaf.
LeafTree(v) == [p \in {<<>>} |-> v]
DictTree(f) ==
  [p \in {<<>>} \cup UNION {{<<InDict(k)>> \o q : q \in DOMAIN f[k]} : k \in DOMAIN f} |->
     IF p = <<>> THEN "dict" ELSE f[Head(p).key][Tail(p)]]
ListTree(t) ==
  [p \in {<<>>} \cup {<<InList(0)>> \o q : q \in DOMAIN t} |->
     IF p = <<>> THEN "list" ELSE t[Tail(p)]]

MCPlain == LeafTree("dict")

\* Trees of dicts and lists, three levels deep: each dict with one key, the
\* outermost with up to two.
LeafTrees == {LeafTree(v) : v \in Leafs}
Trees(values) ==
  {DictTree(f) : f \in UNION {[{k} -> values] : k \in Keys}} \cup {ListTree(v) : v \in values}
Shallow == LeafTrees \cup Trees(LeafTrees)
Deep    == LeafTrees \cup Trees(Shallow)

MCConfigs ==
  {DictTree(f) : f \in UNION {[{k} -> Deep] : k \in Keys}
                   \cup UNION {[{k, l} -> LeafTrees] : k, l \in Keys}} \cup {MCPlain}
\* The keys of public callers only differ.
ClientKeySymmetry == Permutations(ClientKeys)
=============================================================================
