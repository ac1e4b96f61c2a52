------------------------------- MODULE MCCache -------------------------------
(* Cache with the keys and tags of its clients on a small instance: two    *)
(* services of one module that share an owner's tag and the module's, one  *)
(* key of each, which add these tags in different orders.                  *)
EXTENDS Cache, CacheClients, FiniteSets, TLC

CONSTANTS f1, f2, w1, w2, p1, i1

SomeKeys ==
    {k \in Keys : \/ k.service = "overrides" /\ k.method = "list"
                  \/ k.service = "schedules" /\ k.method = "getById"}

SomeCollections == UNION {Resolves(k) : k \in SomeKeys}
SomeReads == [k \in SomeKeys |-> Resolves(k)]
SomeTags == [k \in SomeKeys |-> FetchTags(k)]
SomeTag == [c \in SomeCollections |-> WriterTag(c)]

(* Bound: three calls of fetch and of writers are under way at a time.     *)
ThreeAtOnce ==
    Cardinality({f \in Fetchers : at'[f] # "idle"})
        + Cardinality({w \in Writers : writing'[w] # None}) <= 3

Symmetry == Permutations({f1, f2}) \cup Permutations({w1, w2})
=============================================================================
