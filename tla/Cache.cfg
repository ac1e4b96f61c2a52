SPECIFICATION Spec
CONSTANTS
    f1 = f1
    f2 = f2
    w1 = w1
    w2 = w2
    p1 = p1
    i1 = i1
    None = None
    Unset = Unset
    Businesses = {p1}
    Clients = {}
    Items = {i1}
    CacheKeys <- SomeKeys
    Collections <- SomeCollections
    Reads <- SomeReads
    TagsOf <- SomeTags
    TagOf <- SomeTag
    Fetchers = {f1, f2}
    Writers = {w1, w2}
    Faults = {"resolve", "set", "tag", "write", "smembers", "del"}
SYMMETRY Symmetry
ACTION_CONSTRAINT ThreeAtOnce
INVARIANTS TypeOK HitEqualsMiss CachedIsRegistered
