-------------------------------- MODULE Cache --------------------------------
(***************************************************************************)
(* CacheService: concurrent fetch and invalidateByTag over Redis.  Who     *)
(* calls them with which keys and tags is in CacheClients.  A fetch is a   *)
(* GET, a resolver that reads the database, a SET without expiry and one   *)
(* SADD per tag; a writer runs its database write and invalidateByTag      *)
(* (SMEMBERS, then DEL) in one Promise.all.  Every call is an action, and  *)
(* fetches and writers overlap in every way.                               *)
(*                                                                         *)
(* Documents are abstracted away: of a value that was read, only remains   *)
(* for each collection whether it is still what the database holds.        *)
(* Three history variables, which no action reads, say of the cached keys  *)
(* which ones an overlap may have hurt.                                    *)
(***************************************************************************)
EXTENDS Naturals, Sequences, Functions

CONSTANTS
    CacheKeys,      \* the keys of the cached methods, e.g. services list of a business
    Collections,    \* what they read: one business's documents of one kind
    Reads,          \* Reads[k]: the collections the resolver of k reads
    TagsOf,         \* TagsOf[k]: the tags of k, in the order they are added
    TagOf,          \* TagOf[c]: the tag the writers of c invalidate
    Fetchers, Writers,
    Faults,         \* the calls that may be rejected
    None            \* no value / nothing under way

(* Every cached method passes a tag. *)
ASSUME TagsAssumption ==
    \A k \in CacheKeys :
        /\ Reads[k] \subseteq Collections
        /\ Len(TagsOf[k]) \in Nat \ {0}
        /\ DOMAIN TagsOf[k] = 1..Len(TagsOf[k])

VARIABLES
    cached,     \* cached[k]: the value of key k, or None
    tagset,     \* tagset[t]: the keys in the set of tag t
    at,         \* at[f]: the call fetcher f awaits
    key,        \* key[f]: the key f fetches, or None
    got,        \* got[f]: what the resolver of f has read so far
    tagged,     \* tagged[f]: how many tags f has added
    writing,    \* writing[w]: the collection w writes, or None
    write,      \* write[w]: is its database write under way?
    drop,       \* drop[w]: the call of its invalidateByTag
    members,    \* members[w]: the keys it has read from the tag set
    overlapped, \* fetches that run beside a database write to what they read
    exposed,    \* cached keys whose last SET, or its SADDs, did so, and those that
                \* an invalidation did not delete because it was rejected
    lost        \* cached keys that were dropped from the set of a tag when it was
                \* deleted, or whose fetch was rejected at its SET or a SADD

fetching == <<at, key, got, tagged>>
writers == <<writing, write, drop, members>>
history == <<overlapped, exposed, lost>>
vars == <<cached, tagset, fetching, writers, history>>

Tags == (UNION {Range(TagsOf[k]) : k \in CacheKeys}) \cup {TagOf[c] : c \in Collections}

(* A part of a value is as the database has it, older than that, or absent. *)
Values == [Collections -> {"new", "old", "absent"}]

ASSUME NoneAssumption == None \notin CacheKeys /\ None \notin Collections /\ None \notin Values

Nothing == [c \in Collections |-> "absent"]

TypeOK ==
    /\ cached \in [CacheKeys -> Values \cup {None}]
    /\ tagset \in [Tags -> SUBSET CacheKeys]
    /\ at \in [Fetchers -> {"idle", "resolve", "set", "tag"}]
    /\ key \in [Fetchers -> CacheKeys \cup {None}]
    /\ got \in [Fetchers -> Values]
    /\ tagged \in [Fetchers -> Nat]
    /\ writing \in [Writers -> Collections \cup {None}]
    /\ write \in [Writers -> BOOLEAN]
    /\ drop \in [Writers -> {"none", "smembers", "del"}]
    /\ members \in [Writers -> SUBSET CacheKeys]
    /\ overlapped \subseteq Fetchers
    /\ exposed \subseteq CacheKeys
    /\ lost \subseteq CacheKeys

Init ==
    /\ cached = [k \in CacheKeys |-> None]
    /\ tagset = [t \in Tags |-> {}]
    /\ at = [f \in Fetchers |-> "idle"]
    /\ key = [f \in Fetchers |-> None]
    /\ got = [f \in Fetchers |-> Nothing]
    /\ tagged = [f \in Fetchers |-> 0]
    /\ writing = [w \in Writers |-> None]
    /\ write = [w \in Writers |-> FALSE]
    /\ drop = [w \in Writers |-> "none"]
    /\ members = [w \in Writers |-> {}]
    /\ overlapped = {}
    /\ exposed = {}
    /\ lost = {}

(* What becomes of the history of keys: that of a deleted key is over.     *)
Remember(exposedKeys, lostKeys) ==
    /\ exposed' = {k \in exposedKeys : cached'[k] # None}
    /\ lost' = {k \in lostKeys : cached'[k] # None}

-----------------------------------------------------------------------------
(* fetch *)

(* Mutant: the promise of a fetch does not settle. *)
ReturnNever(f) ==
    /\ at' = [at EXCEPT ![f] = "returning"]
    /\ UNCHANGED <<key, got, tagged, overlapped>>

Return(f) ==
    /\ at' = [at EXCEPT ![f] = "idle"]
    /\ key' = [key EXCEPT ![f] = None]
    /\ got' = [got EXCEPT ![f] = Nothing]
    /\ tagged' = [tagged EXCEPT ![f] = 0]
    /\ overlapped' = overlapped \ {f}

(* A GET that finds a value returns it and changes nothing. *)
GetMiss(f, k) ==
    /\ at[f] = "idle"
    /\ cached[k] = None
    /\ at' = [at EXCEPT ![f] = "resolve"]
    /\ key' = [key EXCEPT ![f] = k]
    /\ overlapped' = overlapped \cup {g \in {f} : \E w \in Writers : write[w] /\ writing[w] \in Reads[k]}
    /\ UNCHANGED <<cached, tagset, got, tagged, writers, exposed, lost>>

(* The queries of a resolver run in a Promise.all. *)
ResolverReads(f, c) ==
    /\ at[f] = "resolve"
    /\ c \in Reads[key[f]]
    /\ got[f][c] = "absent"
    /\ got' = [got EXCEPT ![f][c] = "new"]
    /\ at' = [at EXCEPT ![f] =
                IF \A d \in Reads[key[f]] \ {c} : got[f][d] # "absent" THEN "set" ELSE "resolve"]
    /\ UNCHANGED <<cached, tagset, key, tagged, writers, history>>

Set(f) ==
    /\ at[f] = "set"
    /\ cached' = [cached EXCEPT ![key[f]] = got[f]]
    /\ at' = [at EXCEPT ![f] = "tag"]
    /\ overlapped' = overlapped \ {f}
    /\ Remember(IF f \in overlapped THEN exposed \cup {key[f]} ELSE exposed \ {key[f]}, lost \ {key[f]})
    /\ UNCHANGED <<tagset, key, got, tagged, writers>>

Untagged(f) == {i \in DOMAIN TagsOf[key[f]] : i > tagged[f]}

(* Mutant: the last tag is not added. *)
AddCkToFirstTag(f) ==
    /\ at[f] = "tag"
    /\ tagset' = [tagset EXCEPT ![TagsOf[key[f]][1]] = @ \cup {key[f]}]
    /\ Return(f)
    /\ UNCHANGED <<cached, writers, exposed, lost>>

AddCkToTag(f) ==
    /\ at[f] = "tag"
    /\ tagset' = [tagset EXCEPT ![TagsOf[key[f]][tagged[f] + 1]] = @ \cup {key[f]}]
    /\ IF Untagged(f) = {tagged[f] + 1}
       THEN Return(f)
       ELSE tagged' = [tagged EXCEPT ![f] = @ + 1] /\ UNCHANGED <<at, key, got, overlapped>>
    /\ UNCHANGED <<cached, writers, exposed, lost>>

(* The resolver throws, or the call to Redis is rejected: fetch rejects.   *)
(* A rejected SET may have taken effect; a SADD that has is like one that  *)
(* was not rejected.                                                       *)
FetchRejects(f) ==
    /\ at[f] \in Faults
    /\ Return(f)
    /\ UNCHANGED <<tagset, writers>>
    /\ \/ at[f] # "tag" /\ UNCHANGED <<cached, exposed, lost>>
       \/ /\ at[f] \in {"set", "tag"}
          /\ cached' = IF at[f] = "set" THEN [cached EXCEPT ![key[f]] = got[f]] ELSE cached
          /\ Remember(exposed, lost \cup {key[f]})

-----------------------------------------------------------------------------
(* The writers: create, update and delete of the three modules *)

(* w has nothing under way when the write and the invalidation are over.   *)
After(w, stillWriting, dropping) ==
    /\ write' = [write EXCEPT ![w] = stillWriting]
    /\ drop' = [drop EXCEPT ![w] = dropping]
    /\ writing' = [writing EXCEPT ![w] =
                     IF ~stillWriting /\ dropping = "none" THEN None ELSE @]

Outdated(value, c) ==
    IF value[c] = "new" THEN [value EXCEPT ![c] = "old"] ELSE value

(* The fetches under way that have to do with a write to c. *)
Reading(c) == {f \in Fetchers : at[f] # "idle" /\ c \in Reads[key[f]]}

StartWrite(w, c) ==
    /\ writing[w] = None
    /\ writing' = [writing EXCEPT ![w] = c]
    /\ write' = [write EXCEPT ![w] = TRUE]
    /\ drop' = [drop EXCEPT ![w] = "smembers"]
    /\ overlapped' = overlapped \cup {f \in Reading(c) : at[f] # "tag"}
    /\ UNCHANGED <<cached, tagset, fetching, members>>
    /\ Remember(exposed \cup {key[f] : f \in {g \in Reading(c) : at[g] = "tag"}}, lost)

DbWrite(w) ==
    /\ write[w]
    /\ cached' = [k \in CacheKeys |-> IF cached[k] = None THEN None
                                      ELSE Outdated(cached[k], writing[w])]
    /\ got' = [f \in Fetchers |-> Outdated(got[f], writing[w])]
    /\ After(w, FALSE, drop[w])
    /\ UNCHANGED <<tagset, at, key, tagged, members, history>>

DbWriteRejects(w) ==
    /\ write[w]
    /\ "write" \in Faults
    /\ After(w, FALSE, drop[w])
    /\ UNCHANGED <<cached, tagset, fetching, members, history>>

SMembers(w) ==
    /\ drop[w] = "smembers"
    /\ members' = [members EXCEPT ![w] = tagset[TagOf[writing[w]]]]
    /\ After(w, write[w], IF tagset[TagOf[writing[w]]] = {} THEN "none" ELSE "del")
    /\ UNCHANGED <<cached, tagset, fetching, history>>

(* One DEL for the keys and the tag set, whatever was added in between. *)
Del(w) ==
    /\ drop[w] = "del"
    /\ cached' = [k \in CacheKeys |-> IF k \in members[w] THEN None ELSE cached[k]]
    /\ tagset' = [tagset EXCEPT ![TagOf[writing[w]]] = {}]
    /\ members' = [members EXCEPT ![w] = {}]
    /\ After(w, write[w], "none")
    /\ Remember(exposed, lost \cup (tagset[TagOf[writing[w]]] \ members[w]))
    /\ UNCHANGED <<fetching, overlapped>>

(* SMEMBERS or DEL is rejected, which is what DbWriteRejects is to the     *)
(* database write: a call that is rejected after it has taken effect is    *)
(* like one that was not.                                                  *)
InvalidationRejects(w) ==
    /\ drop[w] \in {"smembers", "del"} \cap Faults
    /\ members' = [members EXCEPT ![w] = {}]
    /\ After(w, write[w], "none")
    /\ UNCHANGED <<cached, tagset, fetching, overlapped>>
    /\ Remember(exposed \cup (IF drop[w] = "smembers" THEN tagset[TagOf[writing[w]]] ELSE members[w]), lost)

-----------------------------------------------------------------------------
Next ==
    \/ \E f \in Fetchers, k \in CacheKeys : GetMiss(f, k)
    \/ \E f \in Fetchers, c \in Collections : ResolverReads(f, c)
    \/ \E f \in Fetchers : Set(f)
    \/ \E f \in Fetchers : AddCkToTag(f)
    \/ \E f \in Fetchers : FetchRejects(f)
    \/ \E w \in Writers, c \in Collections : StartWrite(w, c)
    \/ \E w \in Writers : DbWrite(w)
    \/ \E w \in Writers : DbWriteRejects(w)
    \/ \E w \in Writers : SMembers(w)
    \/ \E w \in Writers : Del(w)
    \/ \E w \in Writers : InvalidationRejects(w)

Spec == Init /\ [][Next]_vars

-----------------------------------------------------------------------------
(* No call about c is under way. *)
QuietFor(c) == \A w \in Writers : writing[w] # c

(* A hit returns what a miss would: unless a write to it is under way, the *)
(* cached value of a collection is what the database holds.  Overlaps and  *)
(* rejections hurt no more keys than those that were set beside a database *)
(* write to what they hold or that a rejected invalidation should have     *)
(* deleted, and those that a tag has lost, and these only until the next   *)
(* fetch sets them.                                                        *)
HitEqualsMiss ==
    \A k \in CacheKeys \ (exposed \cup lost) : \A c \in Reads[k] :
        cached[k] # None /\ QuietFor(c) => cached[k][c] = "new"

(* The next write finds a cached key that nobody is fetching: it is in the *)
(* sets of all its tags, whatever fetches and deletions of these sets have *)
(* overlapped, unless it was added to one between SMEMBERS and DEL or its  *)
(* fetch was rejected at the SET or a SADD.                                *)
CachedIsRegistered ==
    \A k \in CacheKeys \ lost : cached[k] # None /\ (\A f \in Fetchers : key[f] # k)
        => \A i \in DOMAIN TagsOf[k] : k \in tagset[TagsOf[k][i]]
=============================================================================
