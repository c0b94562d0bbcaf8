---------------------------- MODULE CacheHistory ----------------------------
(***************************************************************************)
(* Which entry does the idempotency cache give up?  The cache keeps no     *)
(* timestamps; this module adds the history its replacement policy is      *)
(* about, and changes nothing the cache does:                              *)
(*   recency    the resident keys, the most recently used first, where a   *)
(*              use is a Put of the key or a Get that finds it;            *)
(*   replayed   the resident keys used again since they were first stored. *)
(***************************************************************************)
EXTENDS IdempotencyCache, Slices

VARIABLES recency, replayed

recencyVars == <<entries, order, recency, replayed>>

RecencyInit ==
    /\ CacheInit
    /\ recency = <<>>
    /\ replayed = {}

(* key has just been used: it is the most recent of the residents.         *)
Used(key) ==
    recency' = Cons(key, Keeping(recency, Resident' \ {key}))

Reuse(key) ==
    /\ \/ Hit(key)
       \/ \E value \in Responses : PutAgain(key, value)
    /\ Used(key)
    /\ replayed' = replayed \union {key}

FirstUse(key) ==
    /\ \E value \in Responses : PutFresh(key, value)
    /\ Used(key)
    /\ replayed' = replayed \intersect Resident'

RecencyNext == \E key \in Keys : Reuse(key) \/ FirstUse(key)

RecencySpec == RecencyInit /\ [][RecencyNext]_recencyVars

-----------------------------------------------------------------------------

Fresh == Resident \ replayed

EvictsReplayedByAge ==
    \A key \in Resident \ Resident' : key \in replayed => key = Last(recency)

(* A response that was replayed is given up only when it is, of all        *)
(* responses in the cache, the one that was used the longest ago.          *)
ReplayedGoByAge == [][EvictsReplayedByAge]_recencyVars

(* The next entry a full cache gives up is the least recently used one, as *)
(* idempotency.go:9 and docs/server-docs.md:63 say.                        *)
LeastRecentGoesNext == Full => Last(order) = Last(recency)

=============================================================================
