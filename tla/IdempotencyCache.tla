-------------------------- MODULE IdempotencyCache --------------------------
(***************************************************************************)
(* The server's idempotency cache, internal/cache/idempotency.go.  It maps *)
(* a key, made of a message identifier and a token tail, to the response   *)
(* the server already gave to that message.  A slice of keys, order,       *)
(* decides which entry makes room when the cache is full: the entry whose  *)
(* key stands last.                                                        *)
(*                                                                         *)
(* Every exported method holds the cache's mutex from entry to return, so  *)
(* each of them is one atomic action.                                      *)
(***************************************************************************)
EXTENDS Naturals, Sequences, SequencesExt

CONSTANTS
    Keys,       \* the keys Key can build
    Responses,  \* the responses a handler can store
    MaxSize     \* maxSize: the capacity given to NewIdempotencyCache

(* NewIdempotencyCache replaces a capacity that is not positive by 10000.  *)
ASSUME MaxSizeAssumption == MaxSize \in Nat \ {0}

VARIABLES
    entries,    \* resident key -> response
    order       \* the resident keys; the last one is the next to be evicted

cacheVars == <<entries, order>>

Resident == DOMAIN entries

-----------------------------------------------------------------------------

CacheInit ==
    /\ entries = [key \in {} |-> key]
    /\ order = <<>>

MoveToFrontKeepingOld(seq, key) == Cons(key, seq)

(* moveToFront takes the first occurrence out and puts the key in front.   *)
MoveToFront(seq, key) == Cons(key, RemoveFirst(seq, key))

(* What entries becomes when the keys in gone are deleted and key is set.  *)
Updated(gone, key, value) ==
    [k \in (Resident \ gone) \union {key} |->
        IF k = key THEN value ELSE entries[k]]

Full == Len(order) >= MaxSize

HitUnmoved(key) ==
    /\ key \in Resident
    /\ UNCHANGED cacheVars

(* Get, when the key is resident.  The caller answers with entries[key].   *)
Hit(key) ==
    /\ key \in Resident
    /\ order' = MoveToFront(order, key)
    /\ UNCHANGED entries

(* Put of a key that is not resident: when the cache is full the key that  *)
(* stands last in order goes; the new key takes the last place.            *)
PutFresh(key, value) ==
    /\ key \notin Resident
    /\ IF Full
         THEN /\ entries' = Updated({Last(order)}, key, value)
              /\ order' = Append(Front(order), key)
         ELSE /\ entries' = Updated({}, key, value)
              /\ order' = Append(order, key)

(* Put of a resident key: the value is replaced, the key moves to front.   *)
PutAgain(key, value) ==
    /\ key \in Resident
    /\ entries' = Updated({}, key, value)
    /\ order' = MoveToFront(order, key)

Put(key, value) == PutFresh(key, value) \/ PutAgain(key, value)

CacheNext ==
    \E key \in Keys :
        \/ Hit(key)
        \/ \E value \in Responses : Put(key, value)

CacheSpec == CacheInit /\ [][CacheNext]_cacheVars

-----------------------------------------------------------------------------

(* The state has the types of the Go struct's fields.                      *)
CacheTypeOK ==
    /\ Resident \subseteq Keys
    /\ entries \in [Resident -> Responses]
    /\ order \in Seq(Keys)

(* The two fields of IdempotencyCache stay in step although every method   *)
(* edits them separately: order names each resident key once and nothing   *)
(* else, and the capacity is never exceeded.  A key twice in order would   *)
(* make a later eviction delete an entry that was just replayed; a stale   *)
(* key would make an eviction free nothing.                                *)
OrderMatchesEntries ==
    /\ IsInjective(order)
    /\ ToSet(order) = Resident
    /\ Len(order) <= MaxSize

=============================================================================
