---------------------------- MODULE StoreProofs ----------------------------
(***************************************************************************)
(* What the stores of the server promise, each on its own.  The two fields *)
(* of the idempotency cache stay in step, and of the responses that were   *)
(* replayed the least recently used goes first.  The two fields of the     *)
(* token store agree on what is live, exactly while tails are distinct and *)
(* as an inclusion when they collide.  A message store's watch agrees with *)
(* its pull and never goes back, and pages and seconds take an inbox apart *)
(* without loss.                                                           *)
(***************************************************************************)
EXTENDS CacheHistory, TokenHistory, MessageStore, SequenceLemmas

-----------------------------------------------------------------------------
(* The loop that filters a slice.                                          *)

LEMMA KeepingRuns ==
  ASSUME NEW S, NEW seq \in Seq(S), NEW set
  PROVE  \E f : FilterBy(f, seq, set) /\ Keeping(seq, set) = f[Len(seq)]
<1> DEFINE f == CHOOSE f : FilterBy(f, seq, set)
<1>1. Keeping(seq, set) = f[Len(seq)]
  BY DEF Keeping, FilterBy
<1>2. FilterBy(f, seq, set)
  BY FilterRuns
<1> QED
  BY <1>1, <1>2

LEMMA KeepingKeeps ==
  ASSUME NEW S, NEW seq \in Seq(S), NEW set
  PROVE  /\ Keeping(seq, set) \in Seq(S)
         /\ Len(Keeping(seq, set)) <= Len(seq)
         /\ ToSet(Keeping(seq, set)) = ToSet(seq) \cap set
<1> DEFINE kept == Keeping(seq, set)
<1>1. PICK f : FilterBy(f, seq, set) /\ kept = f[Len(seq)]
  BY KeepingRuns
<1>2. kept \in Seq(S) /\ Len(kept) <= Len(seq)
  BY <1>1, FilterPicks, FilterShortens
<1>3. PICK e : PicksBy(e, kept, seq, set, Len(seq))
  BY <1>1, FilterPicks
<1> HIDE DEF kept
<1>4. DOMAIN seq = 1 .. Len(seq) /\ DOMAIN kept = 1 .. Len(kept)
  BY <1>2
<1>5. ASSUME NEW m \in ToSet(kept)
      PROVE  m \in ToSet(seq) \cap set
  <2>1. PICK k \in DOMAIN kept : kept[k] = m
    BY DEF ToSet
  <2>2. e[k] \in 1 .. Len(seq) /\ m = seq[e[k]] /\ m \in set
    BY <1>3, <1>4, <2>1 DEF PicksBy
  <2> QED
    BY <1>4, <2>2 DEF ToSet
<1>6. ASSUME NEW m \in ToSet(seq) \cap set
      PROVE  m \in ToSet(kept)
  <2>1. PICK i \in DOMAIN seq : seq[i] = m
    BY DEF ToSet
  <2>2. PICK k \in DOMAIN kept : e[k] = i
    BY <1>3, <1>4, <2>1 DEF PicksBy
  <2>3. kept[k] = m
    BY <1>3, <1>4, <2>1, <2>2 DEF PicksBy
  <2> QED
    BY <2>2, <2>3 DEF ToSet
<1>7. ToSet(kept) = ToSet(seq) \cap set
  BY <1>5, <1>6
<1> QED
  BY <1>2, <1>7 DEF kept

LEMMA KeepingBefore ==
  ASSUME NEW S, NEW seq \in Seq(S), NEW set
  PROVE  /\ Keeping(seq, set) \in Seq(S)
         /\ ToSet(Keeping(seq, set)) = ToSet(seq) \cap set
         /\ IsInjective(seq) => IsInjective(Keeping(seq, set))
         /\ \A a, b : Before(Keeping(seq, set), a, b)
                        <=> Before(seq, a, b) /\ a \in set /\ b \in set
<1> DEFINE kept == Keeping(seq, set)
<1>1. kept \in Seq(S)
  BY KeepingKeeps
<1>2. PICK e : PicksBy(e, kept, seq, set, Len(seq))
  BY KeepingRuns, FilterPicks
<1> HIDE DEF kept
<1>3. /\ ToSet(kept) = ToSet(seq) \cap set
      /\ IsInjective(seq) => IsInjective(kept)
      /\ \A a, b : Before(kept, a, b) <=> Before(seq, a, b) /\ a \in set /\ b \in set
  BY <1>1, <1>2, PicksBefore
<1> QED
  BY <1>1, <1>3 DEF kept

-----------------------------------------------------------------------------
(* The idempotency cache.                                                  *)

CacheInv == CacheTypeOK /\ OrderMatchesEntries

(* Updated(gone, key, value) deletes the keys in gone and sets key.        *)
LEMMA UpdatedProperties ==
  ASSUME CacheTypeOK, NEW gone, NEW key \in Keys, NEW value \in Responses
  PROVE  /\ DOMAIN Updated(gone, key, value) = (Resident \ gone) \union {key}
         /\ Updated(gone, key, value)
              \in [(Resident \ gone) \union {key} -> Responses]
         /\ (Resident \ gone) \union {key} \subseteq Keys
  BY DEF CacheTypeOK, Updated, Resident

(* moveToFront rearranges a duplicate-free slice and nothing else.         *)
LEMMA MoveToFrontRearranges ==
  ASSUME NEW s \in Seq(Keys), IsInjective(s), NEW key \in ToSet(s)
  PROVE  /\ MoveToFront(s, key) \in Seq(Keys)
         /\ Len(MoveToFront(s, key)) = Len(s)
         /\ ToSet(MoveToFront(s, key)) = ToSet(s)
         /\ IsInjective(MoveToFront(s, key))
<1> DEFINE r == RemoveFirst(s, key)
<1>1. key \in Keys /\ Len(s) \in Nat
  BY DEF ToSet
<1>2. /\ r \in Seq(Keys)
      /\ Len(r) = Len(s) - 1
      /\ IsInjective(r)
      /\ ToSet(r) = ToSet(s) \ {key}
  BY RemoveFirstDrops
<1>3. /\ Cons(key, r) \in Seq(Keys)
      /\ Len(Cons(key, r)) = Len(r) + 1
      /\ ToSet(Cons(key, r)) = ToSet(r) \union {key}
      /\ IsInjective(Cons(key, r))
  <2> HIDE DEF r
  <2>1. key \notin ToSet(r)
    BY <1>2
  <2> QED
    <3>1. r \in Seq(Keys) /\ key \in Keys
      BY <1>1, <1>2
    <3>2. /\ Cons(key, r) \in Seq(Keys)
          /\ Len(Cons(key, r)) = Len(r) + 1
          /\ ToSet(Cons(key, r)) = ToSet(r) \union {key}
      BY <3>1, ConsAddsFirst
    <3>3. IsInjective(r) /\ key \notin ToSet(r) => IsInjective(Cons(key, r))
      BY <3>1, ConsAddsFirst
    <3> QED
      BY <1>1, <1>2, <2>1, <3>2, <3>3
<1> QED
  BY <1>1, <1>2, <1>3 DEF MoveToFront

LEMMA CacheInvInit == CacheInit => CacheInv
<1> SUFFICES ASSUME CacheInit PROVE CacheInv
  OBVIOUS
<1>1. Resident = {} /\ order = <<>>
  BY DEF CacheInit, Resident
<1>2. CacheTypeOK
  BY <1>1 DEF CacheInit, CacheTypeOK, Resident
<1>3. OrderMatchesEntries
  <2>1. DOMAIN order = {} /\ Len(order) = 0
    BY <1>1
  <2> QED
    BY <1>1, <2>1, MaxSizeAssumption DEF OrderMatchesEntries, IsInjective, ToSet
<1> QED
  BY <1>2, <1>3 DEF CacheInv

LEMMA HitKeepsInv ==
  ASSUME CacheInv, NEW key \in Keys, Hit(key)
  PROVE  CacheInv'
<1>1. key \in ToSet(order) /\ order \in Seq(Keys) /\ IsInjective(order)
  BY DEF CacheInv, CacheTypeOK, OrderMatchesEntries, Hit
<1>2. /\ order' \in Seq(Keys)
      /\ Len(order') = Len(order)
      /\ ToSet(order') = ToSet(order)
      /\ IsInjective(order')
  BY <1>1, MoveToFrontRearranges DEF Hit
<1>3. Resident' = Resident /\ entries' = entries
  BY DEF Hit, Resident
<1> QED
  BY <1>2, <1>3 DEF CacheInv, CacheTypeOK, OrderMatchesEntries

LEMMA PutAgainKeepsInv ==
  ASSUME CacheInv, NEW key \in Keys, NEW value \in Responses, PutAgain(key, value)
  PROVE  CacheInv'
<1>1. key \in ToSet(order) /\ order \in Seq(Keys) /\ IsInjective(order)
  BY DEF CacheInv, CacheTypeOK, OrderMatchesEntries, PutAgain
<1>2. /\ order' \in Seq(Keys)
      /\ Len(order') = Len(order)
      /\ ToSet(order') = ToSet(order)
      /\ IsInjective(order')
  BY <1>1, MoveToFrontRearranges DEF PutAgain
<1>3. Resident' = Resident /\ entries' \in [Resident' -> Responses]
  <2> DEFINE u == Updated({}, key, value)
  <2>1. DOMAIN u = (Resident \ {}) \union {key} /\ u \in [(Resident \ {}) \union {key} -> Responses]
    BY UpdatedProperties DEF CacheInv
  <2>2. key \in Resident /\ entries' = u
    BY DEF PutAgain
  <2> QED
    BY <2>1, <2>2 DEF Resident
<1> QED
  BY <1>2, <1>3 DEF CacheInv, CacheTypeOK, OrderMatchesEntries

LEMMA PutFreshKeepsInv ==
  ASSUME CacheInv, NEW key \in Keys, NEW value \in Responses, PutFresh(key, value)
  PROVE  CacheInv'
<1>1. /\ order \in Seq(Keys)
      /\ Len(order) \in Nat
      /\ IsInjective(order)
      /\ ToSet(order) = Resident
      /\ Len(order) <= MaxSize
      /\ key \notin Resident
      /\ MaxSize \in Nat \ {0}
  BY MaxSizeAssumption DEF CacheInv, CacheTypeOK, OrderMatchesEntries, PutFresh
<1>2. CASE Full
  <2> DEFINE f == Front(order)
  <2>1. /\ entries' = Updated({Last(order)}, key, value)
        /\ order' = Append(f, key)
    BY <1>2 DEF PutFresh
  <2>2. /\ f \in Seq(Keys)
        /\ Len(f) = Len(order) - 1
        /\ IsInjective(f)
        /\ ToSet(f) = Resident \ {Last(order)}
    BY <1>1, <1>2, FrontDropsLast DEF Full
  <2>3. /\ order' \in Seq(Keys)
        /\ Len(order') = Len(order)
        /\ ToSet(order') = (Resident \ {Last(order)}) \union {key}
        /\ IsInjective(order')
    <3> HIDE DEF f
    <3>1. key \notin ToSet(f)
      BY <1>1, <2>2
    <3>2. /\ Append(f, key) \in Seq(Keys)
          /\ Len(Append(f, key)) = Len(f) + 1
          /\ ToSet(Append(f, key)) = ToSet(f) \union {key}
          /\ IsInjective(Append(f, key))
      BY <2>2, <3>1, AppendAddsLast
    <3> QED
      BY <1>1, <2>1, <2>2, <3>2
  <2>4. /\ Resident' = (Resident \ {Last(order)}) \union {key}
        /\ Resident' \subseteq Keys
        /\ entries' \in [Resident' -> Responses]
    <3> DEFINE u == Updated({Last(order)}, key, value)
               keep == (Resident \ {Last(order)}) \union {key}
    <3>1. DOMAIN u = keep /\ u \in [keep -> Responses] /\ keep \subseteq Keys
      BY UpdatedProperties DEF CacheInv
    <3> HIDE DEF u, keep
    <3>2. Resident' = keep
      BY <2>1, <3>1 DEF Resident, u
    <3> QED
      BY <2>1, <3>1, <3>2 DEF u, keep
  <2> QED
    BY <1>1, <2>3, <2>4 DEF CacheInv, CacheTypeOK, OrderMatchesEntries
<1>3. CASE ~Full
  <2>1. /\ entries' = Updated({}, key, value)
        /\ order' = Append(order, key)
    BY <1>3 DEF PutFresh
  <2>2. /\ order' \in Seq(Keys)
        /\ Len(order') = Len(order) + 1
        /\ ToSet(order') = Resident \union {key}
        /\ IsInjective(order')
    BY <1>1, <2>1, AppendAddsLast
  <2>3. /\ Resident' = Resident \union {key}
        /\ Resident' \subseteq Keys
        /\ entries' \in [Resident' -> Responses]
    <3> DEFINE u == Updated({}, key, value)
               keep == (Resident \ {}) \union {key}
    <3>1. DOMAIN u = keep /\ u \in [keep -> Responses] /\ keep \subseteq Keys
      BY UpdatedProperties DEF CacheInv
    <3>2. keep = Resident \union {key}
      OBVIOUS
    <3> HIDE DEF u, keep
    <3>3. Resident' = keep
      BY <2>1, <3>1 DEF Resident, u
    <3> QED
      BY <2>1, <3>1, <3>2, <3>3 DEF u
  <2> QED
    BY <1>1, <1>3, <2>2, <2>3 DEF CacheInv, CacheTypeOK, OrderMatchesEntries, Full
<1> QED
  BY <1>2, <1>3

LEMMA CacheInvStep == CacheInv /\ [CacheNext]_cacheVars => CacheInv'
<1> SUFFICES ASSUME CacheInv, [CacheNext]_cacheVars
             PROVE  CacheInv'
  OBVIOUS
<1>1. ASSUME NEW key \in Keys, Hit(key)
      PROVE  CacheInv'
  BY <1>1, HitKeepsInv
<1>2. ASSUME NEW key \in Keys, NEW value \in Responses, Put(key, value)
      PROVE  CacheInv'
  BY <1>2, PutAgainKeepsInv, PutFreshKeepsInv DEF Put
<1>3. CASE UNCHANGED cacheVars
  BY <1>3 DEF cacheVars, CacheInv, CacheTypeOK, OrderMatchesEntries, Resident
<1> QED
  BY <1>1, <1>2, <1>3 DEF CacheNext

(* order and entries describe the same duplicate-free set of keys, within  *)
(* the capacity, in every state of the cache.                              *)
THEOREM CacheConsistent == CacheSpec => [](CacheTypeOK /\ OrderMatchesEntries)
<1>1. CacheInit => CacheInv
  BY CacheInvInit
<1>2. CacheInv /\ [CacheNext]_cacheVars => CacheInv'
  BY CacheInvStep
<1> QED
  BY <1>1, <1>2, PTL DEF CacheSpec, CacheInv

-----------------------------------------------------------------------------
(* What the cache's order remembers of use.                                *)

(* The replayed keys stand before all the others in order.                 *)
ReplayedFirst ==
    \A i, j \in 1 .. Len(order) :
        i < j /\ order[j] \in replayed => order[i] \in replayed

HistoryInv == CacheInv /\ replayed \subseteq Resident /\ ReplayedFirst

LEMMA ReuseKeepsInv ==
  ASSUME HistoryInv, NEW key \in Keys, Reuse(key)
  PROVE  HistoryInv' /\ Resident' = Resident
<1>1. Hit(key) \/ \E value \in Responses : PutAgain(key, value)
  BY DEF Reuse
<1>2. CacheInv'
  BY <1>1, HitKeepsInv, PutAgainKeepsInv DEF HistoryInv
<1>3. /\ CacheInv
      /\ replayed' = replayed \union {key}
      /\ order' = MoveToFront(order, key)
      /\ key \in Resident
  BY <1>1 DEF HistoryInv, Reuse, Hit, PutAgain
<1>4. /\ order \in Seq(Keys) /\ Len(order) \in Nat /\ IsInjective(order)
      /\ order' \in Seq(Keys) /\ Len(order') \in Nat
      /\ ToSet(order) = Resident
      /\ ToSet(order') = Resident'
  BY <1>2, <1>3 DEF CacheInv, CacheTypeOK, OrderMatchesEntries
<1>5. Resident' = Resident
  BY <1>3, <1>4, MoveToFrontRearranges
<1> DEFINE r == RemoveFirst(order, key)
<1>6. /\ r \in Seq(Keys)
      /\ Len(r) \in Nat
      /\ ToSet(r) = ToSet(order) \ {key}
      /\ \A i, j \in 1 .. Len(r) : i < j =>
            \E a, b \in 1 .. Len(order) : a < b /\ r[i] = order[a] /\ r[j] = order[b]
  BY <1>3, <1>4, RemoveFirstDrops, RemoveFirstKeepsOrder
<1> HIDE DEF r
<1>7. /\ order' = Cons(key, r)
      /\ Len(order') = Len(r) + 1
      /\ order'[1] = key
      /\ \A i \in 2 .. Len(r) + 1 : order'[i] = r[i - 1]
  <2>1. order' = Cons(key, r)
    BY <1>3 DEF MoveToFront, r
  <2>2. key \in Keys /\ r \in Seq(Keys)
    BY <1>6
  <2>3. /\ Len(Cons(key, r)) = Len(r) + 1
        /\ Cons(key, r)[1] = key
        /\ \A i \in 2 .. Len(r) + 1 : Cons(key, r)[i] = r[i - 1]
    BY <2>2, ConsAddsFirst
  <2> QED
    BY <2>1, <2>3
<1>8. ReplayedFirst'
  <2>1. SUFFICES ASSUME NEW i \in 1 .. Len(order'), NEW j \in 1 .. Len(order'),
                        i < j, order'[j] \in replayed'
                 PROVE  order'[i] \in replayed'
    BY DEF ReplayedFirst
  <2>2. CASE i = 1
    BY <1>3, <1>7, <2>2
  <2>3. CASE i # 1
    <3>1. /\ i \in 2 .. Len(r) + 1 /\ i - 1 \in 1 .. Len(r)
          /\ j \in 2 .. Len(r) + 1 /\ j - 1 \in 1 .. Len(r)
          /\ i - 1 < j - 1
      BY <1>6, <1>7, <2>1, <2>3
    <3>2. order'[i] = r[i - 1] /\ order'[j] = r[j - 1]
      BY <1>7, <3>1
    <3>3. order'[j] \in replayed
      <4>1. r[j - 1] \in ToSet(r)
        BY <1>6, <3>1 DEF ToSet
      <4> QED
        BY <1>3, <1>6, <2>1, <3>2, <4>1
    <3>4. PICK a, b \in 1 .. Len(order) :
             a < b /\ r[i - 1] = order[a] /\ r[j - 1] = order[b]
      BY <1>6, <3>1
    <3> QED
      BY <1>3, <3>2, <3>3, <3>4 DEF HistoryInv, ReplayedFirst
  <2> QED
    BY <2>2, <2>3
<1> QED
  BY <1>2, <1>3, <1>5, <1>8 DEF HistoryInv

LEMMA FirstUseKeepsInv ==
  ASSUME HistoryInv, NEW key \in Keys, FirstUse(key)
  PROVE  /\ HistoryInv'
         /\ Resident \ Resident' \subseteq IF Full THEN {Last(order)} ELSE {}
<1>1. PICK value \in Responses : PutFresh(key, value)
  BY DEF FirstUse
<1>2. CacheInv'
  BY <1>1, PutFreshKeepsInv DEF HistoryInv
<1>3. /\ CacheInv
      /\ replayed' = replayed \intersect Resident'
      /\ key \notin replayed
  BY <1>1 DEF HistoryInv, FirstUse, PutFresh
<1>4. /\ order \in Seq(Keys) /\ Len(order) \in Nat
      /\ order' \in Seq(Keys) /\ Len(order') \in Nat
      /\ ToSet(order') = Resident'
      /\ Full => Len(order) > 0
  BY <1>2, <1>3, MaxSizeAssumption DEF CacheInv, CacheTypeOK, OrderMatchesEntries, Full
<1> DEFINE kept == IF Full THEN Front(order) ELSE order
           gone == IF Full THEN {Last(order)} ELSE {}
<1>5. /\ kept \in Seq(Keys)
      /\ Len(kept) \in Nat
      /\ Len(kept) <= Len(order)
      /\ \A i \in 1 .. Len(kept) : kept[i] = order[i]
  <2>1. CASE Full
    <3>1. \A i \in 1 .. Len(order) - 1 : order[i] \in Keys
      BY <1>4
    <3>2. /\ Front(order) \in Seq(Keys)
          /\ Len(Front(order)) = IF 1 <= Len(order) - 1 THEN (Len(order) - 1) - 1 + 1 ELSE 0
          /\ \A i \in 1 .. (Len(order) - 1) - 1 + 1 : Front(order)[i] = order[1 + i - 1]
      BY <1>4, <3>1, SubSeqProperties DEF Front
    <3> QED
      BY <1>4, <2>1, <3>2
  <2>2. CASE ~Full
    BY <1>4, <2>2
  <2> QED
    BY <2>1, <2>2
<1>6. order' = Append(kept, key) /\ entries' = Updated(gone, key, value)
  BY <1>1 DEF PutFresh
<1> HIDE DEF kept, gone
<1>7. Resident \ Resident' \subseteq gone
  <2>1. DOMAIN Updated(gone, key, value) = (Resident \ gone) \union {key}
    BY UpdatedProperties DEF HistoryInv, CacheInv
  <2>2. Resident' = (Resident \ gone) \union {key}
    BY <1>6, <2>1 DEF Resident
  <2> QED
    BY <2>2
<1>8. ReplayedFirst'
  <2>1. SUFFICES ASSUME NEW i \in 1 .. Len(order'), NEW j \in 1 .. Len(order'),
                        i < j, order'[j] \in replayed'
                 PROVE  order'[i] \in replayed'
    BY DEF ReplayedFirst
  <2>2. /\ Len(order') = Len(kept) + 1
        /\ order'[Len(kept) + 1] = key
        /\ \A k \in 1 .. Len(kept) : order'[k] = kept[k]
    BY <1>5, <1>6
  <2>3. j # Len(kept) + 1
    BY <1>3, <2>1, <2>2
  <2>4. i \in 1 .. Len(kept) /\ j \in 1 .. Len(kept)
    BY <1>5, <2>1, <2>2, <2>3
  <2>5. /\ i \in 1 .. Len(order) /\ j \in 1 .. Len(order)
        /\ order'[i] = order[i] /\ order'[j] = order[j]
    BY <1>4, <1>5, <2>2, <2>4
  <2>6. order[i] \in replayed
    BY <1>3, <2>1, <2>5 DEF HistoryInv, ReplayedFirst
  <2>7. order'[i] \in Resident'
    BY <1>4, <2>1 DEF ToSet
  <2> QED
    BY <1>3, <2>5, <2>6, <2>7
<1> QED
  BY <1>2, <1>3, <1>7, <1>8 DEF HistoryInv, gone

LEMMA HistoryInvInit == RecencyInit => HistoryInv
<1> SUFFICES ASSUME RecencyInit PROVE HistoryInv
  OBVIOUS
<1>1. CacheInv
  BY CacheInvInit DEF RecencyInit
<1>2. replayed = {} /\ order = <<>>
  BY DEF RecencyInit, CacheInit
<1> QED
  BY <1>1, <1>2 DEF HistoryInv, ReplayedFirst

LEMMA HistoryInvStep == HistoryInv /\ [RecencyNext]_recencyVars => HistoryInv'
<1> SUFFICES ASSUME HistoryInv, [RecencyNext]_recencyVars
             PROVE  HistoryInv'
  OBVIOUS
<1>1. ASSUME NEW key \in Keys, Reuse(key)
      PROVE  HistoryInv'
  BY <1>1, ReuseKeepsInv
<1>2. ASSUME NEW key \in Keys, FirstUse(key)
      PROVE  HistoryInv'
  BY <1>2, FirstUseKeepsInv
<1>3. CASE UNCHANGED recencyVars
  BY <1>3 DEF recencyVars, HistoryInv, ReplayedFirst, CacheInv, CacheTypeOK,
              OrderMatchesEntries, Resident
<1> QED
  BY <1>1, <1>2, <1>3 DEF RecencyNext

-----------------------------------------------------------------------------
(* The layout of order.                                                    *)

(* Which of two keys stands before the other: replayed keys by their last  *)
(* use, keys that were stored once against it, the former before the       *)
(* latter.  (Least recently used first would be by the last use alone.)    *)
Ahead(a, b) ==
    \/ a \in replayed /\ b \in Fresh
    \/ a \in replayed /\ b \in replayed /\ Before(recency, a, b)
    \/ a \in Fresh /\ b \in Fresh /\ Before(recency, b, a)

LayoutInv ==
    /\ HistoryInv
    /\ recency \in Seq(Keys)
    /\ IsInjective(recency)
    /\ ToSet(recency) = Resident
    /\ \A a, b : Before(order, a, b) <=> Ahead(a, b)

LEMMA NothingBeforeInEmpty == \A a, b : ~Before(<<>>, a, b)
  BY DEF Before

LEMMA LayoutInvInit == RecencyInit => LayoutInv
<1> SUFFICES ASSUME RecencyInit PROVE LayoutInv
  OBVIOUS
<1>1. HistoryInv
  BY HistoryInvInit
<1>2. recency = <<>> /\ order = <<>> /\ replayed = {} /\ Resident = {}
  BY DEF RecencyInit, CacheInit, Resident
<1>3. recency \in Seq(Keys) /\ DOMAIN recency = {}
  BY <1>2
<1>4. IsInjective(recency) /\ ToSet(recency) = Resident
  BY <1>2, <1>3 DEF IsInjective, ToSet
<1> QED
  BY <1>1, <1>2, <1>3, <1>4, NothingBeforeInEmpty DEF LayoutInv, Ahead, Fresh

(* The used key is the most recent one of those that stay.                 *)
LEMMA UsedProperties ==
  ASSUME LayoutInv, NEW key \in Keys, Used(key), key \in Resident',
         Resident' \ {key} \subseteq Resident
  PROVE  /\ recency' \in Seq(Keys)
         /\ IsInjective(recency')
         /\ ToSet(recency') = Resident'
         /\ \A a, b : Before(recency', a, b) <=>
                        \/ a = key /\ b \in Resident' \ {key}
                        \/ /\ a \in Resident' \ {key} /\ b \in Resident' \ {key}
                           /\ Before(recency, a, b)
<1> DEFINE stay == Resident' \ {key}
           rest == Keeping(recency, stay)
<1>1. recency' = Cons(key, rest)
  BY DEF Used
<1>2. /\ rest \in Seq(Keys)
      /\ ToSet(rest) = ToSet(recency) \cap stay
      /\ IsInjective(rest)
      /\ \A a, b : Before(rest, a, b) <=> Before(recency, a, b) /\ a \in stay /\ b \in stay
  BY KeepingBefore DEF LayoutInv
<1>3. ToSet(rest) = stay
  BY <1>2 DEF LayoutInv
<1> HIDE DEF rest
<1>4. /\ Cons(key, rest) \in Seq(Keys)
      /\ ToSet(Cons(key, rest)) = ToSet(rest) \union {key}
      /\ IsInjective(Cons(key, rest))
  <2>1. rest \in Seq(Keys) /\ IsInjective(rest) /\ key \notin ToSet(rest)
    BY <1>2, <1>3
  <2>2. Cons(key, rest) \in Seq(Keys) /\ ToSet(Cons(key, rest)) = ToSet(rest) \union {key}
    BY <2>1, ConsAddsFirst
  <2>3. IsInjective(Cons(key, rest))
    BY <2>1, ConsAddsFirst
  <2> QED
    BY <2>2, <2>3
<1>5. \A a, b : Before(Cons(key, rest), a, b)
                  <=> (a = key /\ b \in ToSet(rest)) \/ Before(rest, a, b)
  BY <1>2, ConsBefore
<1> QED
  BY <1>1, <1>2, <1>3, <1>4, <1>5

LEMMA ReuseKeepsLayout ==
  ASSUME LayoutInv, NEW key \in Keys, Reuse(key)
  PROVE  LayoutInv'
<1>1. HistoryInv' /\ Resident' = Resident
  BY ReuseKeepsInv DEF LayoutInv
<1>2. /\ order' = MoveToFront(order, key) /\ key \in Resident
      /\ replayed' = replayed \union {key} /\ Used(key)
  BY DEF Reuse, Hit, PutAgain
<1>3. /\ order \in Seq(Keys) /\ IsInjective(order) /\ ToSet(order) = Resident
      /\ replayed \subseteq Resident
  BY DEF LayoutInv, HistoryInv, CacheInv, CacheTypeOK, OrderMatchesEntries
<1> DEFINE r == RemoveFirst(order, key)
<1>4. r \in Seq(Keys) /\ ToSet(r) = Resident \ {key}
  BY <1>2, <1>3, RemoveFirstDrops
<1>5. \A a, b : Before(r, a, b) <=> Before(order, a, b) /\ a # key /\ b # key
  BY <1>2, <1>3, RemoveFirstBefore
<1>6. order' = Cons(key, r)
  BY <1>2 DEF MoveToFront
<1> HIDE DEF r
<1>7. \A a, b : Before(order', a, b)
                  <=> \/ a = key /\ b \in Resident \ {key}
                      \/ Before(order, a, b) /\ a # key /\ b # key
  <2>1. \A a, b : Before(Cons(key, r), a, b)
                    <=> (a = key /\ b \in ToSet(r)) \/ Before(r, a, b)
    BY <1>4, ConsBefore
  <2> QED
    BY <1>4, <1>5, <1>6, <2>1
<1>8. /\ recency' \in Seq(Keys)
      /\ IsInjective(recency')
      /\ ToSet(recency') = Resident'
      /\ \A a, b : Before(recency', a, b) <=>
                     \/ a = key /\ b \in Resident \ {key}
                     \/ /\ a \in Resident \ {key} /\ b \in Resident \ {key}
                        /\ Before(recency, a, b)
  BY <1>1, <1>2, UsedProperties
<1>9. Fresh' = Fresh \ {key} /\ Fresh = Resident \ replayed
  BY <1>1, <1>2 DEF Fresh
<1>10. ASSUME NEW a, NEW b
       PROVE  Before(order', a, b) <=> Ahead(a, b)'
  <2>1. Before(order, a, b) <=> Ahead(a, b)
    BY DEF LayoutInv
  <2>2. CASE a = key
    BY <1>2, <1>3, <1>7, <1>8, <1>9, <2>2 DEF Ahead
  <2>3. CASE b = key
    BY <1>2, <1>3, <1>7, <1>8, <1>9, <2>3 DEF Ahead
  <2>4. CASE a # key /\ b # key
    BY <1>2, <1>3, <1>7, <1>8, <1>9, <2>1, <2>4 DEF Ahead
  <2> QED
    BY <2>2, <2>3, <2>4
<1> QED
  BY <1>1, <1>8, <1>10 DEF LayoutInv

LEMMA FirstUseKeepsLayout ==
  ASSUME LayoutInv, NEW key \in Keys, FirstUse(key)
  PROVE  LayoutInv'
<1>1. HistoryInv'
  BY FirstUseKeepsInv DEF LayoutInv
<1>2. PICK value \in Responses : PutFresh(key, value)
  BY DEF FirstUse
<1>3. key \notin Resident /\ Used(key) /\ replayed' = replayed \intersect Resident'
  BY <1>2 DEF FirstUse, PutFresh
<1>4. /\ order \in Seq(Keys) /\ IsInjective(order) /\ ToSet(order) = Resident
      /\ replayed \subseteq Resident /\ CacheInv
  BY DEF LayoutInv, HistoryInv, CacheInv, CacheTypeOK, OrderMatchesEntries
<1> DEFINE kept == IF Full THEN Front(order) ELSE order
           gone == IF Full THEN {Last(order)} ELSE {}
<1>5. /\ kept \in Seq(Keys) /\ ToSet(kept) = Resident \ gone
      /\ \A a, b : Before(kept, a, b)
                     <=> Before(order, a, b) /\ a \notin gone /\ b \notin gone
  <2>1. CASE Full
    <3>1. order # <<>>
      BY <1>4, <2>1, MaxSizeAssumption DEF Full
    <3>2. Front(order) \in Seq(Keys) /\ ToSet(Front(order)) = Resident \ {Last(order)}
      BY <1>4, <3>1, FrontDropsLast
    <3>3. \A a, b : Before(Front(order), a, b)
                      <=> Before(order, a, b) /\ a # Last(order) /\ b # Last(order)
      BY <1>4, <3>1, FrontBefore
    <3> QED
      BY <2>1, <3>2, <3>3
  <2>2. CASE ~Full
    BY <1>4, <2>2
  <2> QED
    BY <2>1, <2>2
<1>6. order' = Append(kept, key) /\ entries' = Updated(gone, key, value)
  BY <1>2 DEF PutFresh
<1> HIDE DEF kept, gone
<1>7. Resident' = (Resident \ gone) \union {key}
  <2>1. DOMAIN Updated(gone, key, value) = (Resident \ gone) \union {key}
    BY <1>4, UpdatedProperties DEF CacheInv
  <2> QED
    BY <1>6, <2>1 DEF Resident
<1>8. \A a, b : Before(order', a, b)
                  <=> \/ b = key /\ a \in Resident \ gone
                      \/ Before(order, a, b) /\ a \notin gone /\ b \notin gone
  <2>1. \A a, b : Before(Append(kept, key), a, b)
                    <=> (b = key /\ a \in ToSet(kept)) \/ Before(kept, a, b)
    BY <1>5, AppendBefore
  <2> QED
    BY <1>5, <1>6, <2>1
<1>9. /\ recency' \in Seq(Keys)
      /\ IsInjective(recency')
      /\ ToSet(recency') = Resident'
      /\ \A a, b : Before(recency', a, b) <=>
                     \/ a = key /\ b \in Resident \ gone
                     \/ /\ a \in Resident \ gone /\ b \in Resident \ gone
                        /\ Before(recency, a, b)
  <2>1. Resident' \ {key} = Resident \ gone
    BY <1>3, <1>7
  <2>2. key \in Resident' /\ Resident' \ {key} \subseteq Resident
    BY <1>7, <2>1
  <2> QED
    BY <1>3, <2>1, <2>2, UsedProperties
<1>10. /\ Fresh' = (Fresh \ gone) \union {key} /\ replayed' = replayed \ gone
       /\ Fresh = Resident \ replayed
  BY <1>3, <1>4, <1>7 DEF Fresh
<1>11. ASSUME NEW a, NEW b
       PROVE  Before(order', a, b) <=> Ahead(a, b)'
  <2>1. Before(order, a, b) <=> Ahead(a, b)
    BY DEF LayoutInv
  <2>2. CASE a = key
    BY <1>3, <1>4, <1>8, <1>9, <1>10, <2>1, <2>2 DEF Ahead
  <2>3. CASE b = key
    BY <1>3, <1>4, <1>8, <1>9, <1>10, <2>1, <2>3 DEF Ahead
  <2>4. CASE a # key /\ b # key
    BY <1>3, <1>4, <1>8, <1>9, <1>10, <2>1, <2>4 DEF Ahead
  <2> QED
    BY <2>2, <2>3, <2>4
<1> QED
  BY <1>1, <1>9, <1>11 DEF LayoutInv

LEMMA LayoutInvStep == LayoutInv /\ [RecencyNext]_recencyVars => LayoutInv'
<1> SUFFICES ASSUME LayoutInv, [RecencyNext]_recencyVars
             PROVE  LayoutInv'
  OBVIOUS
<1>1. ASSUME NEW key \in Keys, Reuse(key)
      PROVE  LayoutInv'
  BY <1>1, ReuseKeepsLayout
<1>2. ASSUME NEW key \in Keys, FirstUse(key)
      PROVE  LayoutInv'
  BY <1>2, FirstUseKeepsLayout
<1>3. CASE UNCHANGED recencyVars
  <2>1. HistoryInv'
    BY <1>3, HistoryInvStep DEF LayoutInv
  <2> QED
    BY <1>3, <2>1 DEF recencyVars, LayoutInv, Ahead, Fresh, Resident
<1> QED
  BY <1>1, <1>2, <1>3 DEF RecencyNext

LEMMA StepEvictsByAge ==
  LayoutInv /\ [RecencyNext]_recencyVars => [EvictsReplayedByAge]_recencyVars
<1> SUFFICES ASSUME LayoutInv, RecencyNext
             PROVE  EvictsReplayedByAge
  OBVIOUS
<1>1. HistoryInv
  BY DEF LayoutInv
<1>2. ASSUME NEW key \in Keys, Reuse(key)
      PROVE  EvictsReplayedByAge
  BY <1>1, <1>2, ReuseKeepsInv DEF EvictsReplayedByAge
<1>3. ASSUME NEW key \in Keys, FirstUse(key)
      PROVE  EvictsReplayedByAge
  <2> SUFFICES ASSUME NEW gone \in Resident \ Resident', gone \in replayed
               PROVE  gone = Last(recency)
    BY DEF EvictsReplayedByAge
  <2>1. Full /\ gone = Last(order)
    BY <1>1, <1>3, FirstUseKeepsInv
  <2>2. /\ order \in Seq(Keys) /\ Len(order) \in Nat \ {0} /\ IsInjective(order)
        /\ ToSet(order) = Resident
    BY <1>1, <2>1, MaxSizeAssumption
       DEF HistoryInv, CacheInv, CacheTypeOK, OrderMatchesEntries, Full
  <2>3. Resident \subseteq replayed
    BY <1>1, <2>1, <2>2 DEF HistoryInv, ReplayedFirst, Last, ToSet
  <2>4. PICK i \in DOMAIN recency : recency[i] = gone
    BY DEF LayoutInv, ToSet
  <2>5. recency \in Seq(Keys) /\ i \in 1 .. Len(recency) /\ Len(recency) \in Nat
    BY <2>4 DEF LayoutInv
  <2> DEFINE oldest == recency[Len(recency)]
  <2>6. oldest \in Resident /\ oldest = Last(recency)
    BY <2>5 DEF LayoutInv, ToSet, Last
  <2>7. CASE i = Len(recency)
    BY <2>4, <2>6, <2>7
  <2>8. CASE i # Len(recency)
    <3>1. Before(recency, gone, oldest)
      BY <2>4, <2>5, <2>8 DEF Before
    <3>2. Before(order, gone, oldest)
      BY <2>3, <2>6, <3>1 DEF LayoutInv, Ahead
    <3>3. \A k \in 1 .. Len(order) : order[k] = gone => k = Len(order)
      BY <2>1, <2>2 DEF IsInjective, Last
    <3> QED
      BY <2>2, <3>2, <3>3 DEF Before
  <2> QED
    BY <2>7, <2>8
<1> QED
  BY <1>2, <1>3 DEF RecencyNext

(* For every capacity: of the responses that were replayed, an eviction    *)
(* takes the least recently used one, and none that was used after         *)
(* another that stays (idempotency.go's Put).                              *)
THEOREM ReplayedEvictedByAge == RecencySpec => ReplayedGoByAge
BY LayoutInvInit, LayoutInvStep, StepEvictsByAge, PTL DEF RecencySpec, ReplayedGoByAge

-----------------------------------------------------------------------------
(* The token store.                                                        *)

TokenInv == TokenTypeOK /\ LiveTokensListed

Inv == TokenInv /\ ListExact

LEMMA InvInit == ClashInit => Inv
<1> SUFFICES ASSUME ClashInit PROVE Inv
  OBVIOUS
<1>1. Live = {} /\ tails = <<>> /\ DOMAIN tails = {}
  BY DEF ClashInit, TokenInit, Live
<1>2. TokenTypeOK
  BY <1>1 DEF ClashInit, TokenInit, TokenTypeOK, Live
<1>3. LiveTokensListed /\ ListExact
  BY <1>1 DEF LiveTokensListed, ListExact, ToSet, IsInjective
<1> QED
  BY <1>2, <1>3 DEF Inv, TokenInv

(* The map and the slice that Generate leaves.                             *)
LEMMA GenerateResult ==
  ASSUME TokenTypeOK, NEW user \in Users, NEW tail \in Tails, Generate(user, tail)
  PROVE  /\ TokenTypeOK'
         /\ Live' = Live \union {tail}
         /\ ToSet(tails') = ToSet(tails) \union {tail}
         /\ IsInjective(tails) /\ tail \notin ToSet(tails) => IsInjective(tails')
<1>1. Live' = Live \union {tail} /\ tokens' \in [Live' -> Users] /\ Live' \subseteq Tails
  BY DEF Generate, TokenTypeOK, Live
<1>2. tails \in Seq(Tails) /\ tails' = Append(tails, tail)
  BY DEF Generate, TokenTypeOK
<1>3. /\ tails' \in Seq(Tails)
      /\ ToSet(tails') = ToSet(tails) \union {tail}
      /\ IsInjective(tails) /\ tail \notin ToSet(tails) => IsInjective(tails')
  BY <1>2, AppendAddsLast
<1> QED
  BY <1>1, <1>3 DEF TokenTypeOK

(* The map and the slice that Revoke leaves.                               *)
LEMMA RevokeResult ==
  ASSUME TokenInv, NEW tail \in Tails, Revoke(tail)
  PROVE  /\ TokenTypeOK'
         /\ Live' = Live \ {tail}
         /\ ToSet(tails) \ {tail} \subseteq ToSet(tails')
         /\ IsInjective(tails) => /\ IsInjective(tails')
                                  /\ ToSet(tails') = ToSet(tails) \ {tail}
<1>1. Live' = Live \ {tail} /\ tokens' \in [Live' -> Users] /\ Live' \subseteq Tails
  BY DEF Revoke, TokenInv, TokenTypeOK, Live
<1>2. /\ tails \in Seq(Tails)
      /\ tail \in ToSet(tails)
      /\ tails' = RemoveFirst(tails, tail)
  BY DEF Revoke, TokenInv, TokenTypeOK, LiveTokensListed
<1>3. /\ tails' \in Seq(Tails)
      /\ ToSet(tails) \ {tail} \subseteq ToSet(tails')
      /\ IsInjective(tails) => /\ IsInjective(tails')
                               /\ ToSet(tails') = ToSet(tails) \ {tail}
  BY <1>2, RemoveFirstDrops
<1> QED
  BY <1>1, <1>3 DEF TokenTypeOK

LEMMA InvStep == Inv /\ [ClashNext]_clashVars => Inv'
<1> SUFFICES ASSUME Inv, [ClashNext]_clashVars
             PROVE  Inv'
  OBVIOUS
<1>1. ASSUME NEW tail \in Tails, Issue(tail)
      PROVE  Inv'
  <2>1. PICK user \in Users : Generate(user, tail)
    BY <1>1 DEF Issue
  <2>2. TokenInv'
    BY <2>1, GenerateResult DEF Inv, TokenInv, LiveTokensListed
  <2>3. clashed' = (clashed \/ tail \in ToSet(tails))
    BY <1>1 DEF Issue
  <2>4. ListExact'
    BY <2>1, <2>3, GenerateResult DEF Inv, TokenInv, ListExact
  <2> QED
    BY <2>2, <2>4 DEF Inv
<1>2. ASSUME NEW tail \in Tails, Revoke(tail), UNCHANGED clashed
      PROVE  Inv'
  BY <1>2, RevokeResult DEF Inv, TokenInv, LiveTokensListed, ListExact
<1>3. CASE UNCHANGED clashVars
  BY <1>3 DEF clashVars, Inv, TokenInv, TokenTypeOK, LiveTokensListed, ListExact, Live
<1> QED
  BY <1>1, <1>2, <1>3 DEF ClashNext

LEMMA InvAlways == ClashSpec => []Inv
<1>1. ClashInit => Inv
  BY InvInit
<1>2. Inv /\ [ClashNext]_clashVars => Inv'
  BY InvStep
<1> QED
  BY <1>1, <1>2, PTL DEF ClashSpec

(* Whatever tails are drawn, a live token is one List shows.               *)
THEOREM LiveListed == ClashSpec => [](TokenTypeOK /\ LiveTokensListed)
<1>1. Inv => TokenTypeOK /\ LiveTokensListed
  BY DEF Inv, TokenInv
<1> QED
  BY <1>1, InvAlways, PTL

(* While drawn tails are distinct, List is exact.                          *)
THEOREM ListIsExact == ClashSpec => []ListExact
<1>1. Inv => ListExact
  BY DEF Inv
<1> QED
  BY <1>1, InvAlways, PTL

-----------------------------------------------------------------------------
(* The message store.                                                      *)

(* The messages that are stored have their place in their route's slice,   *)
(* were stamped in the past, and are no more than MaxStored.               *)
Places == UNION {{r} \X DOMAIN messages[r] : r \in Routes}

MessageInv ==
    /\ MessageTypeOK
    /\ \A r \in Routes : \A i \in DOMAIN messages[r] :
          messages[r][i].stamp \in Second .. clock
    /\ \A r \in Routes : Len(messages[r]) <= MaxStored
    /\ IsFiniteSet(Places)

LEMMA MessageInvInit == MessageInit => MessageInv
<1> SUFFICES ASSUME MessageInit
             PROVE  MessageInv
  OBVIOUS
<1>1. messages \in [Routes -> Seq(Message)] /\ \A r \in Routes : messages[r] = <<>>
  BY DEF MessageInit
<1>2. clock \in 0 .. MaxClock
  BY MessageAssumption DEF MessageInit
<1>3. \A r \in Routes : DOMAIN messages[r] = {} /\ Len(messages[r]) = 0
  BY <1>1
<1>4. Places = {}
  BY <1>3 DEF Places
<1> QED
  BY <1>1, <1>2, <1>3, <1>4, MessageAssumption, FS_EmptySet DEF MessageInv, MessageTypeOK

(* A route's slice is no longer than there are places in all.              *)
LEMMA SliceFits ==
  ASSUME MessageInv, NEW r \in Routes
  PROVE  Len(messages[r]) <= Stored /\ Stored \in Nat
<1> DEFINE n == Len(messages[r])
           part == {r} \X DOMAIN messages[r]
           place == [i \in 1 .. n |-> <<r, i>>]
<1>1. n \in Nat /\ DOMAIN messages[r] = 1 .. n
  BY DEF MessageInv, MessageTypeOK
<1>2. part \subseteq Places /\ IsFiniteSet(Places)
  BY DEF Places, MessageInv
<1>3. IsFiniteSet(part) /\ Cardinality(part) <= Cardinality(Places)
  BY <1>2, FS_Subset
<1>4. place \in Injection(1 .. n, part)
  BY <1>1 DEF Injection, IsInjective
<1>5. Cardinality(1 .. n) <= Cardinality(part)
  BY <1>3, <1>4, FS_Injection
<1>6. Cardinality(1 .. n) = IF 1 > n THEN 0 ELSE n - 1 + 1
  BY <1>1, FS_Interval, 1 \in Int, n \in Int
<1>7. Stored = Cardinality(Places) /\ Stored \in Nat /\ Cardinality(part) \in Nat
  BY <1>2, <1>3, FS_CardinalityType DEF Stored, Places
<1> HIDE DEF n, part, place
<1>8. n <= Stored
  BY <1>1, <1>3, <1>5, <1>6, <1>7
<1> QED
  BY <1>7, <1>8 DEF n

LEMMA StoreKeepsInv ==
  ASSUME MessageInv, SomeStore
  PROVE  MessageInv'
<1>1. PICK route \in Routes, id \in Ids, sender \in Senders, stamp \in Second .. clock :
        /\ Stored < MaxStored
        /\ Store(route, [id |-> id, sender |-> sender, stamp |-> stamp])
  BY DEF SomeStore
<1> DEFINE m == [id |-> id, sender |-> sender, stamp |-> stamp]
           seq == messages[route]
<1>2. clock \in Nat /\ clock \in 0 .. MaxClock /\ Second \in Nat /\ MaxStored \in Nat
  BY MessageAssumption DEF MessageInv, MessageTypeOK
<1>3. m \in Message /\ m.stamp = stamp /\ stamp \in Second .. clock
  BY <1>2 DEF Message
<1>4. clock' = clock /\ messages' = [messages EXCEPT ![route] = Append(seq, m)]
  BY <1>1 DEF Store
<1>5. messages \in [Routes -> Seq(Message)] /\ seq \in Seq(Message)
  BY DEF MessageInv, MessageTypeOK
<1> HIDE DEF m
<1>6. /\ Append(seq, m) \in Seq(Message)
      /\ Len(Append(seq, m)) = Len(seq) + 1
      /\ Append(seq, m)[Len(seq) + 1] = m
      /\ \A i \in 1 .. Len(seq) : Append(seq, m)[i] = seq[i]
  BY <1>3, <1>5, AppendProperties
<1>7. /\ messages' \in [Routes -> Seq(Message)]
      /\ messages'[route] = Append(seq, m)
      /\ \A r \in Routes : r # route => messages'[r] = messages[r]
  BY <1>4, <1>5, <1>6
<1>8. Len(seq) <= Stored /\ Stored \in Nat /\ Len(seq) \in Nat
  BY <1>5, SliceFits
<1>9. ASSUME NEW r \in Routes
      PROVE  Len(messages'[r]) <= MaxStored
  BY <1>1, <1>2, <1>6, <1>7, <1>8 DEF MessageInv
<1>10. ASSUME NEW r \in Routes, NEW i \in DOMAIN messages'[r]
       PROVE  messages'[r][i].stamp \in Second .. clock
  <2>1. CASE r # route
    BY <1>7, <2>1 DEF MessageInv
  <2>2. CASE r = route
    <3>1. i \in 1 .. Len(seq) + 1 /\ messages'[r][i] = Append(seq, m)[i]
      BY <1>6, <1>7, <2>2
    <3>2. CASE i = Len(seq) + 1
      BY <1>3, <1>6, <3>1, <3>2
    <3>3. CASE i # Len(seq) + 1
      <4>1. i \in 1 .. Len(seq) /\ i \in DOMAIN messages[route]
        BY <1>5, <1>8, <3>1, <3>3
      <4> QED
        BY <1>6, <3>1, <4>1 DEF MessageInv
    <3> QED
      BY <3>2, <3>3
  <2> QED
    BY <2>1, <2>2
<1>11. IsFiniteSet(Places')
  <2>1. DOMAIN messages'[route] = DOMAIN seq \union {Len(seq) + 1}
    BY <1>5, <1>6, <1>7, <1>8
  <2>2. Places' = Places \union {<<route, Len(seq) + 1>>}
    BY <1>7, <2>1, SMTT(30) DEF Places
  <2> QED
    BY <2>2, FS_AddElement DEF MessageInv
<1> QED
  BY <1>2, <1>4, <1>7, <1>9, <1>10, <1>11 DEF MessageInv, MessageTypeOK

LEMMA CleanupKeepsInv ==
  ASSUME MessageInv, Cleanup
  PROVE  MessageInv'
<1>1. messages \in [Routes -> Seq(Message)] /\ clock \in 0 .. MaxClock
  BY DEF MessageInv, MessageTypeOK
<1>2. clock' = clock /\ messages' = [r \in Routes |-> Keeping(messages[r], Unexpired)]
  BY DEF Cleanup
<1>3. ASSUME NEW r \in Routes
      PROVE  /\ messages'[r] \in Seq(Message)
             /\ Len(messages'[r]) <= Len(messages[r])
             /\ ToSet(messages'[r]) \subseteq ToSet(messages[r])
  <2>1. messages'[r] = Keeping(messages[r], Unexpired) /\ messages[r] \in Seq(Message)
    BY <1>1, <1>2
  <2> QED
    BY <2>1, KeepingKeeps
<1>4. messages' \in [Routes -> Seq(Message)]
  BY <1>2, <1>3
<1>5. ASSUME NEW r \in Routes, NEW i \in DOMAIN messages'[r]
      PROVE  messages'[r][i].stamp \in Second .. clock
  <2>1. messages'[r][i] \in ToSet(messages[r])
    BY <1>3 DEF ToSet
  <2> QED
    BY <2>1 DEF ToSet, MessageInv
<1>6. ASSUME NEW r \in Routes
      PROVE  Len(messages'[r]) <= MaxStored /\ DOMAIN messages'[r] \subseteq DOMAIN messages[r]
  <2>1. /\ Len(messages'[r]) \in Nat /\ Len(messages[r]) \in Nat /\ MaxStored \in Nat
        /\ Len(messages[r]) <= MaxStored
        /\ DOMAIN messages'[r] = 1 .. Len(messages'[r])
        /\ DOMAIN messages[r] = 1 .. Len(messages[r])
    BY <1>1, <1>3, MessageAssumption DEF MessageInv
  <2> QED
    BY <1>3, <2>1
<1>7. IsFiniteSet(Places')
  <2>1. Places' \subseteq Places
    BY <1>6 DEF Places
  <2> QED
    BY <2>1, FS_Subset DEF MessageInv
<1> QED
  BY <1>1, <1>2, <1>4, <1>5, <1>6, <1>7 DEF MessageInv, MessageTypeOK

LEMMA MessageInvStep == MessageInv /\ [MessageNext]_messageVars => MessageInv'
<1> SUFFICES ASSUME MessageInv, [MessageNext]_messageVars
             PROVE  MessageInv'
  OBVIOUS
<1>1. CASE SomeStore
  BY <1>1, StoreKeepsInv
<1>2. CASE Cleanup
  BY <1>2, CleanupKeepsInv
<1>3. CASE clock < MaxClock /\ Tick
  <2>1. messages' = messages /\ clock' = clock + 1 /\ clock' \in 0 .. MaxClock
    BY <1>3, MessageAssumption DEF Tick, MessageInv, MessageTypeOK
  <2>2. \A t \in Second .. clock : t \in Second .. clock'
    BY <2>1, MessageAssumption DEF MessageInv, MessageTypeOK
  <2> QED
    BY <2>1, <2>2 DEF MessageInv, MessageTypeOK, Places
<1>4. CASE UNCHANGED messageVars
  BY <1>4 DEF messageVars, MessageInv, MessageTypeOK, Places
<1> QED
  BY <1>1, <1>2, <1>3, <1>4 DEF MessageNext

LEMMA MessageInvAlways == MessageSpec => []MessageInv
<1>1. MessageInit => MessageInv
  BY MessageInvInit
<1>2. MessageInv /\ [MessageNext]_messageVars => MessageInv'
  BY MessageInvStep
<1> QED
  BY <1>1, <1>2, PTL DEF MessageSpec

(* The state keeps its types: what Cleanup leaves of a slice is a slice of *)
(* messages.                                                               *)
THEOREM MessageTypes == MessageSpec => []MessageTypeOK
<1>1. MessageInv => MessageTypeOK
  BY DEF MessageInv
<1> QED
  BY <1>1, MessageInvAlways, PTL

(* What watch reports never goes back.  Each slice has a newest message,   *)
(* and NewestStamp is its time.                                            *)
Stamps(route) == {-1} \union {m.stamp : m \in ToSet(messages[route])}

LEMMA NewestIsMax ==
  ASSUME NEW T \in SUBSET Int, NEW b \in Int, T # {}, \A x \in T : x <= b
  PROVE  Max(T) \in T /\ \A y \in T : y <= Max(T)
<1>1. \E x \in T : \A y \in T : x >= y
  <2>1. PICK x \in T : \A y \in T : y <= x
    BY GreatestUpTo
  <2> QED
    BY <2>1
<1>2. Max(T) = CHOOSE x \in T : \A y \in T : x >= y
  BY DEF Max
<1>3. Max(T) \in T /\ \A y \in T : Max(T) >= y
  BY <1>1, <1>2, Zenon
<1> QED
  BY <1>3

LEMMA StampsBounded ==
  ASSUME NEW c \in Nat, NEW slice \in Seq(Message),
         \A i \in DOMAIN slice : slice[i].stamp \in Second .. c
  PROVE  LET T == {-1} \union {m.stamp : m \in ToSet(slice)}
         IN  T \in SUBSET Int /\ T # {} /\ \A x \in T : x <= c
<1>1. Second \in Nat
  BY MessageAssumption
<1>2. \A m \in ToSet(slice) : m.stamp \in Second .. c
  BY DEF ToSet
<1> QED
  BY <1>1, <1>2

LEMMA NewestNeverGoesBack ==
  ASSUME MessageInv, [MessageNext]_messageVars, NEW r \in Routes, messages'[r] # <<>>
  PROVE  NewestStamp(r)' >= NewestStamp(r)
<1> DEFINE T == Stamps(r)
           U == Stamps(r)'
<1>1. MessageInv'
  BY MessageInvStep
<1>2. T \in SUBSET Int /\ T # {} /\ \A x \in T : x <= clock
  <2>1. clock \in Nat /\ messages[r] \in Seq(Message)
        /\ \A i \in DOMAIN messages[r] : messages[r][i].stamp \in Second .. clock
    BY DEF MessageInv, MessageTypeOK
  <2> QED
    BY <2>1, StampsBounded DEF Stamps
<1>3. U \in SUBSET Int /\ U # {} /\ \A x \in U : x <= clock'
  <2>1. clock' \in Nat /\ messages'[r] \in Seq(Message)
        /\ \A i \in DOMAIN messages'[r] : messages'[r][i].stamp \in Second .. clock'
    BY <1>1 DEF MessageInv, MessageTypeOK
  <2> QED
    BY <2>1, StampsBounded DEF Stamps
<1>4. NewestStamp(r) = Max(T) /\ NewestStamp(r)' = Max(U)
  BY DEF NewestStamp, Stamps
<1>5. clock \in Int /\ clock' \in Int
  BY <1>1 DEF MessageInv, MessageTypeOK
<1>6. Max(T) \in T /\ \A y \in T : y <= Max(T)
  <2> HIDE DEF T
  <2> QED
    BY <1>2, <1>5, NewestIsMax
<1>7. Max(U) \in U /\ \A y \in U : y <= Max(U)
  <2> HIDE DEF U
  <2> QED
    BY <1>3, <1>5, NewestIsMax
<1>8. messages[r] \in Seq(Message) /\ messages'[r] \in Seq(Message)
  BY <1>1 DEF MessageInv, MessageTypeOK
<1>9. SUFFICES Max(T) \in U \/ Max(T) <= Max(U)
  BY <1>2, <1>3, <1>4, <1>6, <1>7
<1> HIDE DEF T, U
<1>10. CASE SomeStore
  <2>1. PICK route \in Routes : \E m : messages' = [messages EXCEPT ![route] = Append(@, m)]
    BY <1>10 DEF SomeStore, Store
  <2>2. ToSet(messages[r]) \subseteq ToSet(messages'[r])
    <3>1. CASE route = r
      <4>1. PICK m : messages'[r] = Append(messages[r], m)
        BY <2>1, <3>1, <1>1 DEF MessageInv, MessageTypeOK
      <4>2. \A i \in DOMAIN messages[r] : /\ i \in DOMAIN messages'[r]
                                          /\ messages'[r][i] = messages[r][i]
        BY <1>8, <4>1
      <4> QED
        BY <4>2 DEF ToSet
    <3>2. CASE route # r
      BY <2>1, <3>2 DEF MessageInv, MessageTypeOK
    <3> QED
      BY <3>1, <3>2
  <2>3. T \subseteq U
    BY <2>2 DEF T, U, Stamps
  <2> QED
    BY <1>6, <2>3
<1>11. CASE Cleanup
  <2>1. messages'[r] = Keeping(messages[r], Unexpired)
    BY <1>11 DEF Cleanup
  <2>2. ToSet(messages'[r]) = ToSet(messages[r]) \cap Unexpired
    BY <1>8, <2>1, KeepingKeeps
  <2>3. PICK young \in ToSet(messages[r]) : young \in Unexpired
    <3>1. 1 \in DOMAIN messages'[r]
      BY <1>8
    <3> QED
      BY <2>2, <3>1 DEF ToSet
  <2>4. young.stamp + Retention > clock /\ young.stamp \in T
    BY <2>3 DEF Unexpired, T, Stamps
  <2>5. CASE Max(T) = -1
    <3>1. -1 \in U
      BY DEF U, Stamps
    <3> QED
      BY <2>5, <3>1
  <2>6. CASE Max(T) # -1
    <3>1. PICK m \in ToSet(messages[r]) : m.stamp = Max(T)
      BY <1>6, <2>6 DEF T, Stamps
    <3>2. m \in Message
      BY <1>8 DEF ToSet
    <3>3. m.stamp >= young.stamp
      BY <1>2, <1>6, <2>4, <3>1
    <3>4. m \in Unexpired
      <4>1. m.stamp \in Int /\ young.stamp \in Int /\ Retention \in Int
        <5>1. Max(T) \in Int /\ young.stamp \in Int
          BY <1>2, <1>6, <2>4
        <5> QED
          BY <3>1, <5>1, MessageAssumption
      <4>2. m.stamp + Retention > clock
        BY <1>5, <2>4, <3>3, <4>1
      <4> QED
        BY <3>2, <4>2 DEF Unexpired
    <3>5. m \in ToSet(messages'[r])
      BY <2>2, <3>1, <3>4
    <3> QED
      BY <3>1, <3>5 DEF U, Stamps
  <2> QED
    BY <2>5, <2>6
<1>12. CASE (clock < MaxClock /\ Tick) \/ UNCHANGED messageVars
  <2>1. messages' = messages
    BY <1>12 DEF Tick, messageVars
  <2>2. T = U
    BY <2>1 DEF T, U, Stamps
  <2> QED
    BY <1>6, <2>2
<1> QED
  BY <1>10, <1>11, <1>12 DEF MessageNext

(* Cleanup takes an inbox's newest message only with all the others, for   *)
(* every retention and every order of storing.                             *)
THEOREM WatchMovesOn == MessageSpec => WatchNeverGoesBack
<1>1. MessageInv /\ [MessageNext]_messageVars
        => [\A route \in Routes :
              messages'[route] # <<>> => NewestStamp(route)' >= NewestStamp(route)]_messageVars
  BY NewestNeverGoesBack
<1> QED
  BY <1>1, MessageInvAlways, PTL DEF MessageSpec, WatchNeverGoesBack

-----------------------------------------------------------------------------
(* Pages.                                                                  *)

(* A page has the messages behind the offset, up to the limit.             *)
LEMMA PageCuts ==
  ASSUME NEW S, NEW s \in Seq(S), NEW limit \in Nat \ {0}, NEW o \in Nat
  PROVE  LET page == Page(s, limit, o)
         IN  /\ page \in Seq(S)
             /\ Len(page) = IF o >= Len(s) THEN 0
                            ELSE IF limit < Len(s) - o THEN limit ELSE Len(s) - o
             /\ \A i \in 1 .. Len(page) : page[i] = s[o + i]
<1> DEFINE n == Len(s)
           rest == SubSeq(s, o + 1, n)
<1>1. n \in Nat
  OBVIOUS
<1>2. CASE o >= n
  BY <1>1, <1>2 DEF Page
<1>3. CASE o < n
  <2>1. /\ rest \in Seq(S) /\ Len(rest) = n - o
        /\ \A i \in 1 .. n - o : rest[i] = s[o + i]
    BY <1>1, <1>3
  <2>2. Page(s, limit, o) = IF limit > 0 /\ limit < Len(rest)
                            THEN SubSeq(rest, 1, limit) ELSE rest
    BY <1>1, <1>3 DEF Page
  <2> HIDE DEF rest
  <2>3. CASE limit < n - o
    <3>1. Page(s, limit, o) = SubSeq(rest, 1, limit)
      BY <2>1, <2>2, <2>3
    <3>2. /\ SubSeq(rest, 1, limit) \in Seq(S)
          /\ Len(SubSeq(rest, 1, limit)) = limit
          /\ \A i \in 1 .. limit : SubSeq(rest, 1, limit)[i] = rest[i]
      BY <1>1, <2>1, <2>3
    <3>3. \A i \in 1 .. limit : i \in 1 .. n - o
      BY <1>1, <2>3
    <3> QED
      BY <1>1, <1>3, <2>1, <2>3, <3>1, <3>2, <3>3
  <2>4. CASE ~(limit < n - o)
    BY <1>1, <1>3, <2>1, <2>2, <2>4
  <2> QED
    BY <2>3, <2>4
<1> QED
  BY <1>1, <1>2, <1>3

(* The first k pages have the first k * limit messages, or all there are.  *)
LEMMA PagesJoin ==
  ASSUME NEW S, NEW s \in Seq(S), NEW limit \in Nat \ {0},
         NEW n \in Nat \ {0}, Len(s) <= n
  PROVE  FlattenSeq([k \in 1 .. n |-> Page(s, limit, (k - 1) * limit)]) = s
<1> DEFINE total == Len(s)
           end == [k \in 0 .. n |-> k * limit]
           pages == [k \in 1 .. n |-> Page(s, limit, (k - 1) * limit)]
<1>1. /\ total \in Nat /\ end[0] = 0 /\ \A k \in 0 .. n : end[k] \in Nat
      /\ \A k \in 0 .. n - 1 : end[k + 1] = end[k] + limit
      /\ \A k \in 1 .. n : pages[k] = Page(s, limit, end[k - 1])
  OBVIOUS
<1>2. DOMAIN pages = 1 .. n
  OBVIOUS
<1> HIDE DEF end, pages
<1>3. ASSUME NEW k \in 1 .. n
      PROVE  /\ pages[k] \in Seq(S)
             /\ Len(pages[k]) = IF end[k - 1] >= total THEN 0
                                ELSE IF limit < total - end[k - 1] THEN limit
                                ELSE total - end[k - 1]
             /\ \A i \in 1 .. Len(pages[k]) : pages[k][i] = s[end[k - 1] + i]
  <2> DEFINE o == end[k - 1]
             page == Page(s, limit, o)
  <2>1. o \in Nat /\ pages[k] = page
    BY <1>1
  <2> HIDE DEF o
  <2>2. /\ page \in Seq(S)
        /\ Len(page) = IF o >= Len(s) THEN 0
                       ELSE IF limit < Len(s) - o THEN limit ELSE Len(s) - o
        /\ \A i \in 1 .. Len(page) : page[i] = s[o + i]
    BY <2>1, PageCuts
  <2> HIDE DEF page
  <2> QED
    BY <2>1, <2>2 DEF o
<1>4. pages \in Seq(Seq(S)) /\ Len(pages) = n /\ pages # <<>>
  <2>1. pages = [k \in 1 .. n |-> pages[k]]
    BY DEF pages
  <2>2. pages \in [1 .. n -> Seq(S)]
    BY <1>3, <2>1
  <2>3. pages \in Seq(Seq(S))
    BY <2>2
  <2>4. Len(pages) = n
    BY <1>2, <2>3
  <2> QED
    BY <2>3, <2>4
<1>5. PICK f : /\ f[1] = pages[1]
               /\ \A i \in 1 .. Len(pages) - 1 : f[i + 1] = f[i] \o pages[i + 1]
               /\ \A i \in 1 .. Len(pages) : f[i] \in Seq(S)
               /\ FlattenSeq(pages) = f[Len(pages)]
  BY <1>4, FlattenParts
<1> DEFINE reached(k) == IF end[k] < total THEN end[k] ELSE total
           T == {k \in 0 .. n : /\ end[k] >= k
                                /\ k # 0 => /\ Len(f[k]) = reached(k)
                                            /\ \A i \in 1 .. Len(f[k]) : f[k][i] = s[i]}
<1>6. 0 \in T
  BY <1>1
<1>7. ASSUME NEW k \in 0 .. n - 1, k \in T
      PROVE  k + 1 \in T
  <2>1. k \in 0 .. n /\ k + 1 \in 1 .. n /\ k + 1 \in 0 .. n /\ (k + 1) - 1 = k
    OBVIOUS
  <2> DEFINE a == f[k]
             p == pages[k + 1]
             b == f[k + 1]
             x == end[k]
  <2>2. /\ x \in Nat /\ x >= k /\ end[k + 1] = x + limit
        /\ p \in Seq(S)
        /\ Len(p) = IF x >= total THEN 0 ELSE IF limit < total - x THEN limit ELSE total - x
        /\ \A i \in 1 .. Len(p) : p[i] = s[x + i]
    BY <1>1, <1>3, <1>7, <2>1
  <2>3. CASE k = 0
    <3>1. b = p /\ x = 0
      BY <1>1, <1>5, <2>3
    <3> HIDE DEF b, p, x
    <3>2. Len(b) = reached(k + 1) /\ \A i \in 1 .. Len(b) : b[i] = s[i]
      BY <1>1, <2>2, <3>1
    <3>3. end[k + 1] >= k + 1
      BY <2>2
    <3> QED
      BY <2>1, <3>2, <3>3 DEF b
  <2>4. CASE k # 0
    <3>1. b = a \o p /\ a \in Seq(S)
      <4>1. k \in 1 .. Len(pages) - 1 /\ k \in 1 .. Len(pages)
        BY <1>4, <2>4
      <4> QED
        BY <1>5, <4>1
    <3>2. Len(a) = IF x < total THEN x ELSE total
      BY <1>7, <2>4
    <3>3. \A i \in 1 .. Len(a) : a[i] = s[i]
      BY <1>7, <2>4
    <3> HIDE DEF a, b, p, x
    <3>4. /\ Len(b) = Len(a) + Len(p)
          /\ \A i \in 1 .. Len(a) : b[i] = a[i]
          /\ \A i \in 1 .. Len(p) : b[Len(a) + i] = p[i]
      <4>1. p \in Seq(S) /\ Len(p) \in Nat /\ Len(a) \in Nat
        BY <2>2, <3>1
      <4>2. /\ Len(b) = Len(a) + Len(p)
            /\ \A i \in 1 .. Len(a) + Len(p) :
                  b[i] = IF i <= Len(a) THEN a[i] ELSE p[i - Len(a)]
        BY <3>1, <4>1, ConcatProperties
      <4>3. \A i \in 1 .. Len(a) : b[i] = a[i]
        BY <4>1, <4>2
      <4>4. ASSUME NEW i \in 1 .. Len(p)
            PROVE  b[Len(a) + i] = p[i]
        <5>1. /\ Len(a) + i \in 1 .. Len(a) + Len(p)
              /\ ~(Len(a) + i <= Len(a)) /\ (Len(a) + i) - Len(a) = i
          BY <4>1
        <5> QED
          BY <4>2, <5>1
      <4> QED
        BY <4>2, <4>3, <4>4
    <3>5. Len(b) = IF x + limit < total THEN x + limit ELSE total
      <4> DEFINE la == Len(a)
                 lb == Len(b)
                 lp == Len(p)
      <4>1. /\ lb = la + lp /\ total \in Nat /\ x \in Nat
            /\ la = (IF x < total THEN x ELSE total)
            /\ lp = (IF x >= total THEN 0 ELSE IF limit < total - x THEN limit ELSE total - x)
        BY <1>1, <2>2, <3>2, <3>4
      <4> HIDE DEF la, lb, lp, total
      <4>2. lb = IF x + limit < total THEN x + limit ELSE total
        BY <4>1
      <4> QED
        BY <4>2 DEF lb
    <3>6. ASSUME NEW i \in 1 .. Len(b)
          PROVE  b[i] = s[i]
      <4>0. Len(a) \in Nat /\ Len(p) \in Nat
        BY <2>2, <3>1
      <4>1. CASE i <= Len(a)
        BY <3>3, <3>4, <4>0, <4>1
      <4>2. CASE i > Len(a)
        <5>1. i - Len(a) \in 1 .. Len(p) /\ Len(a) + (i - Len(a)) = i
          BY <3>4, <4>0, <4>2
        <5>2. b[i] = p[i - Len(a)]
          BY <3>4, <5>1
        <5>3. Len(a) = x
          BY <1>1, <2>2, <3>2, <5>1
        <5> QED
          BY <2>2, <5>1, <5>2, <5>3
      <4> QED
        BY <4>0, <4>1, <4>2
    <3>7. end[k + 1] >= k + 1
      BY <2>2
    <3>8. Len(b) = reached(k + 1)
      BY <2>2, <3>5
    <3> QED
      BY <2>1, <3>6, <3>7, <3>8 DEF b
  <2> QED
    BY <2>3, <2>4
<1>8. \A k \in 0 .. n : k \in T
  <2> HIDE DEF T
  <2> QED
    BY <1>6, <1>7, UpTo
<1>9. n \in 0 .. n /\ end[n] \in Nat
  BY <1>1
<1> DEFINE all == f[n]
<1>10. Len(all) = total /\ all \in Seq(S) /\ \A i \in 1 .. total : all[i] = s[i]
  BY <1>1, <1>4, <1>5, <1>8, <1>9
<1>11. all = s
  <2> HIDE DEF all
  <2> QED
    BY <1>10, SeqEqual
<1> QED
  BY <1>4, <1>5, <1>11 DEF pages

LEMMA KeepingAll ==
  ASSUME NEW S, NEW seq \in Seq(S), NEW set, S \subseteq set
  PROVE  Keeping(seq, set) = seq
<1>1. PICK f : FilterBy(f, seq, set) /\ Keeping(seq, set) = f[Len(seq)]
  BY KeepingRuns
<1>2. \A i \in 1 .. Len(seq) : seq[i] \in set
  BY ElementOfSeq
<1>3. f[Len(seq)] = seq
  BY <1>1, <1>2, FilterKeepsAll
<1> QED
  BY <1>1, <1>3

(* With its filters off, Query takes the whole inbox.                      *)
LEMMA MatchingAll ==
  ASSUME MessageInv, NEW r \in Routes
  PROVE  Matching(r, 0, 0, 0) = messages[r] /\ messages[r] \in Seq(Message)
<1> DEFINE set == {m \in Message : /\ 0 > 0 => Seconds(m.stamp) >= 0
                                   /\ 0 > 0 => Seconds(m.stamp) <= 0
                                   /\ 0 # 0 => m.id = 0}
<1>1. messages[r] \in Seq(Message)
  BY DEF MessageInv, MessageTypeOK
<1>2. Message \subseteq set
  OBVIOUS
<1>3. Matching(r, 0, 0, 0) = Keeping(messages[r], set)
  BY DEF Matching
<1> HIDE DEF set
<1> QED
  BY <1>1, <1>2, <1>3, KeepingAll

(* Sorting rearranges.                                                     *)
LEMMA SortingsRearrange ==
  ASSUME NEW seq \in Seq(Message), NEW sorted \in Sortings(seq)
  PROVE  sorted \in Seq(Message) /\ Len(sorted) = Len(seq)
<1>1. PICK p \in [DOMAIN seq -> DOMAIN seq] : sorted = [i \in DOMAIN seq |-> seq[p[i]]]
  BY DEF Sortings
<1>2. DOMAIN seq = 1 .. Len(seq) /\ Len(seq) \in Nat
  OBVIOUS
<1>3. \A i \in 1 .. Len(seq) : seq[p[i]] \in Message
  BY <1>1, <1>2, ElementOfSeq
<1>4. sorted \in [1 .. Len(seq) -> Message]
  BY <1>1, <1>2, <1>3
<1> QED
  BY <1>2, <1>4

(* For every page size, the pages are what one unlimited pull returns.     *)
THEOREM PagesAreTheInbox == MessageSpec => []PagesCoverInbox
<1>1. ASSUME MessageInv
      PROVE  PagesCoverInbox
  <2>1. SUFFICES ASSUME NEW route \in Routes, NEW limit \in 1 .. MaxStored,
                        NEW sorted \in Sortings(Matching(route, 0, 0, 0))
                 PROVE  FlattenSeq([k \in 1 .. MaxStored |->
                                      Page(sorted, limit, (k - 1) * limit)]) = sorted
    BY DEF PagesCoverInbox
  <2>2. Matching(route, 0, 0, 0) = messages[route] /\ messages[route] \in Seq(Message)
    BY <1>1, MatchingAll
  <2>3. sorted \in Seq(Message) /\ Len(sorted) <= MaxStored
    BY <1>1, <2>2, SortingsRearrange DEF MessageInv
  <2>4. limit \in Nat \ {0} /\ MaxStored \in Nat \ {0}
    BY MessageAssumption
  <2> QED
    BY <2>3, <2>4, PagesJoin
<1> QED
  BY <1>1, MessageInvAlways, PTL

-----------------------------------------------------------------------------
(* Seconds.                                                                *)

LEMMA SecondsGrow ==
  ASSUME NEW s \in Nat, NEW t \in Nat, s <= t
  PROVE  Seconds(s) \in Nat /\ Seconds(s) <= Seconds(t) /\ (Second <= s => Seconds(s) >= 1)
<1>1. Second \in Nat \ {0}
  BY MessageAssumption
<1> QED
  BY <1>1 DEF Seconds

(* What a query for the second s finds, and for all seconds up to s.       *)
InSecond(s) == {m \in Message : Seconds(m.stamp) = s}
UpToSecond(s) == {m \in Message : Seconds(m.stamp) \in 1 .. s}

LEMMA MatchingSecond ==
  ASSUME MessageInv, NEW r \in Routes, NEW s \in Nat \ {0}
  PROVE  Matching(r, s, s, 0) = Keeping(messages[r], InSecond(s))
<1> DEFINE set == {m \in Message : /\ s > 0 => Seconds(m.stamp) >= s
                                   /\ s > 0 => Seconds(m.stamp) <= s
                                   /\ 0 # 0 => m.id = 0}
<1>1. \A m \in Message : Seconds(m.stamp) \in Nat
  BY SecondsGrow DEF Message
<1>2. set = InSecond(s)
  BY <1>1 DEF InSecond
<1>3. Matching(r, s, s, 0) = Keeping(messages[r], set)
  BY DEF Matching
<1> QED
  BY <1>2, <1>3

(* One second more adds the messages of that second.                       *)
LEMMA SecondAdds ==
  ASSUME NEW seq \in Seq(Message), NEW s \in Nat
  PROVE  Len(Keeping(seq, UpToSecond(s + 1)))
           = Len(Keeping(seq, UpToSecond(s))) + Len(Keeping(seq, InSecond(s + 1)))
<1>1. PICK f : FilterBy(f, seq, UpToSecond(s)) /\ Keeping(seq, UpToSecond(s)) = f[Len(seq)]
  BY KeepingRuns
<1>2. PICK g : FilterBy(g, seq, InSecond(s + 1))
               /\ Keeping(seq, InSecond(s + 1)) = g[Len(seq)]
  BY KeepingRuns
<1>3. PICK h : FilterBy(h, seq, UpToSecond(s + 1))
               /\ Keeping(seq, UpToSecond(s + 1)) = h[Len(seq)]
  BY KeepingRuns
<1>4. ASSUME NEW i \in 1 .. Len(seq)
      PROVE  /\ seq[i] \in UpToSecond(s + 1)
                  <=> seq[i] \in UpToSecond(s) \/ seq[i] \in InSecond(s + 1)
             /\ ~(seq[i] \in UpToSecond(s) /\ seq[i] \in InSecond(s + 1))
  <2>1. seq[i] \in Message
    BY ElementOfSeq
  <2>2. seq[i].stamp \in Nat
    BY <2>1 DEF Message
  <2>3. Seconds(seq[i].stamp) \in Nat
    BY <2>2, SecondsGrow, SMTT(30)
  <2> QED
    BY <2>1, <2>3 DEF UpToSecond, InSecond
<1>5. Len(h[Len(seq)]) = Len(f[Len(seq)]) + Len(g[Len(seq)])
  <2> DEFINE A == UpToSecond(s)
             B == InSecond(s + 1)
             C == UpToSecond(s + 1)
  <2>1. FilterBy(f, seq, A) /\ FilterBy(g, seq, B) /\ FilterBy(h, seq, C)
    BY <1>1, <1>2, <1>3
  <2>2. Splits(seq, C, A, B)
    BY <1>4 DEF Splits
  <2> HIDE DEF A, B, C
  <2>3. AddsUp(seq, C, A, B)
    BY <2>2, FilterAddsUp
  <2> QED
    BY <2>1, <2>3 DEF AddsUp
<1> QED
  BY <1>1, <1>2, <1>3, <1>5

(* Before the first second there is nothing.                               *)
LEMMA NothingBefore ==
  ASSUME NEW seq \in Seq(Message)
  PROVE  Len(Keeping(seq, UpToSecond(0))) = 0
<1>1. Keeping(seq, UpToSecond(0)) \in Seq(Message)
  BY KeepingKeeps
<1>2. ToSet(Keeping(seq, UpToSecond(0))) = {}
  BY KeepingKeeps DEF UpToSecond
<1>3. DOMAIN Keeping(seq, UpToSecond(0)) = {}
  BY <1>2 DEF ToSet
<1> QED
  BY <1>1, <1>3

(* The sum over the seconds is a loop.                                     *)
LEMMA CountsRun ==
  ASSUME MessageInv, NEW r \in Routes, NEW n \in Nat
  PROVE  \E f \in [0 .. n -> Nat] :
            f = [s \in 0 .. n |->
                   IF s = 0 THEN 0 ELSE f[s - 1] + Len(Matching(r, s, s, 0))]
<1> DEFINE next == [p \in (1 .. n) \X Nat |-> p[2] + Len(Matching(r, p[1], p[1], 0))]
<1>1. ASSUME NEW s \in 1 .. n, NEW v \in Nat
      PROVE  /\ next[<<s, v>>] = v + Len(Matching(r, s, s, 0))
             /\ next[<<s, v>>] \in Nat
  <2>1. messages[r] \in Seq(Message)
    BY DEF MessageInv, MessageTypeOK
  <2>2. Matching(r, s, s, 0) \in Seq(Message)
    BY <2>1, KeepingKeeps DEF Matching
  <2>3. Len(Matching(r, s, s, 0)) \in Nat
    BY <2>2
  <2>4. next[<<s, v>>] = v + Len(Matching(r, s, s, 0))
    OBVIOUS
  <2> QED
    BY <2>3, <2>4
<1> HIDE DEF next
<1>2. PICK f \in [0 .. n -> Nat] : LoopBy(f, n, 0, next)
  BY <1>1, LoopRuns
<1>3. ASSUME NEW s \in 0 .. n
      PROVE  f[s] = IF s = 0 THEN 0 ELSE f[s - 1] + Len(Matching(r, s, s, 0))
  <2>1. f[s] = IF s = 0 THEN 0 ELSE next[<<s, f[s - 1]>>]
    BY <1>2 DEF LoopBy
  <2>2. CASE s = 0
    BY <2>1, <2>2
  <2>3. CASE s # 0
    <3>1. s \in 1 .. n /\ s - 1 \in 0 .. n
      BY <2>3
    <3>2. f[s - 1] \in Nat
      BY <3>1
    <3>3. next[<<s, f[s - 1]>>] = f[s - 1] + Len(Matching(r, s, s, 0))
      BY <1>1, <3>1, <3>2
    <3> QED
      BY <2>1, <2>3, <3>3
  <2> QED
    BY <2>2, <2>3
<1>4. f = [s \in 0 .. n |-> f[s]]
  OBVIOUS
<1>5. f = [s \in 0 .. n |-> IF s = 0 THEN 0 ELSE f[s - 1] + Len(Matching(r, s, s, 0))]
  BY <1>3, <1>4
<1> QED
  BY <1>5

(* After and before, second by second, take an inbox apart: every message  *)
(* is in the answer for one second, whatever the length of a second.       *)
THEOREM SecondsAreThePartition == MessageSpec => []SecondsPartitionInbox
<1>1. ASSUME MessageInv
      PROVE  SecondsPartitionInbox
  <2> SUFFICES ASSUME NEW route \in Routes
               PROVE  LET found[s \in 0 .. Seconds(clock)] ==
                            IF s = 0 THEN 0
                            ELSE found[s - 1] + Len(Matching(route, s, s, 0))
                      IN  found[Seconds(clock)] = Len(messages[route])
    BY DEF SecondsPartitionInbox
  <2> DEFINE n == Seconds(clock)
             seq == messages[route]
             found == CHOOSE f : f = [s \in 0 .. n |->
                        IF s = 0 THEN 0 ELSE f[s - 1] + Len(Matching(route, s, s, 0))]
             T == {s \in 0 .. n : found[s] = Len(Keeping(seq, UpToSecond(s)))}
  <2>1. n \in Nat /\ seq \in Seq(Message)
    BY <1>1, SecondsGrow DEF MessageInv, MessageTypeOK
  <2> HIDE DEF n
  <2>2. found = [s \in 0 .. n |->
                   IF s = 0 THEN 0 ELSE found[s - 1] + Len(Matching(route, s, s, 0))]
    BY <1>1, <2>1, CountsRun, ZenonT(60)
  <2> HIDE DEF found
  <2>3. \A s \in 0 .. n :
           found[s] = IF s = 0 THEN 0 ELSE found[s - 1] + Len(Matching(route, s, s, 0))
    BY <2>2
  <2>4. 0 \in T
    BY <2>1, <2>3, NothingBefore
  <2>5. ASSUME NEW s \in 0 .. n - 1, s \in T
        PROVE  s + 1 \in T
    <3>1. s + 1 \in 0 .. n /\ s + 1 # 0 /\ (s + 1) - 1 = s /\ s \in Nat
      BY <2>1
    <3>2. found[s + 1] = found[s] + Len(Matching(route, s + 1, s + 1, 0))
      BY <2>3, <3>1
    <3>3. Matching(route, s + 1, s + 1, 0) = Keeping(seq, InSecond(s + 1))
      BY <1>1, <3>1, MatchingSecond
    <3>4. found[s] = Len(Keeping(seq, UpToSecond(s)))
      BY <2>5
    <3>5. Len(Keeping(seq, UpToSecond(s + 1)))
            = Len(Keeping(seq, UpToSecond(s))) + Len(Keeping(seq, InSecond(s + 1)))
      BY <2>1, <3>1, SecondAdds
    <3> QED
      BY <3>1, <3>2, <3>3, <3>4, <3>5
  <2>6. \A s \in 0 .. n : s \in T
    <3> HIDE DEF T
    <3> QED
      BY <2>1, <2>4, <2>5, UpTo
  <2>7. found[n] = Len(Keeping(seq, UpToSecond(n)))
    BY <2>1, <2>6
  <2>8. Keeping(seq, UpToSecond(n)) = seq
    <3>1. PICK f : FilterBy(f, seq, UpToSecond(n))
                   /\ Keeping(seq, UpToSecond(n)) = f[Len(seq)]
      BY <2>1, KeepingRuns
    <3>2. ASSUME NEW i \in 1 .. Len(seq)
          PROVE  seq[i] \in UpToSecond(n)
      <4>1. seq[i] \in Message /\ seq[i].stamp \in Second .. clock
        BY <1>1, <2>1, ElementOfSeq DEF MessageInv
      <4>2. clock \in Nat /\ Second \in Nat
        BY <1>1, MessageAssumption DEF MessageInv, MessageTypeOK
      <4>3. Seconds(seq[i].stamp) \in 1 .. n
        <5>1. /\ seq[i].stamp \in Nat /\ Second <= seq[i].stamp /\ seq[i].stamp <= clock
          BY <4>1, <4>2
        <5>2. /\ Seconds(seq[i].stamp) \in Nat
              /\ Seconds(seq[i].stamp) <= Seconds(clock)
              /\ Seconds(seq[i].stamp) >= 1
          BY <4>2, <5>1, SecondsGrow
        <5> QED
          BY <2>1, <5>2 DEF n
      <4> QED
        BY <4>1, <4>3 DEF UpToSecond
    <3>3. f[Len(seq)] = seq
      BY <2>1, <3>1, <3>2, FilterKeepsAll
    <3> QED
      BY <3>1, <3>3
  <2>9. found[n] = Len(seq)
    BY <2>7, <2>8
  <2> QED
    BY <2>9 DEF found, n
<1> QED
  BY <1>1, MessageInvAlways, PTL

-----------------------------------------------------------------------------
(* Watch and pull.                                                         *)

(* The first k steps of a selection sort that starts with position j: q    *)
(* names k positions, newest first, and the others are no newer.           *)
Selects(q, seq, j, k) ==
    /\ q \in [1 .. k -> 1 .. Len(seq)]
    /\ q[1] = j
    /\ \A a, b \in 1 .. k : a # b => q[a] # q[b]
    /\ \A a, b \in 1 .. k : a <= b => seq[q[b]].stamp <= seq[q[a]].stamp
    /\ \A i \in 1 .. Len(seq) :
          (\A a \in 1 .. k : q[a] # i) => seq[i].stamp <= seq[q[k]].stamp

LEMMA SelectionRuns ==
  ASSUME NEW seq \in Seq(Message), NEW j \in 1 .. Len(seq),
         \A i \in 1 .. Len(seq) : seq[i].stamp <= seq[j].stamp
  PROVE  \E q : Selects(q, seq, j, Len(seq))
<1> DEFINE n == Len(seq)
           T == {k \in 0 .. n : k # 0 => \E q : Selects(q, seq, j, k)}
<1>1. n \in Nat /\ \A i \in 1 .. n : seq[i].stamp \in Nat
  <2>1. \A i \in 1 .. n : seq[i] \in Message
    BY ElementOfSeq
  <2>2. \A m \in Message : m.stamp \in Nat
    BY DEF Message
  <2> QED
    BY <2>1, <2>2
<1>2. 0 \in T
  BY <1>1
<1>3. ASSUME NEW k \in 0 .. n - 1, k \in T
      PROVE  k + 1 \in T
  <2>1. k \in 0 .. n /\ k # n /\ k \in Nat /\ k + 1 \in 0 .. n
    BY <1>1
  <2>2. CASE k = 0
    <3> DEFINE q == [a \in 1 .. 1 |-> j]
    <3>1. q[1] = j /\ q \in [1 .. 1 -> 1 .. n] /\ \A a \in 1 .. 1 : q[a] = j
      OBVIOUS
    <3> HIDE DEF q
    <3>2. \A a \in 1 .. 1 : a = 1
      OBVIOUS
    <3>3. Selects(q, seq, j, 1)
      BY <1>1, <3>1, <3>2 DEF Selects
    <3> QED
      BY <2>1, <2>2, <3>3
  <2>3. CASE k # 0
    <3>1. PICK q : Selects(q, seq, j, k)
      BY <1>3, <2>3
    <3>2. q \in [1 .. k -> 1 .. n]
      BY <3>1 DEF Selects
    <3> DEFINE left == {i \in 1 .. n : \A a \in 1 .. k : q[a] # i}
               stamps == {seq[i].stamp : i \in left}
    <3>3. left # {}
      <4>1. \E i \in 1 .. n : \A a \in 1 .. k : q[a] # i
        BY <1>1, <2>1, <3>2, FewMissOne
      <4> QED
        BY <4>1
    <3>4. PICK i \in left : \A l \in left : seq[l].stamp <= seq[i].stamp
      <4>0. left \subseteq 1 .. n /\ \A l \in 1 .. n : seq[l].stamp \in Int
        BY <1>1
      <4>1. stamps \in SUBSET Int /\ stamps # {} /\ \A x \in stamps : x <= seq[j].stamp
        <5> HIDE DEF left
        <5> QED
          BY <3>3, <4>0
      <4>2. seq[j].stamp \in Int
        BY <1>1
      <4>3. PICK x \in stamps : \A y \in stamps : y <= x
        <5> HIDE DEF stamps
        <5> QED
          BY <4>1, <4>2, GreatestUpTo
      <4> QED
        BY <4>3
    <3> DEFINE p == [a \in 1 .. k + 1 |-> IF a = k + 1 THEN i ELSE q[a]]
    <3>5. i \in 1 .. n /\ \A a \in 1 .. k : q[a] # i
      OBVIOUS
    <3>6. p[k + 1] = i /\ \A a \in 1 .. k : p[a] = q[a]
      BY <2>1
    <3>7. p \in [1 .. k + 1 -> 1 .. n]
      BY <2>1, <3>2, <3>5
    <3>8. \A l \in 1 .. n : (\A a \in 1 .. k : q[a] # l) => seq[l].stamp <= seq[i].stamp
      BY <3>4
    <3> HIDE DEF p, left, stamps, n
    <3>9. p[1] = j /\ k \in 1 .. k
      BY <2>1, <2>3, <3>1, <3>6 DEF Selects
    <3>10. ASSUME NEW a \in 1 .. k + 1, NEW b \in 1 .. k + 1, a # b
           PROVE  p[a] # p[b]
      <4>1. CASE a = k + 1
        <5>1. b \in 1 .. k
          BY <2>1, <3>10, <4>1
        <5> QED
          BY <3>5, <3>6, <4>1, <5>1
      <4>2. CASE b = k + 1
        <5>1. a \in 1 .. k
          BY <2>1, <3>10, <4>2
        <5> QED
          BY <3>5, <3>6, <4>2, <5>1
      <4>3. CASE a # k + 1 /\ b # k + 1
        <5>1. a \in 1 .. k /\ b \in 1 .. k
          BY <2>1, <4>3
        <5> QED
          BY <3>1, <3>6, <3>10, <5>1 DEF Selects
      <4> QED
        BY <4>1, <4>2, <4>3
    <3>11. \A a \in 1 .. k : seq[i].stamp <= seq[q[a]].stamp
      <4>1. ASSUME NEW a \in 1 .. k
            PROVE  seq[i].stamp <= seq[q[a]].stamp
        <5>1. seq[i].stamp <= seq[q[k]].stamp
          BY <3>1, <3>5 DEF Selects, n
        <5>2. seq[q[k]].stamp <= seq[q[a]].stamp
          BY <2>1, <3>1, <3>9 DEF Selects
        <5>3. q[k] \in 1 .. n /\ q[a] \in 1 .. n
          BY <3>2, <3>9
        <5>4. seq[i].stamp \in Nat /\ seq[q[k]].stamp \in Nat /\ seq[q[a]].stamp \in Nat
          BY <1>1, <3>5, <5>3
        <5> QED
          BY <5>1, <5>2, <5>4
      <4> QED
        BY <4>1
    <3>12. ASSUME NEW a \in 1 .. k + 1, NEW b \in 1 .. k + 1, a <= b
           PROVE  seq[p[b]].stamp <= seq[p[a]].stamp
      <4>1. CASE a = k + 1
        <5>1. a = b
          BY <2>1, <3>12, <4>1
        <5>2. p[a] \in 1 .. n
          BY <3>7
        <5>3. seq[p[a]].stamp \in Nat
          BY <1>1, <5>2
        <5> QED
          BY <5>1, <5>3
      <4>2. CASE b = k + 1 /\ a # k + 1
        <5>1. a \in 1 .. k
          BY <2>1, <4>2
        <5> QED
          BY <3>6, <3>11, <4>2, <5>1
      <4>3. CASE a # k + 1 /\ b # k + 1
        <5>1. a \in 1 .. k /\ b \in 1 .. k
          BY <2>1, <4>3
        <5> QED
          BY <3>1, <3>6, <3>12, <5>1 DEF Selects
      <4> QED
        BY <4>1, <4>2, <4>3
    <3>13. ASSUME NEW l \in 1 .. n, \A a \in 1 .. k + 1 : p[a] # l
           PROVE  seq[l].stamp <= seq[p[k + 1]].stamp
      <4>1. \A a \in 1 .. k : a \in 1 .. k + 1 /\ q[a] # l
        BY <2>1, <3>6, <3>13
      <4> QED
        BY <3>6, <3>8, <4>1
    <3>14. Selects(p, seq, j, k + 1)
      BY <3>7, <3>9, <3>10, <3>12, <3>13 DEF Selects, n
    <3> QED
      BY <2>1, <3>14
  <2> QED
    BY <2>2, <2>3
<1>4. \A k \in 0 .. n : k \in T
  <2> HIDE DEF T
  <2> QED
    BY <1>1, <1>2, <1>3, UpTo
<1>5. n \in 0 .. n /\ n # 0
  BY <1>1
<1> QED
  BY <1>4, <1>5

(* A newest message can come last in a sorted inbox, whichever it is.      *)
LEMMA NewestComesLast ==
  ASSUME NEW seq \in Seq(Message), NEW j \in 1 .. Len(seq),
         \A i \in 1 .. Len(seq) : seq[i].stamp <= seq[j].stamp
  PROVE  \E sorted \in Sortings(seq) : sorted # <<>> /\ Last(sorted) = seq[j]
<1> DEFINE n == Len(seq)
<1>1. n \in Nat /\ DOMAIN seq = 1 .. n /\ n >= 1
  OBVIOUS
<1>2. PICK q : Selects(q, seq, j, n)
  BY SelectionRuns
<1> DEFINE p == [i \in 1 .. n |-> q[n + 1 - i]]
           sorted == [i \in 1 .. n |-> seq[p[i]]]
<1>3. \A i \in 1 .. n : n + 1 - i \in 1 .. n /\ p[i] = q[n + 1 - i]
  BY <1>1
<1>4. p \in [1 .. n -> 1 .. n]
  BY <1>2, <1>3 DEF Selects
<1>5. DOMAIN p = 1 .. n
  OBVIOUS
<1> HIDE DEF p
<1>6. ASSUME NEW a \in 1 .. n, NEW b \in 1 .. n, p[a] = p[b]
      PROVE  a = b
  <2>1. q[n + 1 - a] = q[n + 1 - b] /\ n + 1 - a \in 1 .. n /\ n + 1 - b \in 1 .. n
    BY <1>3, <1>6
  <2>2. n + 1 - a = n + 1 - b
    BY <1>2, <2>1 DEF Selects
  <2> QED
    BY <1>1, <2>2
<1>7. ASSUME NEW a \in 1 .. n, NEW b \in 1 .. n, a < b
      PROVE  seq[p[a]].stamp <= seq[p[b]].stamp
  <2>1. n + 1 - a \in 1 .. n /\ n + 1 - b \in 1 .. n /\ n + 1 - b <= n + 1 - a
    BY <1>1, <1>3, <1>7
  <2>2. seq[q[n + 1 - a]].stamp <= seq[q[n + 1 - b]].stamp
    BY <1>2, <2>1 DEF Selects
  <2> QED
    BY <1>3, <2>2
<1>8. IsInjective(p)
  BY <1>5, <1>6 DEF IsInjective
<1>9. sorted \in Sortings(seq)
  <2>1. p \in [DOMAIN seq -> DOMAIN seq]
    BY <1>1, <1>4
  <2>2. \A a, b \in DOMAIN seq : a < b => seq[p[a]].stamp <= seq[p[b]].stamp
    BY <1>1, <1>7
  <2>3. sorted = [i \in DOMAIN seq |-> seq[p[i]]]
    BY <1>1
  <2> QED
    BY <1>8, <2>1, <2>2, <2>3 DEF Sortings
<1>10. sorted \in Seq(Message) /\ Len(sorted) = n
  <2> HIDE DEF sorted
  <2> QED
    BY <1>9, SortingsRearrange
<1>11. sorted[n] = seq[j]
  <2>1. n \in 1 .. n /\ n + 1 - n = 1
    BY <1>1
  <2>2. p[n] = j
    BY <1>2, <1>3, <2>1 DEF Selects
  <2> QED
    BY <2>1, <2>2
<1>12. Last(sorted) = seq[j] /\ sorted # <<>>
  <2> HIDE DEF sorted
  <2> QED
    BY <1>1, <1>10, <1>11 DEF Last
<1> QED
  BY <1>9, <1>12

(* LatestID reports the first of the newest messages, 0 of an empty slice. *)
LEMMA LatestFound ==
  ASSUME MessageInv, NEW r \in Routes
  PROVE  IF messages[r] = <<>> THEN LatestID(r) = 0
         ELSE \E j \in 1 .. Len(messages[r]) :
                /\ LatestID(r) = messages[r][j].id
                /\ \A i \in 1 .. Len(messages[r]) :
                      messages[r][i].stamp <= messages[r][j].stamp
<1> DEFINE seq == messages[r]
           n == Len(seq)
           none == [id |-> 0, stamp |-> -1]
           V == Message \union {none}
           next == [p \in (1 .. n) \X V |-> IF seq[p[1]].stamp > p[2].stamp THEN seq[p[1]] ELSE p[2]]
           newest == CHOOSE f : f = [i \in 0 .. n |->
                       IF i = 0 THEN none
                       ELSE IF seq[i].stamp > f[i - 1].stamp THEN seq[i] ELSE f[i - 1]]
<1>1. seq \in Seq(Message) /\ n \in Nat /\ \A i \in 1 .. n : seq[i] \in Message
  BY ElementOfSeq DEF MessageInv, MessageTypeOK
<1>2. LatestID(r) = newest[n].id
  BY DEF LatestID
<1> HIDE DEF V, seq, n
<1>3. ASSUME NEW i \in 1 .. n, NEW v \in V
      PROVE  /\ next[<<i, v>>] = IF seq[i].stamp > v.stamp THEN seq[i] ELSE v
             /\ next[<<i, v>>] \in V
  BY <1>1 DEF V
<1> HIDE DEF next
<1>4. none \in V
  BY DEF V
<1> HIDE DEF none
<1>5. PICK f \in [0 .. n -> V] : LoopBy(f, n, none, next)
  BY <1>1, <1>3, <1>4, LoopRuns
<1>6. ASSUME NEW i \in 0 .. n
      PROVE  f[i] = IF i = 0 THEN none
                    ELSE IF seq[i].stamp > f[i - 1].stamp THEN seq[i] ELSE f[i - 1]
  <2>1. f[i] = IF i = 0 THEN none ELSE next[<<i, f[i - 1]>>]
    BY <1>5 DEF LoopBy
  <2>2. CASE i = 0
    BY <2>1, <2>2
  <2>3. CASE i # 0
    <3>1. i \in 1 .. n /\ f[i - 1] \in V
      BY <1>1, <2>3
    <3> QED
      BY <1>3, <2>1, <2>3, <3>1
  <2> QED
    BY <2>2, <2>3
<1>7. f = [i \in 0 .. n |-> IF i = 0 THEN none
             ELSE IF seq[i].stamp > f[i - 1].stamp THEN seq[i] ELSE f[i - 1]]
  <2>1. f = [i \in 0 .. n |-> f[i]]
    OBVIOUS
  <2> QED
    BY <1>6, <2>1
<1>8. newest = [i \in 0 .. n |-> IF i = 0 THEN none
                 ELSE IF seq[i].stamp > newest[i - 1].stamp THEN seq[i] ELSE newest[i - 1]]
  BY <1>7, Zenon
<1> HIDE DEF newest
<1>9. \A i \in 0 .. n : newest[i] = IF i = 0 THEN none
         ELSE IF seq[i].stamp > newest[i - 1].stamp THEN seq[i] ELSE newest[i - 1]
  BY <1>8
<1>10. CASE n = 0
  <2>1. newest[n] = none
    BY <1>9, <1>10
  <2>2. seq = <<>>
    BY <1>1, <1>10 DEF n
  <2> QED
    BY <1>2, <2>1, <2>2 DEF none, seq
<1>11. CASE n # 0
  <2> DEFINE T == {k \in 0 .. n : k # 0 =>
                     \E j \in 1 .. k : /\ newest[k] = seq[j]
                                       /\ \A i \in 1 .. k : seq[i].stamp <= seq[j].stamp}
  <2>0. \A i \in 1 .. n : seq[i].stamp \in Nat
    BY <1>1 DEF Message
  <2>1. 0 \in T
    BY <1>1
  <2>2. ASSUME NEW k \in 0 .. n - 1, k \in T
        PROVE  k + 1 \in T
    <3>1. k + 1 \in 0 .. n /\ k + 1 # 0 /\ (k + 1) - 1 = k /\ k + 1 \in 1 .. n /\ k \in Nat
      BY <1>1
    <3>2. newest[k + 1] = IF seq[k + 1].stamp > newest[k].stamp
                          THEN seq[k + 1] ELSE newest[k]
      BY <1>9, <3>1
    <3>3. CASE k = 0
      <4>1. newest[k].stamp = -1
        BY <1>1, <1>9, <3>3 DEF none
      <4>2. newest[k + 1] = seq[k + 1] /\ seq[k + 1].stamp \in Nat
        BY <2>0, <3>1, <3>2, <4>1
      <4>3. \A i \in 1 .. k + 1 : i = k + 1
        BY <3>3
      <4> QED
        BY <3>1, <4>2, <4>3
    <3>4. CASE k # 0
      <4>1. PICK j \in 1 .. k : /\ newest[k] = seq[j]
                                /\ \A i \in 1 .. k : seq[i].stamp <= seq[j].stamp
        BY <2>2, <3>4
      <4>2. /\ \A i \in 1 .. k : seq[i].stamp \in Nat
            /\ seq[k + 1].stamp \in Nat
        <5>1. \A i \in 1 .. k : i \in 1 .. n
          BY <1>1, <3>1
        <5> QED
          BY <2>0, <3>1, <5>1
      <4>3. CASE seq[k + 1].stamp > seq[j].stamp
        <5>1. newest[k + 1] = seq[k + 1]
          BY <3>2, <4>1, <4>3
        <5>2. \A i \in 1 .. k + 1 : seq[i].stamp <= seq[k + 1].stamp
          <6>1. ASSUME NEW i \in 1 .. k + 1
                PROVE  seq[i].stamp <= seq[k + 1].stamp
            <7>1. CASE i = k + 1
              BY <4>2, <7>1
            <7>2. CASE i # k + 1
              <8>1. i \in 1 .. k /\ j \in 1 .. k
                BY <3>1, <7>2
              <8> QED
                BY <4>1, <4>2, <4>3, <8>1
            <7> QED
              BY <7>1, <7>2
          <6> QED
            BY <6>1
        <5> QED
          BY <3>1, <5>1, <5>2
      <4>4. CASE ~(seq[k + 1].stamp > seq[j].stamp)
        <5>1. newest[k + 1] = seq[j] /\ j \in 1 .. k + 1
          BY <3>1, <3>2, <4>1, <4>4
        <5>2. seq[k + 1].stamp <= seq[j].stamp
          BY <4>2, <4>4
        <5>3. \A i \in 1 .. k + 1 : i = k + 1 \/ i \in 1 .. k
          BY <3>1
        <5>4. \A i \in 1 .. k + 1 : seq[i].stamp <= seq[j].stamp
          BY <4>1, <5>2, <5>3
        <5> QED
          BY <3>1, <5>1, <5>4
      <4> QED
        BY <4>3, <4>4
    <3> QED
      BY <3>3, <3>4
  <2>3. \A k \in 0 .. n : k \in T
    <3> HIDE DEF T
    <3> QED
      BY <1>1, <2>1, <2>2, UpTo
  <2>4. n \in T
    BY <1>1, <2>3
  <2>5. PICK j \in 1 .. n : newest[n] = seq[j] /\ \A i \in 1 .. n : seq[i].stamp <= seq[j].stamp
    BY <1>11, <2>4
  <2>6. seq # <<>>
    BY <1>11 DEF n
  <2> QED
    BY <1>2, <2>5, <2>6 DEF seq, n
<1> QED
  BY <1>10, <1>11

(* Watch reports a message that pull can put last, for inboxes of any      *)
(* size, in whatever order the messages were stored.                       *)
THEOREM WatchReportsPulled == MessageSpec => []WatchAgreesWithPull
<1>1. ASSUME MessageInv
      PROVE  WatchAgreesWithPull
  <2> SUFFICES ASSUME NEW route \in Routes
               PROVE  \E pulled \in Query(route, 0, 0, 0, 0, 0) :
                        LatestID(route) = IF pulled = <<>> THEN 0 ELSE Last(pulled).id
    BY DEF WatchAgreesWithPull
  <2> DEFINE seq == messages[route]
  <2>1. Matching(route, 0, 0, 0) = seq /\ seq \in Seq(Message)
    BY <1>1, MatchingAll
  <2> HIDE DEF seq
  <2>2. \A sorted \in Sortings(seq) : sorted \in Query(route, 0, 0, 0, 0, 0)
    <3>1. ASSUME NEW sorted \in Sortings(seq)
          PROVE  Page(sorted, 0, 0) = sorted
      <4>1. sorted \in Seq(Message) /\ Len(sorted) \in Nat
        BY <2>1, SortingsRearrange
      <4>2. CASE Len(sorted) = 0
        BY <4>1, <4>2 DEF Page
      <4>3. CASE Len(sorted) # 0
        <5>1. Page(sorted, 0, 0) = SubSeq(sorted, 1, Len(sorted))
          BY <4>1, <4>3 DEF Page
        <5> QED
          BY <4>1, <5>1
      <4> QED
        BY <4>2, <4>3
    <3> QED
      BY <2>1, <3>1 DEF Query
  <2>3. CASE seq = <<>>
    <3>1. LatestID(route) = 0
      BY <1>1, <2>3, LatestFound DEF seq
    <3>2. <<>> \in Sortings(seq)
      <4> DEFINE p == [i \in DOMAIN seq |-> i]
      <4>1. DOMAIN seq = {} /\ DOMAIN p = {}
        BY <2>3
      <4>2. p \in [DOMAIN seq -> DOMAIN seq] /\ IsInjective(p)
        BY <4>1 DEF IsInjective
      <4>3. [i \in DOMAIN seq |-> seq[p[i]]] = <<>>
        BY <4>1
      <4> HIDE DEF p
      <4> QED
        BY <4>1, <4>2, <4>3 DEF Sortings
    <3> QED
      BY <2>2, <3>1, <3>2
  <2>4. CASE seq # <<>>
    <3>1. PICK j \in 1 .. Len(seq) :
             /\ LatestID(route) = seq[j].id
             /\ \A i \in 1 .. Len(seq) : seq[i].stamp <= seq[j].stamp
      BY <1>1, <2>4, LatestFound DEF seq
    <3>2. PICK sorted \in Sortings(seq) : sorted # <<>> /\ Last(sorted) = seq[j]
      BY <2>1, <3>1, NewestComesLast
    <3> QED
      BY <2>2, <3>1, <3>2
  <2> QED
    BY <2>3, <2>4
<1> QED
  BY <1>1, MessageInvAlways, PTL

=============================================================================
