---------------------------- MODULE MessageStore ----------------------------
(***************************************************************************)
(* The server's message store, internal/store/message.go: one slice of     *)
(* messages per route, kept in the order Store was called, and the queries *)
(* pull and watch answer from.                                             *)
(*                                                                         *)
(* A message carries the time its handler read before it called Store      *)
(* (handler/message.go:197, :199), so two handlers can store in the        *)
(* opposite order of their timestamps: a slice is in no particular order   *)
(* of time.  Store and Cleanup hold the write lock, the queries the read   *)
(* lock, so each is atomic.  The user data and context of a message are    *)
(* left out: no operation looks at them.                                   *)
(***************************************************************************)
EXTENDS Slices, SequencesExt, FiniteSets

CONSTANTS
    Routes,     \* the routes messages are stored under
    Ids,        \* message identifiers: positive, the parser rejects 0
    Senders,    \* the token tails that messages carry
    Retention,  \* ms.retention, in clock ticks
    Second,     \* clock ticks in a second, the unit of the query's times
    MaxDelay,   \* bound on the ticks between reading the time and Store
    LastStore,  \* bound on the time of the last Store
    MaxClock,   \* bound on the clock
    MaxStored   \* bound on the messages stored at the same time

ASSUME MessageAssumption ==
    /\ Ids \subseteq Nat \ {0}
    /\ Retention \in Nat \ {0}
    /\ Second \in Nat \ {0}
    /\ MaxDelay \in Nat /\ LastStore \in Nat /\ MaxClock \in Nat /\ MaxStored \in Nat
    /\ Second <= MaxClock

VARIABLES
    messages,   \* route -> the messages stored under it
    clock       \* the clock

messageVars == <<messages, clock>>

Message == [id : Ids, sender : Senders, stamp : Nat]

-----------------------------------------------------------------------------

Unexpired == {m \in Message : m.stamp + Retention > clock}

MessageInit ==
    /\ messages = [r \in Routes |-> <<>>]
    /\ clock = Second

StoreUnstamped(route, m) ==
    /\ messages' = [messages EXCEPT ![route] = Append(@, [m EXCEPT !.stamp = -1])]
    /\ UNCHANGED clock

Store(route, m) ==
    /\ messages' = [messages EXCEPT ![route] = Append(@, m)]
    /\ UNCHANGED clock

CleanupKeepingLast ==
    /\ messages' = [r \in Routes |->
          LET filtered == Keeping(messages[r], Unexpired)
          IN  IF filtered = <<>> THEN messages[r] ELSE filtered]
    /\ UNCHANGED clock

CleanupStopping ==
    /\ messages' = [r \in Routes |->
          LET old == SelectInSeq(messages[r], LAMBDA m : m \notin Unexpired)
          IN  IF old = 0 THEN messages[r] ELSE SubSeq(messages[r], 1, old - 1)]
    /\ UNCHANGED clock

(* Cleanup keeps the messages younger than the retention, route by route.  *)
Cleanup ==
    /\ messages' = [r \in Routes |-> Keeping(messages[r], Unexpired)]
    /\ UNCHANGED clock

Tick ==
    /\ clock' = clock + 1
    /\ UNCHANGED messages

-----------------------------------------------------------------------------
(* Query and LatestID read the store and change nothing.                   *)

Seconds(t) == t \div Second

MatchingExclusive(route, after, before, id) ==
    Keeping(messages[route],
        {m \in Message : /\ after > 0 => Seconds(m.stamp) >= after
                         /\ before > 0 => Seconds(m.stamp) < before
                         /\ id # 0 => m.id = id})

(* The filters of Query; a filter whose value is 0 is off.                 *)
Matching(route, after, before, id) ==
    Keeping(messages[route],
        {m \in Message : /\ after > 0 => Seconds(m.stamp) >= after
                         /\ before > 0 => Seconds(m.stamp) <= before
                         /\ id # 0 => m.id = id})

(* sort.Slice does not keep equal timestamps in order: any sorted          *)
(* rearrangement may come out.                                             *)
Sortings(seq) ==
    LET Orders == {p \in [DOMAIN seq -> DOMAIN seq] :
                     /\ IsInjective(p)
                     /\ \A i, j \in DOMAIN seq :
                           i < j => seq[p[i]].stamp <= seq[p[j]].stamp}
    IN  {[i \in DOMAIN seq |-> seq[p[i]]] : p \in Orders}

PageDroppingLast(seq, limit, offset) ==
    IF offset >= Len(seq) THEN <<>>
    ELSE LET rest == SubSeq(seq, offset + 1, Len(seq))
         IN  IF limit > 0 /\ limit < Len(rest) THEN SubSeq(rest, 1, limit - 1) ELSE rest

(* The slice expressions at the end of Query, for an offset of at least 0: *)
(* with a negative one they panic, which is Handler's action Panic.        *)
Page(seq, limit, offset) ==
    IF offset >= Len(seq) THEN <<>>
    ELSE LET rest == SubSeq(seq, offset + 1, Len(seq))
         IN  IF limit > 0 /\ limit < Len(rest) THEN SubSeq(rest, 1, limit) ELSE rest

Query(route, limit, offset, after, before, id) ==
    {Page(sorted, limit, offset) :
        sorted \in Sortings(Matching(route, after, before, id))}

LatestByWrite(route) ==
    IF messages[route] = <<>> THEN 0 ELSE Last(messages[route]).id

(* LatestID walks the slice and takes a message that is strictly newer.    *)
LatestID(route) ==
    LET seq == messages[route]
        newest[n \in 0 .. Len(seq)] ==
            IF n = 0 THEN [id |-> 0, stamp |-> -1]
            ELSE LET sofar == newest[n - 1]
                 IN  IF seq[n].stamp > sofar.stamp THEN seq[n] ELSE sofar
    IN  newest[Len(seq)].id

-----------------------------------------------------------------------------
(* The store on its own: handlers store messages stamped a little earlier, *)
(* the cleanup goroutine runs at any time, the clock advances.             *)

Stored == Cardinality(UNION {{r} \X DOMAIN messages[r] : r \in Routes})

SomeStore ==
    \E route \in Routes, id \in Ids, sender \in Senders, stamp \in Second .. clock :
        /\ Stored < MaxStored
        /\ clock - stamp <= MaxDelay
        /\ clock <= LastStore
        /\ Store(route, [id |-> id, sender |-> sender, stamp |-> stamp])

MessageNext == SomeStore \/ Cleanup \/ (clock < MaxClock /\ Tick)

MessageSpec == MessageInit /\ [][MessageNext]_messageVars

(* The clock runs, and the cleanup goroutine is scheduled again and again. *)
MessageFairSpec ==
    /\ MessageSpec
    /\ WF_messageVars(clock < MaxClock /\ Tick)
    /\ WF_messageVars(Cleanup)

-----------------------------------------------------------------------------

(* The state has the types of the Go struct's fields.                      *)
MessageTypeOK ==
    /\ messages \in [Routes -> Seq(Message)]
    /\ clock \in 0 .. MaxClock

(* watch (LatestID, a scan) and pull (Query, a sort) answer from the same  *)
(* inbox by different code: the identifier watch reports is the one of a   *)
(* message that can come last in an unlimited pull, and 0 when a pull is   *)
(* empty, in whatever order the messages were stored.                      *)
WatchAgreesWithPull ==
    \A route \in Routes :
        \E pulled \in Query(route, 0, 0, 0, 0, 0) :
            LatestID(route) = IF pulled = <<>> THEN 0 ELSE Last(pulled).id

(* Pulling an inbox page by page, with any page size, returns the messages *)
(* of one unlimited pull, in its order: no message is skipped or repeated  *)
(* at a page boundary.                                                     *)
PagesCoverInbox ==
    \A route \in Routes, limit \in 1 .. MaxStored :
        \A sorted \in Sortings(Matching(route, 0, 0, 0)) :
            FlattenSeq([k \in 1 .. MaxStored |-> Page(sorted, limit, (k - 1) * limit)])
                = sorted

(* Asking for an inbox second by second misses nothing and repeats nothing: *)
(* after and before both include the second they name.                     *)
SecondsPartitionInbox ==
    \A route \in Routes :
        LET found[s \in 0 .. Seconds(clock)] ==
              IF s = 0 THEN 0 ELSE found[s - 1] + Len(Matching(route, s, s, 0))
        IN  found[Seconds(clock)] = Len(messages[route])

NewestStamp(route) ==
    Max({-1} \union {m.stamp : m \in ToSet(messages[route])})

(* What watch reports never goes back to an older message: Cleanup takes   *)
(* an inbox's newest message only with all the others, although the slice  *)
(* it filters is not ordered by time.                                      *)
WatchNeverGoesBack ==
    [][\A route \in Routes :
         messages'[route] # <<>> => NewestStamp(route)' >= NewestStamp(route)]_messageVars

(* Messages past the retention do not stay in memory: once pushes cease    *)
(* and the clock has passed every retention, all the inboxes get empty.    *)
InboxesDrain == <>[](\A route \in Routes : messages[route] = <<>>)

=============================================================================
