--------------------------- MODULE HandlerHistory ---------------------------
(***************************************************************************)
(* What the message handlers promise together, and the history it is about:*)
(*   bound      the pairs <<tail, user>> a token was ever bound to;        *)
(*   pushed     <<inbox, sender, id>> of every message that was stored;    *)
(*   answered   <<identity, reply>> of every request that was executed,    *)
(*              that is, answered by its route and not from the cache.     *)
(* History follows from the steps of Handler and does not restrict them.   *)
(***************************************************************************)
EXTENDS Handler, SequencesExt

VARIABLES bound, pushed, answered

historyVars == <<vars, bound, pushed, answered>>

HistoryInit == Init /\ bound = {} /\ pushed = {} /\ answered = {}

(* What makes two messages of clients the same one.                        *)
Identity(r) == <<r.id, r.tail>>

(* The inboxes that a handler, and not the cleanup loop, has just changed. *)
Arrivals ==
    {i \in Inboxes : /\ messages'[i] # messages[i]
                     /\ \E c \in Conns : pc[c] = "store" /\ pc'[c] # "store"}

Finishing == {c \in Conns : pc[c] # "put" /\ pc'[c] = "put"}

Record ==
    /\ bound' = bound \union {<<t, tokens'[t]>> : t \in DOMAIN tokens'}
    /\ pushed' = pushed \union
          {<<i, Last(messages'[i]).sender, Last(messages'[i]).id>> : i \in Arrivals}
    /\ answered' = answered \union {<<Identity(req[c]), reply'[c]>> : c \in Finishing}

HistoryNext == Next /\ Record

HistorySpec == HistoryInit /\ [][HistoryNext]_historyVars

FairHistorySpec == HistorySpec /\ \A c \in Conns : WF_historyVars(up /\ Work(c) /\ Record)

(* Connections never hold the same message at the same time: a client      *)
(* waits for its answer, or for its connection to be closed, before it     *)
(* sends a message again.                                                  *)
Busy == {c \in Conns : pc[c] # "idle"}

DistinctMessages == \A c, d \in Busy : c # d => Identity(req[c]) # Identity(req[d])

OneAtATimeSpec == HistoryInit /\ [][HistoryNext /\ DistinctMessages']_historyVars

-----------------------------------------------------------------------------
(* The server as an implementation of OnceOnly.  A key is executed when    *)
(* its response is ready; the answer is the response on its way to the     *)
(* cache or to the client, or the cached one.                              *)

Holding(k) == {c \in Conns : pc[c] \in {"put", "write"} /\ Identity(req[c]) = k}

AnsweredKeys ==
    Cache!Resident \union {Identity(req[c]) : c \in {d \in Conns : pc[d] \in {"put", "write"}}}

Answer ==
    [k \in AnsweredKeys |->
        IF k \in Cache!Resident THEN entries[k] ELSE reply[CHOOSE c \in Holding(k) : TRUE]]

Sending == [c \in Conns |-> IF pc[c] = "write" THEN <<Identity(req[c]), reply[c]>> ELSE None]

Once == INSTANCE OnceOnly WITH
           Keys <- Ids \X Tails,
           Nothing <- None, answer <- Answer, sending <- Sending

-----------------------------------------------------------------------------

(* The state has the types of the Go structs and locals.                   *)
HandlerTypeOK ==
    /\ pc \in [Conns -> {"idle", "lookup", "cache", "dispatch", "store", "mint",
                         "enrol", "put", "write"}]
    /\ req \in [Conns -> Requests \union {None}]
    /\ user \in [Conns -> Users \union {None}]
    /\ \A c \in Conns : reply[c] \in Replies \union {None}
    /\ Cache!CacheTypeOK /\ Tok!TokenTypeOK /\ Cfm!CfmTypeOK
    /\ accounts \subseteq Users /\ up \in BOOLEAN
    /\ messages \in [Inboxes -> Seq(Msg!Message)]

(* A message gets into smp@u only from a token that was bound to u, even   *)
(* when the token is revoked or its tail minted again for somebody else    *)
(* between the lookup and the store.                                       *)
OnlyOwnerPushes ==
    \A p \in pushed : p[1] \in Users => <<p[2], p[1]>> \in bound

Reading(r, u) == r # None /\ "from" \in DOMAIN r /\ r.from = u

(* The contents of smp@u are answered only to a token that was bound to u, *)
(* whether the pull is executed or replayed from the cache.                *)
OnlyOwnerReads ==
    \A c \in Conns, u \in Users : Reading(reply[c], u) => <<req[c].tail, u>> \in bound

(* A complete file that was not uploaded as public is answered only to a   *)
(* token that was bound to its uploader, although two message identifiers, *)
(* of two users, may name the same file.                                   *)
FilesStayPrivate ==
    \A c \in Conns :
        LET r == reply[c]
        IN  r # None /\ "file" \in DOMAIN r /\ r.file.whole /\ ~r.file.public
            => <<req[c].tail, r.file.by>> \in bound

(* A client never gets the answer to another message: what a connection    *)
(* writes, and what the cache holds for replay, was computed by executing  *)
(* a request with the same identifier and the same token tail.             *)
RepliesAreOwn ==
    /\ \A c \in Conns : pc[c] = "write" => <<Identity(req[c]), reply[c]>> \in answered
    /\ \A k \in Cache!Resident : <<k, entries[k]>> \in answered

(* Whoever is told that a message was stored sent one that was: "ok:<id>"  *)
(* is written, or kept for replay, only when the store has taken a message *)
(* with this identifier from this token.                                   *)
AcknowledgedIsStored ==
    \A a \in answered : "stored" \in DOMAIN a[2] =>
        \E p \in pushed : <<p[3], p[2]>> = a[1] /\ p[3] = a[2].stored

(* An account is listed only after a token for its user was minted, so no  *)
(* user is refused as existing while nobody was given a token.             *)
AccountsHaveTokens == \A u \in accounts : \E t \in Tails : <<t, u>> \in bound

(* The policy the configuration states, whatever the code computes it by:  *)
(* an enabled whitelist turns everybody else away and makes the blacklist  *)
(* moot; a command may be run when a pattern for everybody or for the user *)
(* covers it, or, unless the mode is "whitelist", when none does.          *)
Commands == {r.route : r \in Requests}

TurnedAway ==
    {u \in Users : \/ Config.WhitelistEnabled /\ u \notin Config.Whitelist
                   \/ /\ ~Config.WhitelistEnabled /\ Config.BlacklistEnabled
                      /\ u \in Config.Blacklist}

Covered(u) ==
    {route \in Commands :
        \/ \E p \in Config.BasePermission : <<p, route>> \in Covers
        \/ /\ u \in DOMAIN Config.SpecialPermission
           /\ \E p \in Config.SpecialPermission[u] : <<p, route>> \in Covers}

MayRun(u) == IF Config.ConfMode = "whitelist" THEN Covered(u) ELSE Commands \ Covered(u)

(* The configured policy holds for everything the server has done: no user *)
(* who is turned away ever has a token or an account, and a command other  *)
(* than _create, which needs no token, is executed only for a user who may *)
(* run it and to whom the token was bound, although the token is looked up *)
(* before the policy is asked and may be bound to somebody else by then.   *)
PolicyEnforced ==
    /\ \A u \in TurnedAway : u \notin accounts /\ \A t \in Tails : <<t, u>> \notin bound
    /\ \A c \in Conns :
          pc[c] = "put" /\ "error" \notin DOMAIN reply[c] /\ req[c].route # "_create"
          => req[c].route \in MayRun(user[c]) /\ <<req[c].tail, user[c]>> \in bound

(* message.go:155, "Check if user already exists": a user is created once, *)
(* no two _create requests of one name are both answered with a token.     *)
CreatedOnce ==
    \A a, b \in answered :
        /\ "created" \in DOMAIN a[2] /\ "created" \in DOMAIN b[2]
        /\ a[2].created = b[2].created
        => a = b

(* docs/server-docs.md:64: "Duplicate IDs return cached response, no       *)
(* duplicate business logic execution".  No inbox holds two messages with  *)
(* the same identifier from the same token.                                *)
NoDuplicateMessages ==
    \A inbox \in Inboxes : \A i, j \in DOMAIN messages[inbox] :
        /\ messages[inbox][i].id = messages[inbox][j].id
        /\ messages[inbox][i].sender = messages[inbox][j].sender
        => i = j

(* A key is executed once, and whoever asks again gets the same answer.    *)
ExecutedOnce == Once!OnceSpec

(* Every message that was received gets an answer to write, whatever the   *)
(* other connections do meanwhile, those included whose clients never read *)
(* their answers.  What ends the process, and leaves messages unanswered,  *)
(* is a pull with a negative offset.                                       *)
RequestsAnswered ==
    \A c \in Conns : pc[c] = "lookup" ~>
        \/ pc[c] = "write"
        \/ ~up /\ \E d \in Conns : Serves(d, "_pull") /\ req[d].offset < 0

=============================================================================
