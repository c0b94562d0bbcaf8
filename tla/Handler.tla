------------------------------ MODULE Handler ------------------------------
(***************************************************************************)
(* How the server handles parsed messages, internal/handler/message.go,    *)
(* on several connections at once.  A connection is a goroutine that       *)
(* handles one message after the other; all of them share the idempotency  *)
(* cache, the token, message and file stores and the accounts.  No lock is *)
(* held across two calls to these, so a handler is a sequence of steps,    *)
(* one for each call, and the steps of different connections interleave:   *)
(*                                                                         *)
(*    idle -> lookup -> cache -> dispatch [-> store | mint -> enrol]       *)
(*                        |         |                                      *)
(*                        |         +-> put -> write -> idle               *)
(*                        +---------------------^                          *)
(*                                                                         *)
(* Routes are named as in the source; "push" is the default case.  The     *)
(* inbox smp@u is represented by the user u.                               *)
(***************************************************************************)
EXTENDS Integers, Sequences, FiniteSets, TLC

CONSTANTS
    Conns,          \* connections
    Requests,       \* the messages clients may send
    Users,          \* user names
    SharedRoutes,   \* routes that are not of the form smp@user
    Tails,          \* token tails
    Ids,            \* message identifiers
    TopBit,         \* 2^(w-1) for identifiers of w bits
    None,           \* no user, no request, no reply
    Config,         \* the configuration
    Covers,         \* <<pattern, route>>: the pattern matches the route's command
    CacheSize, Retention, Second, Sizes, MaxBytes, Expiries,
    MaxRequests,    \* bound on the messages the connections receive
    MaxNow          \* bound on the clock

ASSUME HandlerAssumption ==
    /\ None \notin Users \union Requests
    /\ Users \intersect SharedRoutes = {}
    /\ TopBit \in Nat /\ Ids \subseteq 1 .. 2 * TopBit - 1
    /\ CacheSize \in Nat \ {0} /\ Expiries \subseteq Int
    /\ MaxNow \in Nat /\ Second \in 1 .. MaxNow

(* What the parser and the cases of the switch take out of a message.  The *)
(* numbers of a _pull are what Sscanf reads, its defaults among them; find *)
(* is the identifier asked for, 0 for any.                                 *)
ASSUME RequestAssumption ==
    \A r \in Requests :
        /\ r.id \in Ids /\ r.tail \in Tails
        /\ r.route \in {"_create", "_token_generate"} => r.name \in Users \union {None}
        /\ r.route \in {"push", "_pull"} => r.inbox \in Users \union SharedRoutes
        /\ r.route = "_pull" => /\ r.limit \in Int /\ r.offset \in Int
                               /\ r.after \in Nat /\ r.before \in Nat /\ r.find \in Nat
        /\ r.route = "_cfm_upload" => r.public \in BOOLEAN /\ r.expire \in Expiries

VARIABLES
    pc, req, user, reply, stamp,        \* the connections' local state
    entries, order,                     \* the idempotency cache
    tokens, tails,                      \* the token store
    accounts,                           \* the users that have an account
    messages,                           \* the message store
    cfms, disk,                         \* the file store
    now, sweep,                         \* clock, state of the cleanup loop
    up,                                 \* the process runs
    received                            \* messages received so far

localVars == <<pc, req, user, reply, stamp>>
cacheVars == <<entries, order>>
tokenVars == <<tokens, tails>>
fileVars  == <<cfms, disk>>
envVars   == <<now, sweep, received, up>>
vars == <<localVars, cacheVars, tokenVars, accounts, messages, fileVars, envVars>>

Inboxes == Users \union SharedRoutes

(* cfID := msgID | (1 << 63)                                               *)
CfmId(id) == IF id < TopBit THEN id + TopBit ELSE id

KeyOnId(r) == <<r.id, CHOOSE tail \in Tails : TRUE>>

(* The idempotency key.  Key's "%x:%s" is one-to-one.                      *)
Key(r) == <<r.id, r.tail>>

Pol == INSTANCE Policy
Tok == INSTANCE TokenStore WITH MaxListed <- MaxRequests
Msg == INSTANCE MessageStore WITH
          Routes <- Inboxes, Senders <- Tails, clock <- now, MaxClock <- MaxNow,
          MaxDelay <- MaxNow, LastStore <- MaxNow, MaxStored <- MaxRequests
Cfm == INSTANCE CFMStore WITH
          CfmIds <- {CfmId(id) : id \in Ids}, Uploaders <- Users, LastSave <- MaxNow

(* What the server answers.                                                *)
Codes == {1006, 1007, 5002, 6001, 6002, 6003, 6005}
Replies ==
    [error : Codes]
    \union [stored : Ids]
    \union [from : Inboxes, pulled : Seq(Msg!Message)]
    \union [latest : Ids \union {0}]
    \union [cfm : Nat]
    \union [file : Cfm!File]
    \union [minted : Tails]
    \union [created : Users, token : Tails]
    \union [listed : Seq(Tails)]
    \union [revoked : Tails]
    \union [accounts : SUBSET Users]

Cache == INSTANCE IdempotencyCache WITH
          Keys <- Ids \X Tails, Responses <- Replies, MaxSize <- CacheSize

-----------------------------------------------------------------------------

Init ==
    /\ pc = [c \in Conns |-> "idle"]
    /\ req = [c \in Conns |-> None]
    /\ user = [c \in Conns |-> None]
    /\ reply = [c \in Conns |-> None]
    /\ stamp = [c \in Conns |-> 0]
    /\ Cache!CacheInit
    /\ Tok!TokenInit
    /\ accounts = {}
    /\ Msg!MessageInit
    /\ cfms = [id \in {} |-> id] /\ disk = [id \in {} |-> id]
    /\ sweep = "messages"
    /\ received = 0
    /\ up = TRUE

At(c, label) == pc[c] = label
Goto(c, label) == pc' = [pc EXCEPT ![c] = label]

(* The response is computed; it goes into the cache next.                  *)
Respond(c, r) ==
    /\ reply' = [reply EXCEPT ![c] = r]
    /\ Goto(c, "put")
    /\ UNCHANGED <<req, user, stamp>>

Error(code) == [error |-> code]

(* The parser on connection c has completed a message.                     *)
Receive(c) ==
    /\ At(c, "idle")
    /\ received < MaxRequests
    /\ \E r \in Requests : req' = [req EXCEPT ![c] = r]
    /\ Goto(c, "lookup")
    /\ received' = received + 1
    /\ UNCHANGED <<user, reply, stamp, now, sweep, up>>
    /\ UNCHANGED <<cacheVars, tokenVars, accounts, messages, fileVars>>

LookupTokenSwapped(c) ==
    /\ At(c, "lookup")
    /\ LET tail == req[c].tail
       IN  user' = [user EXCEPT ![c] = IF tail \in Tok!Live THEN tail ELSE None]
    /\ Goto(c, "cache")
    /\ UNCHANGED <<req, reply, stamp>>
    /\ UNCHANGED <<cacheVars, tokenVars, accounts, messages, fileVars, envVars>>

(* tokens.Lookup: the user is not looked up again later.                   *)
LookupToken(c) ==
    /\ At(c, "lookup")
    /\ LET tail == req[c].tail
       IN  user' = [user EXCEPT ![c] = IF tail \in Tok!Live THEN tokens[tail] ELSE None]
    /\ Goto(c, "cache")
    /\ UNCHANGED <<req, reply, stamp>>
    /\ UNCHANGED <<cacheVars, tokenVars, accounts, messages, fileVars, envVars>>

(* cache.Get finds the key: its response is written, nothing is checked.   *)
Replay(c) ==
    /\ At(c, "cache")
    /\ Cache!Hit(Key(req[c]))
    /\ reply' = [reply EXCEPT ![c] = entries[Key(req[c])]]
    /\ Goto(c, "write")
    /\ UNCHANGED <<req, user, stamp>>
    /\ UNCHANGED <<tokenVars, accounts, messages, fileVars, envVars>>

Miss(c) ==
    /\ At(c, "cache")
    /\ Key(req[c]) \notin Cache!Resident
    /\ Goto(c, "dispatch")
    /\ UNCHANGED <<req, user, reply, stamp>>
    /\ UNCHANGED <<cacheVars, tokenVars, accounts, messages, fileVars, envVars>>

-----------------------------------------------------------------------------
(* authorizeCommand and authorizeInbox.                                    *)

UnknownToken(r, u) == r.route # "_create" /\ u = None

CommandDenied(r, u) == r.route # "_create" /\ ~Pol!CommandAllowed(Config, u, r.route)

ForeignInboxOfPush(r, u) == r.route = "push" /\ r.inbox \in Users /\ r.inbox # u

ForeignInboxOfPull(r, u) == r.route = "_pull" /\ r.inbox \in Users /\ r.inbox # u

ForeignInbox(r, u) == r.route \in {"push", "_pull"} /\ r.inbox \in Users /\ r.inbox # u

Admitted(r, u) ==
    ~UnknownToken(r, u) /\ ~CommandDenied(r, u) /\ ~ForeignInbox(r, u)

Rejection(r, u) ==
    IF UnknownToken(r, u) THEN 1007 ELSE IF CommandDenied(r, u) THEN 6005 ELSE 1006

RefuseSilently(c) ==
    /\ At(c, "dispatch")
    /\ ~Admitted(req[c], user[c])
    /\ Goto(c, "idle")
    /\ UNCHANGED <<req, user, reply, stamp>>
    /\ UNCHANGED <<cacheVars, tokenVars, accounts, messages, fileVars, envVars>>

(* A rejection goes through the cache like every other response.           *)
Refuse(c) ==
    /\ At(c, "dispatch")
    /\ ~Admitted(req[c], user[c])
    /\ Respond(c, Error(Rejection(req[c], user[c])))
    /\ UNCHANGED <<cacheVars, tokenVars, accounts, messages, fileVars, envVars>>

(* Connection c is at the case of the switch for this route.               *)
Serves(c, route) ==
    /\ At(c, "dispatch")
    /\ req[c].route = route
    /\ Admitted(req[c], user[c])

(* handlePull: the filters and the page that the message asks for.         *)
Pull(c) ==
    /\ Serves(c, "_pull")
    /\ req[c].offset >= 0
    /\ LET r == req[c]
       IN  \E found \in Msg!Query(r.inbox, r.limit, r.offset, r.after, r.before, r.find) :
              Respond(c, [from |-> r.inbox, pulled |-> found])
    /\ UNCHANGED <<cacheVars, tokenVars, accounts, messages, fileVars, envVars>>

(* A negative offset is out of the range of Query's slice.  Nothing        *)
(* recovers from the panic, which ends the process.                        *)
Panic(c) ==
    /\ Serves(c, "_pull")
    /\ req[c].offset < 0
    /\ up' = FALSE
    /\ UNCHANGED <<localVars, cacheVars, tokenVars, accounts, messages, fileVars>>
    /\ UNCHANGED <<now, sweep, received>>

Watch(c) ==
    /\ Serves(c, "_watch")
    /\ Respond(c, [latest |-> Msg!LatestID(user[c])])
    /\ UNCHANGED <<cacheVars, tokenVars, accounts, messages, fileVars, envVars>>

(* handleCFMUpload: any error of Save is answered with 5002 and cached.    *)
Upload(c) ==
    /\ Serves(c, "_cfm_upload")
    /\ LET r  == req[c]
           id == CfmId(r.id)
       IN  \/ /\ ~Cfm!TooLarge(r.size)
              /\ Cfm!SaveDone(id, user[c], r.public, r.expire)
              /\ Respond(c, [cfm |-> id])
           \/ /\ ~Cfm!TooLarge(r.size)
              /\ Cfm!SaveTorn(id, user[c], r.public) \/ UNCHANGED <<fileVars, now>>
              /\ Respond(c, Error(5002))
           \/ /\ Cfm!TooLarge(r.size)
              /\ Respond(c, Error(5002))
              /\ UNCHANGED <<fileVars, now>>
    /\ UNCHANGED <<cacheVars, tokenVars, accounts, messages, sweep, received, up>>

Download(c) ==
    /\ Serves(c, "_cfm_download")
    /\ LET id == req[c].file
       IN  \/ Cfm!LoadExpired(id) /\ Respond(c, Error(5002))
           \/ /\ ~(id \in Cfm!Indexed /\ Cfm!HasExpired(id))
              /\ IF Cfm!Loaded(id, user[c]) = "file"
                   THEN Respond(c, [file |-> disk[id]])
                   ELSE Respond(c, Error(5002))
              /\ UNCHANGED <<fileVars, now>>
    /\ UNCHANGED <<cacheVars, tokenVars, accounts, messages, sweep, received, up>>

(* What _create and _token_generate reject before they touch a store; the  *)
(* name None stands for a name that is missing or blank.                   *)
BadName(r) == r.name = None

RefuseName(c) ==
    /\ Serves(c, "_create") \/ Serves(c, "_token_generate")
    /\ \/ BadName(req[c]) /\ Respond(c, Error(6002))
       \/ /\ ~BadName(req[c]) /\ ~Pol!HasAccess(Config, req[c].name)
          /\ Respond(c, Error(6001))
    /\ UNCHANGED <<cacheVars, tokenVars, accounts, messages, fileVars, envVars>>

GoodNameOfAnybody(r) == ~BadName(r)

GoodName(r) == ~BadName(r) /\ Pol!HasAccess(Config, r.name)

GenerateToken(c) ==
    /\ Serves(c, "_token_generate")
    /\ GoodName(req[c])
    /\ \E tail \in Tails :
          /\ Tok!Generate(req[c].name, tail)
          /\ Respond(c, [minted |-> tail])
    /\ UNCHANGED <<cacheVars, accounts, messages, fileVars, envVars>>

ListTokens(c) ==
    /\ Serves(c, "_token_list")
    /\ Respond(c, [listed |-> tails])
    /\ UNCHANGED <<cacheVars, tokenVars, accounts, messages, fileVars, envVars>>

RevokeToken(c) ==
    /\ Serves(c, "_token_revoke")
    /\ LET tail == req[c].victim
       IN  \/ Tok!Revoke(tail) /\ Respond(c, [revoked |-> tail])
           \/ /\ tail \notin Tok!Live
              /\ Respond(c, Error(1007))
              /\ UNCHANGED tokenVars
    /\ UNCHANGED <<cacheVars, accounts, messages, fileVars, envVars>>

CheckAccountReserving(c) ==
    /\ Serves(c, "_create")
    /\ GoodName(req[c])
    /\ IF req[c].name \in accounts
         THEN Respond(c, Error(6003)) /\ UNCHANGED accounts
         ELSE /\ accounts' = accounts \union {req[c].name}
              /\ Goto(c, "mint") /\ UNCHANGED <<req, user, reply, stamp>>
    /\ UNCHANGED <<cacheVars, tokenVars, messages, fileVars, envVars>>

(* _create: accounts.Get, then tokens.Generate, then accounts.Create.      *)
CheckAccount(c) ==
    /\ Serves(c, "_create")
    /\ GoodName(req[c])
    /\ IF req[c].name \in accounts
         THEN Respond(c, Error(6003))
         ELSE Goto(c, "mint") /\ UNCHANGED <<req, user, reply, stamp>>
    /\ UNCHANGED <<cacheVars, tokenVars, accounts, messages, fileVars, envVars>>

Mint(c) ==
    /\ At(c, "mint")
    /\ \E tail \in Tails :
          /\ Tok!Generate(req[c].name, tail)
          /\ reply' = [reply EXCEPT ![c] = [created |-> req[c].name, token |-> tail]]
    /\ Goto(c, "enrol")
    /\ UNCHANGED <<req, user, stamp>>
    /\ UNCHANGED <<cacheVars, accounts, messages, fileVars, envVars>>

EnrolReplacingAll(c) ==
    /\ At(c, "enrol")
    /\ accounts' = {req[c].name}
    /\ Goto(c, "put")
    /\ UNCHANGED <<req, user, reply, stamp>>
    /\ UNCHANGED <<cacheVars, tokenVars, messages, fileVars, envVars>>

(* accounts.Create replaces an account that is there.                      *)
Enrol(c) ==
    /\ At(c, "enrol")
    /\ accounts' = accounts \union {req[c].name}
    /\ Goto(c, "put")
    /\ UNCHANGED <<req, user, reply, stamp>>
    /\ UNCHANGED <<cacheVars, tokenVars, messages, fileVars, envVars>>

ListAccounts(c) ==
    /\ Serves(c, "_list")
    /\ Respond(c, [accounts |-> accounts])
    /\ UNCHANGED <<cacheVars, tokenVars, accounts, messages, fileVars, envVars>>

(* The default case: the timestamp is read, then the message is stored.    *)
StampPush(c) ==
    /\ Serves(c, "push")
    /\ stamp' = [stamp EXCEPT ![c] = now]
    /\ Goto(c, "store")
    /\ UNCHANGED <<req, user, reply>>
    /\ UNCHANGED <<cacheVars, tokenVars, accounts, messages, fileVars, envVars>>

StorePushOncePerId(c) ==
    /\ At(c, "store")
    /\ LET r == req[c]
       IN  /\ IF \E i \in DOMAIN messages[r.inbox] : messages[r.inbox][i].id = r.id
                THEN UNCHANGED <<messages, now>>
                ELSE Msg!Store(r.inbox, [id |-> r.id, sender |-> r.tail, stamp |-> stamp[c]])
           /\ Respond(c, [stored |-> r.id])
    /\ UNCHANGED <<cacheVars, tokenVars, accounts, fileVars, sweep, received, up>>

StorePush(c) ==
    /\ At(c, "store")
    /\ LET r == req[c]
       IN  /\ Msg!Store(r.inbox, [id |-> r.id, sender |-> r.tail, stamp |-> stamp[c]])
           /\ Respond(c, [stored |-> r.id])
    /\ UNCHANGED <<cacheVars, tokenVars, accounts, fileVars, sweep, received, up>>

-----------------------------------------------------------------------------

PutReplyUncached(c) ==
    /\ At(c, "put")
    /\ Goto(c, "write")
    /\ UNCHANGED <<req, user, reply, stamp>>
    /\ UNCHANGED <<cacheVars, tokenVars, accounts, messages, fileVars, envVars>>

PutReply(c) ==
    /\ At(c, "put")
    /\ Cache!Put(Key(req[c]), reply[c])
    /\ Goto(c, "write")
    /\ UNCHANGED <<req, user, reply, stamp>>
    /\ UNCHANGED <<tokenVars, accounts, messages, fileVars, envVars>>

(* conn.Write; its error is not looked at, and it has no deadline.  The    *)
(* handler's locals are gone.                                              *)
Write(c) ==
    /\ At(c, "write")
    /\ Goto(c, "idle")
    /\ req' = [req EXCEPT ![c] = None]
    /\ user' = [user EXCEPT ![c] = None]
    /\ reply' = [reply EXCEPT ![c] = None]
    /\ stamp' = [stamp EXCEPT ![c] = 0]
    /\ UNCHANGED <<cacheVars, tokenVars, accounts, messages, fileVars, envVars>>

(* The cleanup loop sweeps the messages, then the files.                   *)
SweepMessages ==
    /\ sweep = "messages"
    /\ Msg!Cleanup
    /\ sweep' = "files"
    /\ UNCHANGED <<localVars, cacheVars, tokenVars, accounts, fileVars, received, up>>

SweepFiles ==
    /\ sweep = "files"
    /\ Cfm!CfmCleanup
    /\ sweep' = "messages"
    /\ UNCHANGED <<localVars, cacheVars, tokenVars, accounts, messages, received, up>>

Tick ==
    /\ now < MaxNow
    /\ now' = now + 1
    /\ UNCHANGED <<localVars, cacheVars, tokenVars, accounts, messages, fileVars>>
    /\ UNCHANGED <<sweep, received, up>>

(* The steps a handler takes until it has an answer to write.              *)
Work(c) ==
    \/ LookupToken(c) \/ Replay(c) \/ Miss(c)
    \/ Refuse(c) \/ RefuseName(c)
    \/ Pull(c) \/ Panic(c) \/ Watch(c) \/ Upload(c) \/ Download(c)
    \/ GenerateToken(c) \/ ListTokens(c) \/ RevokeToken(c)
    \/ CheckAccount(c) \/ Mint(c) \/ Enrol(c) \/ ListAccounts(c)
    \/ StampPush(c) \/ StorePush(c)
    \/ PutReply(c)

Next ==
    /\ up
    /\ \/ \E c \in Conns : Receive(c) \/ Work(c) \/ Write(c)
       \/ SweepMessages \/ SweepFiles
       \/ Tick

Spec == Init /\ [][Next]_vars

(* Go runs every goroutine that can run, and the mutexes are released on   *)
(* return, so no step of a handler waits for another handler.  A Write may *)
(* wait for its client for ever: nothing is assumed of it.                 *)
FairSpec == Spec /\ \A c \in Conns : WF_vars(up /\ Work(c))

=============================================================================
