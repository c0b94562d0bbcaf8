--------------------------- MODULE HandlerProofs ---------------------------
(***************************************************************************)
(* What the handlers promise, for any number of connections, users, tails  *)
(* and messages, any policy and any cache.  Every answer a connection      *)
(* writes or the cache keeps was computed for a request with the same      *)
(* identifier and tail, and it shows the tail no more than a user it was   *)
(* bound to may see; what lies in an inbox was pushed by its owner, and    *)
(* what was acknowledged the store has taken.  Where no two connections    *)
(* hold one message and the cache has room for all keys, every key is      *)
(* executed once, as OnceOnly asks; and where no two of them create one    *)
(* user at a time, each user is created once.                              *)
(***************************************************************************)
EXTENDS HandlerHistory, SequenceLemmas

Labels ==
    {"idle", "lookup", "cache", "dispatch", "store", "mint", "enrol", "put", "write"}

(* A connection's locals at a label: who is past the checks of the switch  *)
(* has passed them with the user of the lookup, and a reply is there once  *)
(* it was computed.                                                        *)
LocalOK(label, r, u, answer) ==
    /\ label \in Labels
    /\ label # "idle" => r \in Requests
    /\ label \in {"idle", "lookup"} => u = None
    /\ label \notin {"enrol", "put", "write"} => answer = None
    /\ label = "store" => r.route = "push" /\ Admitted(r, u)
    /\ label \in {"mint", "enrol"} => r.route = "_create" /\ GoodName(r)
    /\ label = "enrol" => DOMAIN answer = {"created", "token"}
    /\ label = "put" => \/ "error" \in DOMAIN answer \/ r.route = "_create"
                       \/ Admitted(r, u)

LocalsOK ==
    /\ DOMAIN pc = Conns /\ DOMAIN req = Conns /\ DOMAIN user = Conns
    /\ DOMAIN reply = Conns
    /\ \A c \in Conns : LocalOK(pc[c], req[c], user[c], reply[c])

(* The user of a handler had the message's tail, whatever became of it.    *)
UsersBound ==
    \A c \in Conns : user[c] # None => <<req[c].tail, user[c]>> \in bound

(* What an answer shows to the tail of its identity k, by the bindings b.  *)
AnswerOK(b, k, r) ==
    /\ "from" \in DOMAIN r /\ r.from \in Users => <<k[2], r.from>> \in b
    /\ "file" \in DOMAIN r /\ r.file.whole /\ ~r.file.public => <<k[2], r.file.by>> \in b

AnswersOK == \A a \in answered : AnswerOK(bound, a[1], a[2])

(* Replies at "put" are on their way into the cache.                       *)
RepliesKnown ==
    \A c \in Conns : pc[c] \in {"put", "write"} => <<Identity(req[c]), reply[c]>> \in answered

EntriesKnown == \A k \in Cache!Resident : <<k, entries[k]>> \in answered

TokensBound == \A t \in DOMAIN tokens : <<t, tokens[t]>> \in bound

BoundOK ==
    \A b \in bound : b[2] \in Users /\ Pol!HasAccess(Config, b[2])

AccountsOK ==
    /\ \A u \in accounts : Pol!HasAccess(Config, u) /\ \E t \in Tails : <<t, u>> \in bound
    /\ \A c \in Conns : pc[c] = "enrol" => \E t \in Tails : <<t, req[c].name>> \in bound

HandlerInv ==
    /\ LocalsOK /\ UsersBound /\ AnswersOK /\ RepliesKnown /\ EntriesKnown
    /\ TokensBound /\ BoundOK /\ AccountsOK /\ Cfm!FileMatchesEntry

-----------------------------------------------------------------------------

LEMMA HandlerInit_Inv == HistoryInit => HandlerInv
<1> SUFFICES ASSUME HistoryInit PROVE HandlerInv
  OBVIOUS
<1> USE DEF HistoryInit, Init
<1>1. LocalsOK
  BY DEF LocalsOK, LocalOK, Labels
<1>2. UsersBound /\ AnswersOK /\ RepliesKnown /\ BoundOK /\ AccountsOK
  BY DEF UsersBound, AnswersOK, RepliesKnown, BoundOK, AccountsOK
<1>3. EntriesKnown /\ TokensBound
  BY DEF EntriesKnown, TokensBound, Cache!CacheInit, Cache!Resident, Tok!TokenInit
<1>4. Cfm!FileMatchesEntry
  BY DEF Cfm!FileMatchesEntry, Cfm!Indexed, Cfm!OnDisk
<1> QED
  BY <1>1, <1>2, <1>3, <1>4 DEF HandlerInv

(* History only grows.                                                     *)
LEMMA HistoryGrows ==
  ASSUME Record
  PROVE  bound \subseteq bound' /\ answered \subseteq answered'
BY DEF Record

(* What a tail may be shown it may be shown for ever.                      *)
LEMMA AnswerStays ==
  ASSUME NEW b, NEW more, b \subseteq more, NEW k, NEW r, AnswerOK(b, k, r)
  PROVE  AnswerOK(more, k, r)
BY DEF AnswerOK

(* The steps of a connection.                                              *)
Moves(c) == Receive(c) \/ Work(c) \/ Write(c)

(* Connection c takes a step; the others' locals stay as they are.         *)
LocalStep(c) ==
    /\ DOMAIN pc' = Conns /\ DOMAIN req' = Conns /\ DOMAIN user' = Conns
    /\ DOMAIN reply' = Conns
    /\ \A d \in Conns \ {c} :
          pc'[d] = pc[d] /\ req'[d] = req[d] /\ user'[d] = user[d] /\ reply'[d] = reply[d]

(* What is to be shown of the connection that takes a step.                *)
LEMMA StepKeepsLocals ==
  ASSUME HandlerInv, Record, NEW c \in Conns, LocalStep(c),
         LocalOK(pc'[c], req'[c], user'[c], reply'[c]),
         user'[c] # None => <<req'[c].tail, user'[c]>> \in bound',
         pc'[c] = "put" =>
            /\ pc[c] # "put" /\ req'[c] = req[c]
            /\ AnswerOK(bound', Identity(req[c]), reply'[c]),
         pc'[c] = "write" => <<Identity(req'[c]), reply'[c]>> \in answered
  PROVE  LocalsOK' /\ UsersBound' /\ AnswersOK' /\ RepliesKnown'
<1>1. LocalsOK'
  BY DEF LocalStep, HandlerInv, LocalsOK
<1>2. UsersBound'
  BY HistoryGrows DEF LocalStep, HandlerInv, UsersBound
<1>3. \A d \in Finishing : d = c /\ pc'[c] = "put"
  BY DEF Finishing, LocalStep
<1>4. pc'[c] = "put" => <<Identity(req[c]), reply'[c]>> \in answered'
  BY DEF Record, Finishing
<1>5. RepliesKnown'
  <2> SUFFICES ASSUME NEW d \in Conns, pc'[d] \in {"put", "write"}
               PROVE  <<Identity(req[d]), reply[d]>>' \in answered'
    BY DEF RepliesKnown
  <2>1. CASE d = c
    BY <2>1, <1>4, HistoryGrows DEF Identity
  <2>2. CASE d # c
    BY <2>2, HistoryGrows DEF LocalStep, HandlerInv, RepliesKnown, Identity
  <2> QED
    BY <2>1, <2>2
<1>6. AnswersOK'
  <2> SUFFICES ASSUME NEW a \in answered' PROVE AnswerOK(bound', a[1], a[2])
    BY DEF AnswersOK
  <2>1. CASE a \in answered
    BY <2>1, HistoryGrows, AnswerStays DEF HandlerInv, AnswersOK
  <2>2. CASE a \notin answered
    <3>1. PICK d \in Finishing : a = <<Identity(req[d]), reply'[d]>>
      BY <2>2 DEF Record
    <3>2. d = c /\ pc'[c] = "put" /\ a[1] = Identity(req[c]) /\ a[2] = reply'[c]
      BY <3>1, <1>3
    <3> QED
      BY <3>2
  <2> QED
    BY <2>1, <2>2
<1> QED
  BY <1>1, <1>2, <1>5, <1>6

(* The premises of StepKeepsLocals, for the actions below.                 *)
StepOK(c) ==
    /\ LocalStep(c)
    /\ LocalOK(pc'[c], req'[c], user'[c], reply'[c])
    /\ user'[c] # None => <<req'[c].tail, user'[c]>> \in bound'
    /\ pc'[c] = "put" =>
          /\ pc[c] # "put" /\ req'[c] = req[c]
          /\ AnswerOK(bound', Identity(req[c]), reply'[c])
    /\ pc'[c] = "write" => <<Identity(req'[c]), reply'[c]>> \in answered

-----------------------------------------------------------------------------
(* The steps that compute no answer.                                       *)

LEMMA ReceiveStep ==
  ASSUME HandlerInv, Record, NEW c \in Conns, Receive(c)
  PROVE  StepOK(c)
<1>1. PICK r \in Requests : req' = [req EXCEPT ![c] = r]
  BY DEF Receive
<1>2. LocalStep(c)
  BY <1>1 DEF Receive, Goto, HandlerInv, LocalsOK, LocalStep
<1>3. /\ pc[c] = "idle" /\ pc'[c] = "lookup" /\ req'[c] = r
      /\ user'[c] = user[c] /\ reply'[c] = reply[c]
  BY <1>1 DEF Receive, At, Goto, HandlerInv, LocalsOK
<1>4. user[c] = None /\ reply[c] = None
  BY <1>3 DEF HandlerInv, LocalsOK, LocalOK
<1> QED
  BY <1>2, <1>3, <1>4 DEF StepOK, LocalOK, Labels

LEMMA LookupStep ==
  ASSUME HandlerInv, Record, NEW c \in Conns, LookupToken(c)
  PROVE  StepOK(c)
<1>1. LocalStep(c)
  BY DEF LookupToken, Goto, HandlerInv, LocalsOK, LocalStep
<1>2. /\ pc[c] = "lookup" /\ pc'[c] = "cache" /\ req'[c] = req[c] /\ reply'[c] = reply[c]
      /\ user'[c] # None => req[c].tail \in DOMAIN tokens /\ user'[c] = tokens[req[c].tail]
  BY DEF LookupToken, At, Goto, Tok!Live, HandlerInv, LocalsOK
<1>3. user'[c] # None => <<req'[c].tail, user'[c]>> \in bound'
  BY <1>2, HistoryGrows DEF HandlerInv, TokensBound
<1>4. req[c] \in Requests /\ reply[c] = None
  BY <1>2 DEF HandlerInv, LocalsOK, LocalOK
<1> QED
  BY <1>1, <1>2, <1>3, <1>4 DEF StepOK, LocalOK, Labels

LEMMA ReplayStep ==
  ASSUME HandlerInv, Record, NEW c \in Conns, Replay(c)
  PROVE  StepOK(c)
<1>1. LocalStep(c)
  BY DEF Replay, Goto, HandlerInv, LocalsOK, LocalStep
<1>2. /\ pc[c] = "cache" /\ pc'[c] = "write" /\ req'[c] = req[c] /\ user'[c] = user[c]
      /\ reply'[c] = entries[Key(req[c])] /\ Key(req[c]) \in Cache!Resident
  BY DEF Replay, At, Goto, Cache!Hit, HandlerInv, LocalsOK
<1>3. <<Identity(req'[c]), reply'[c]>> \in answered
  BY <1>2 DEF HandlerInv, EntriesKnown, Key, Identity
<1>4. req[c] \in Requests
  BY <1>2 DEF HandlerInv, LocalsOK, LocalOK
<1>5. user[c] # None => <<req[c].tail, user[c]>> \in bound'
  BY HistoryGrows DEF HandlerInv, UsersBound
<1> QED
  BY <1>1, <1>2, <1>3, <1>4, <1>5 DEF StepOK, LocalOK, Labels

LEMMA QuietStep ==
  ASSUME HandlerInv, Record, NEW c \in Conns,
         \/ Miss(c) \/ StampPush(c) \/ PutReply(c)
         \/ CheckAccount(c) /\ Goto(c, "mint") /\ UNCHANGED <<req, user, reply>>
  PROVE  StepOK(c)
<1>1. /\ UNCHANGED <<req, user, reply>>
      /\ \/ pc[c] = "cache" /\ pc' = [pc EXCEPT ![c] = "dispatch"]
         \/ pc[c] = "dispatch" /\ pc' = [pc EXCEPT ![c] = "store"] /\ StampPush(c)
         \/ pc[c] = "put" /\ pc' = [pc EXCEPT ![c] = "write"]
         \/ pc[c] = "dispatch" /\ pc' = [pc EXCEPT ![c] = "mint"] /\ CheckAccount(c)
  BY DEF Miss, StampPush, PutReply, CheckAccount, Serves, At, Goto
<1>2. LocalStep(c) /\ pc'[c] \notin {"idle", "lookup", "put", "enrol"}
  BY <1>1 DEF HandlerInv, LocalsOK, LocalStep
<1>3. pc'[c] = "store" => req[c].route = "push" /\ Admitted(req[c], user[c])
  BY <1>1 DEF HandlerInv, LocalsOK, StampPush, Serves
<1>4. pc'[c] = "mint" => req[c].route = "_create" /\ GoodName(req[c])
  BY <1>1 DEF HandlerInv, LocalsOK, CheckAccount, Serves
<1>5. req[c] \in Requests /\ (pc'[c] # "write" => reply[c] = None)
  BY <1>1 DEF HandlerInv, LocalsOK, LocalOK
<1>6. pc'[c] \in Labels
  BY <1>1 DEF HandlerInv, LocalsOK, Labels
<1>7. pc'[c] = "write" => <<Identity(req[c]), reply[c]>> \in answered
  BY <1>1 DEF HandlerInv, LocalsOK, RepliesKnown
<1>8. user[c] # None => <<req[c].tail, user[c]>> \in bound'
  BY HistoryGrows DEF HandlerInv, UsersBound
<1>9. LocalOK(pc'[c], req'[c], user'[c], reply'[c])
  BY <1>1, <1>2, <1>3, <1>4, <1>5, <1>6 DEF LocalOK
<1> QED
  BY <1>1, <1>2, <1>7, <1>8, <1>9 DEF StepOK

LEMMA PanicStep ==
  ASSUME HandlerInv, Record, NEW c \in Conns, Panic(c)
  PROVE  StepOK(c)
<1>1. UNCHANGED <<pc, req, user, reply>> /\ pc[c] = "dispatch"
  BY DEF Panic, localVars, Serves, At
<1>2. LocalStep(c) /\ LocalOK(pc'[c], req'[c], user'[c], reply'[c])
  BY <1>1 DEF HandlerInv, LocalsOK, LocalStep
<1>3. user'[c] # None => <<req'[c].tail, user'[c]>> \in bound'
  BY <1>1, HistoryGrows DEF HandlerInv, UsersBound
<1> QED
  BY <1>1, <1>2, <1>3 DEF StepOK

LEMMA WriteStep ==
  ASSUME HandlerInv, Record, NEW c \in Conns, Write(c)
  PROVE  StepOK(c)
<1>1. LocalStep(c)
  BY DEF Write, Goto, HandlerInv, LocalsOK, LocalStep
<1>2. pc'[c] = "idle" /\ user'[c] = None /\ reply'[c] = None
  BY DEF Write, Goto, HandlerInv, LocalsOK
<1> QED
  BY <1>1, <1>2 DEF StepOK, LocalOK, Labels

-----------------------------------------------------------------------------
(* The steps that compute an answer.                                       *)

LEMMA RespondStep ==
  ASSUME HandlerInv, Record, NEW c \in Conns, pc[c] \in {"dispatch", "store"},
         NEW r, Respond(c, r), AnswerOK(bound', Identity(req[c]), r),
         "error" \in DOMAIN r \/ Admitted(req[c], user[c])
  PROVE  StepOK(c)
<1>1. LocalStep(c)
  BY DEF Respond, Goto, HandlerInv, LocalsOK, LocalStep
<1>2. pc'[c] = "put" /\ req'[c] = req[c] /\ user'[c] = user[c] /\ reply'[c] = r
  BY DEF Respond, Goto, HandlerInv, LocalsOK
<1>3. req[c] \in Requests
  BY DEF HandlerInv, LocalsOK, LocalOK
<1>4. user[c] # None => <<req[c].tail, user[c]>> \in bound'
  BY HistoryGrows DEF HandlerInv, UsersBound
<1> QED
  BY <1>1, <1>2, <1>3, <1>4 DEF StepOK, LocalOK, Labels

(* Who was admitted to a route other than _create had the message's tail.  *)
LEMMA AdmittedUser ==
  ASSUME HandlerInv, Record, NEW c \in Conns,
         Admitted(req[c], user[c]), req[c].route # "_create"
  PROVE  user[c] \in Users /\ <<Identity(req[c])[2], user[c]>> \in bound'
<1>1. user[c] # None
  BY DEF Admitted, UnknownToken
<1>2. <<req[c].tail, user[c]>> \in bound
  BY <1>1 DEF HandlerInv, UsersBound
<1>3. user[c] \in Users
  BY <1>2 DEF HandlerInv, BoundOK
<1> QED
  BY <1>1, <1>2, <1>3, HistoryGrows DEF Identity

LEMMA ErrorsShowNothing ==
  ASSUME NEW b, NEW k, NEW code
  PROVE  AnswerOK(b, k, Error(code)) /\ "error" \in DOMAIN Error(code)
BY DEF AnswerOK, Error

(* An answer that shows nobody's inbox or file.                            *)
LEMMA PlainAnswer ==
  ASSUME NEW b, NEW k, NEW r, "from" \notin DOMAIN r, "file" \notin DOMAIN r
  PROVE  AnswerOK(b, k, r)
BY DEF AnswerOK

LEMMA RefuseStep ==
  ASSUME HandlerInv, Record, NEW c \in Conns, Refuse(c) \/ RefuseName(c)
  PROVE  StepOK(c)
<1>1. pc[c] = "dispatch" /\ \E code \in Codes : Respond(c, Error(code))
  BY DEF Refuse, RefuseName, Serves, At, Rejection, Codes
<1> QED
  BY <1>1, RespondStep, ErrorsShowNothing

(* An inbox of a user is pulled by that user only.                         *)
LEMMA PullStep ==
  ASSUME HandlerInv, Record, NEW c \in Conns, Pull(c)
  PROVE  StepOK(c)
<1>1. /\ pc[c] = "dispatch" /\ req[c].route = "_pull" /\ Admitted(req[c], user[c])
      /\ \E found : Respond(c, [from |-> req[c].inbox, pulled |-> found])
  BY DEF Pull, Serves, At
<1>2. PICK found : Respond(c, [from |-> req[c].inbox, pulled |-> found])
  BY <1>1
<1> DEFINE r == [from |-> req[c].inbox, pulled |-> found]
<1>3. user[c] \in Users /\ <<Identity(req[c])[2], user[c]>> \in bound'
  BY <1>1, AdmittedUser
<1>4. req[c].inbox \in Users => req[c].inbox = user[c]
  BY <1>1 DEF Admitted, ForeignInbox
<1>5. DOMAIN r = {"from", "pulled"} /\ r.from = req[c].inbox
  OBVIOUS
<1> HIDE DEF r
<1>6. AnswerOK(bound', Identity(req[c]), r)
  BY <1>3, <1>4, <1>5 DEF AnswerOK
<1> QED
  BY <1>1, <1>2, <1>6, RespondStep DEF r

(* The other answers show nobody's inbox or file.                          *)
LEMMA PlainStep ==
  ASSUME HandlerInv, Record, NEW c \in Conns,
         \/ Watch(c) \/ ListTokens(c) \/ ListAccounts(c)
         \/ Upload(c) \/ RevokeToken(c) \/ GenerateToken(c) \/ StorePush(c)
  PROVE  StepOK(c)
<1>1. ASSUME NEW r, Respond(c, r), pc[c] \in {"dispatch", "store"},
             Admitted(req[c], user[c]), "from" \notin DOMAIN r, "file" \notin DOMAIN r
      PROVE  StepOK(c)
  BY <1>1, PlainAnswer, RespondStep
<1>2. ASSUME NEW code, Respond(c, Error(code)), pc[c] = "dispatch" PROVE StepOK(c)
  BY <1>2, ErrorsShowNothing, RespondStep
<1>3. CASE Watch(c)
  <2>1. /\ Serves(c, "_watch") /\ pc[c] = "dispatch"
        /\ Respond(c, [latest |-> Msg!LatestID(user[c])])
    BY <1>3 DEF Watch, Serves, At
  <2> QED
    BY <2>1, <1>1 DEF Serves
<1>4. CASE ListTokens(c)
  <2>1. Serves(c, "_token_list") /\ pc[c] = "dispatch" /\ Respond(c, [listed |-> tails])
    BY <1>4 DEF ListTokens, Serves, At
  <2> QED
    BY <2>1, <1>1 DEF Serves
<1>5. CASE ListAccounts(c)
  <2>1. Serves(c, "_list") /\ pc[c] = "dispatch" /\ Respond(c, [accounts |-> accounts])
    BY <1>5 DEF ListAccounts, Serves, At
  <2> QED
    BY <2>1, <1>1 DEF Serves
<1>6. CASE Upload(c)
  <2>1. /\ Serves(c, "_cfm_upload") /\ pc[c] = "dispatch"
        /\ \/ Respond(c, [cfm |-> CfmId(req[c].id)])
           \/ Respond(c, Error(5002))
    BY <1>6 DEF Upload, Serves, At
  <2> QED
    BY <2>1, <1>1, <1>2 DEF Serves
<1>7. CASE RevokeToken(c)
  <2>1. /\ Serves(c, "_token_revoke") /\ pc[c] = "dispatch"
        /\ \/ Respond(c, [revoked |-> req[c].victim])
           \/ Respond(c, Error(1007))
    BY <1>7 DEF RevokeToken, Serves, At
  <2> QED
    BY <2>1, <1>1, <1>2 DEF Serves
<1>8. CASE GenerateToken(c)
  <2>1. PICK tail \in Tails : Respond(c, [minted |-> tail])
    BY <1>8 DEF GenerateToken
  <2>2. Serves(c, "_token_generate") /\ pc[c] = "dispatch"
    BY <1>8 DEF GenerateToken, Serves, At
  <2> QED
    BY <2>1, <2>2, <1>1 DEF Serves
<1>9. CASE StorePush(c)
  <2>1. pc[c] = "store" /\ Respond(c, [stored |-> req[c].id])
    BY <1>9 DEF StorePush, At
  <2>2. req[c].route = "push" /\ Admitted(req[c], user[c])
    BY <2>1 DEF HandlerInv, LocalsOK, LocalOK
  <2> QED
    BY <2>1, <2>2, <1>1
<1> QED
  BY <1>3, <1>4, <1>5, <1>6, <1>7, <1>8, <1>9

(* A file is read with the check of its entry, which is right for a file   *)
(* that is complete.                                                       *)
LEMMA DownloadStep ==
  ASSUME HandlerInv, Record, NEW c \in Conns, Download(c)
  PROVE  StepOK(c)
<1> DEFINE id == req[c].file
           r == [file |-> disk[id]]
<1>1. pc[c] = "dispatch" /\ req[c].route = "_cfm_download" /\ Admitted(req[c], user[c])
  BY DEF Download, Serves, At
<1>2. \/ Respond(c, Error(5002))
      \/ Respond(c, r) /\ Cfm!Loaded(id, user[c]) = "file"
  BY DEF Download
<1>3. CASE Respond(c, Error(5002))
  BY <1>1, <1>3, ErrorsShowNothing, RespondStep
<1>4. CASE Respond(c, r) /\ Cfm!Loaded(id, user[c]) = "file"
  <2>1. id \in Cfm!Indexed /\ id \in Cfm!OnDisk /\ Cfm!MayRead(id, user[c])
    BY <1>4 DEF Cfm!Loaded
  <2>2. disk[id].whole =>
           disk[id] = Cfm!Content(cfms[id].uploader, cfms[id].public, TRUE)
    BY <2>1 DEF HandlerInv, Cfm!FileMatchesEntry
  <2>3. disk[id].whole /\ ~disk[id].public => disk[id].by = user[c]
    BY <2>1, <2>2 DEF Cfm!Content, Cfm!MayRead
  <2>4. user[c] \in Users /\ <<Identity(req[c])[2], user[c]>> \in bound'
    BY <1>1, AdmittedUser
  <2>5. DOMAIN r = {"file"} /\ r.file = disk[id]
    OBVIOUS
  <2> HIDE DEF r
  <2>6. AnswerOK(bound', Identity(req[c]), r)
    BY <2>3, <2>4, <2>5 DEF AnswerOK
  <2> QED
    BY <1>1, <1>4, <2>6, RespondStep
<1> QED
  BY <1>2, <1>3, <1>4

(* _create: the answer to it shows no more than the token it minted.       *)
LEMMA CreateStep ==
  ASSUME HandlerInv, Record, NEW c \in Conns, CheckAccount(c) \/ Mint(c) \/ Enrol(c)
  PROVE  StepOK(c)
<1>1. CASE CheckAccount(c)
  <2>1. \/ pc[c] = "dispatch" /\ Respond(c, Error(6003))
        \/ Goto(c, "mint") /\ UNCHANGED <<req, user, reply>>
    BY <1>1 DEF CheckAccount, Serves, At
  <2> QED
    BY <1>1, <2>1, ErrorsShowNothing, RespondStep, QuietStep
<1>2. CASE Mint(c)
  <2>1. PICK tail \in Tails :
           reply' = [reply EXCEPT ![c] = [created |-> req[c].name, token |-> tail]]
    BY <1>2 DEF Mint
  <2>2. LocalStep(c)
    BY <1>2, <2>1 DEF Mint, Goto, HandlerInv, LocalsOK, LocalStep
  <2>3. /\ pc[c] = "mint" /\ pc'[c] = "enrol" /\ req'[c] = req[c] /\ user'[c] = user[c]
        /\ reply'[c] = [created |-> req[c].name, token |-> tail]
    BY <1>2, <2>1 DEF Mint, At, Goto, HandlerInv, LocalsOK
  <2>4. req[c] \in Requests /\ req[c].route = "_create" /\ GoodName(req[c])
    BY <2>3 DEF HandlerInv, LocalsOK, LocalOK
  <2>5. user[c] # None => <<req[c].tail, user[c]>> \in bound'
    BY HistoryGrows DEF HandlerInv, UsersBound
  <2> QED
    BY <2>2, <2>3, <2>4, <2>5 DEF StepOK, LocalOK, Labels
<1>3. CASE Enrol(c)
  <2>1. LocalStep(c)
    BY <1>3 DEF Enrol, Goto, HandlerInv, LocalsOK, LocalStep
  <2>2. /\ pc[c] = "enrol" /\ pc'[c] = "put" /\ req'[c] = req[c] /\ user'[c] = user[c]
        /\ reply'[c] = reply[c]
    BY <1>3 DEF Enrol, At, Goto, HandlerInv, LocalsOK
  <2>3. /\ req[c] \in Requests /\ req[c].route = "_create"
        /\ DOMAIN reply[c] = {"created", "token"}
    BY <2>2 DEF HandlerInv, LocalsOK, LocalOK
  <2>4. user[c] # None => <<req[c].tail, user[c]>> \in bound'
    BY HistoryGrows DEF HandlerInv, UsersBound
  <2>5. AnswerOK(bound', Identity(req[c]), reply[c])
    BY <2>3 DEF AnswerOK
  <2> QED
    BY <2>1, <2>2, <2>3, <2>4, <2>5 DEF StepOK, LocalOK, Labels
<1> QED
  BY <1>1, <1>2, <1>3

LEMMA WorkStep ==
  ASSUME HandlerInv, Record, NEW c \in Conns, Moves(c)
  PROVE  StepOK(c)
BY ReceiveStep, LookupStep, ReplayStep, QuietStep, PanicStep, WriteStep, RefuseStep, PullStep,
   PlainStep, DownloadStep, CreateStep DEF Moves, Work

-----------------------------------------------------------------------------
(* The shared state.                                                       *)

(* What of the shared state a step of a connection may touch.              *)
LEMMA LeftAlone ==
  ASSUME NEW c \in Conns, Moves(c)
  PROVE  /\ PutReply(c) \/ UNCHANGED entries
         /\ GenerateToken(c) \/ Mint(c) \/ RevokeToken(c) \/ UNCHANGED tokens
         /\ Enrol(c) \/ UNCHANGED accounts
         /\ Upload(c) \/ Download(c) \/ UNCHANGED <<cfms, disk>>
<1> DEFINE Same == /\ UNCHANGED entries /\ UNCHANGED tokens
                   /\ UNCHANGED accounts /\ UNCHANGED <<cfms, disk>>
<1> USE DEF cacheVars, tokenVars, fileVars
<1>1. CASE Receive(c) \/ LookupToken(c) \/ Miss(c)
  <2>1. Same
    BY <1>1 DEF Receive, LookupToken, Miss
  <2> QED
    BY <2>1
<1>2. CASE Replay(c)
  <2>1. Same
    BY <1>2 DEF Replay, Cache!Hit
  <2> QED
    BY <2>1
<1>3. CASE Refuse(c) \/ RefuseName(c) \/ CheckAccount(c) \/ StampPush(c) \/ Write(c)
  <2>1. Same
    BY <1>3 DEF Refuse, RefuseName, CheckAccount, StampPush, Write
  <2> QED
    BY <2>1
<1>4. CASE Pull(c) \/ Panic(c) \/ Watch(c) \/ ListTokens(c) \/ ListAccounts(c)
  <2>1. Same
    BY <1>4 DEF Pull, Panic, Watch, ListTokens, ListAccounts
  <2> QED
    BY <2>1
<1>5. CASE StorePush(c)
  <2>1. Same
    BY <1>5 DEF StorePush
  <2> QED
    BY <2>1
<1>6. CASE PutReply(c)
  BY <1>6 DEF PutReply
<1>7. CASE GenerateToken(c) \/ Mint(c) \/ RevokeToken(c)
  BY <1>7 DEF GenerateToken, Mint, RevokeToken
<1>8. CASE Enrol(c)
  BY <1>8 DEF Enrol
<1>9. CASE Upload(c) \/ Download(c)
  BY <1>9 DEF Upload, Download
<1> QED
  BY <1>1, <1>2, <1>3, <1>4, <1>5, <1>6, <1>7, <1>8, <1>9 DEF Moves, Work

(* The cleanup loop and the clock.                                         *)
LEMMA SweepsLeaveAlone ==
  ASSUME SweepMessages \/ SweepFiles \/ Tick
  PROVE  /\ UNCHANGED <<pc, req, user, reply>>
         /\ UNCHANGED entries /\ UNCHANGED tokens /\ UNCHANGED accounts
         /\ SweepFiles \/ UNCHANGED <<cfms, disk>>
BY DEF SweepMessages, SweepFiles, Tick, localVars, cacheVars, tokenVars, fileVars

(* An entry of the cache changes only when a connection puts its reply.    *)
LEMMA EntriesStayKnown ==
  ASSUME HandlerInv, HistoryNext
  PROVE  EntriesKnown'
<1>0. Record
  BY DEF HistoryNext
<1>1. CASE UNCHANGED entries
  BY <1>0, <1>1, HistoryGrows DEF HandlerInv, EntriesKnown, Cache!Resident
<1>2. ASSUME NEW c \in Conns, PutReply(c) PROVE EntriesKnown'
  <2>1. pc[c] = "put" /\ Cache!Put(Key(req[c]), reply[c])
    BY <1>2 DEF PutReply, At
  <2>2. PICK gone : entries' = Cache!Updated(gone, Key(req[c]), reply[c])
    BY <2>1 DEF Cache!Put, Cache!PutFresh, Cache!PutAgain
  <2>3. <<Key(req[c]), reply[c]>> \in answered
    BY <2>1 DEF HandlerInv, RepliesKnown, Key, Identity
  <2>4. \A k \in DOMAIN entries' : <<k, entries'[k]>> \in answered
    BY <2>2, <2>3 DEF Cache!Updated, Cache!Resident, HandlerInv, EntriesKnown
  <2> QED
    BY <2>4, <1>0, HistoryGrows DEF EntriesKnown, Cache!Resident
<1>3. ~(\E c \in Conns : PutReply(c)) => UNCHANGED entries
  BY LeftAlone, SweepsLeaveAlone DEF HistoryNext, Next, Moves
<1> QED
  BY <1>1, <1>2, <1>3

(* A token is generated only for a name that has access.                   *)
LEMMA NewTokens ==
  ASSUME HandlerInv, HistoryNext, NEW t \in DOMAIN tokens', <<t, tokens'[t]>> \notin bound
  PROVE  \E c \in Conns :
            /\ req[c] \in Requests /\ req[c].route \in {"_create", "_token_generate"}
            /\ GoodName(req[c]) /\ tokens'[t] = req[c].name
<1>0. tokens' # tokens
  BY DEF HandlerInv, TokensBound
<1>1. \E c \in Conns : GenerateToken(c) \/ Mint(c) \/ RevokeToken(c)
  BY <1>0, LeftAlone, SweepsLeaveAlone DEF HistoryNext, Next, Moves
<1>2. PICK c \in Conns : GenerateToken(c) \/ Mint(c) \/ RevokeToken(c)
  BY <1>1
<1>3. CASE GenerateToken(c) \/ Mint(c)
  <2>1. PICK tail \in Tails : Tok!Generate(req[c].name, tail)
    BY <1>3 DEF GenerateToken, Mint
  <2>2. t = tail => tokens'[t] = req[c].name
    BY <2>1 DEF Tok!Generate, Tok!Live
  <2>3. t # tail => t \in DOMAIN tokens /\ tokens'[t] = tokens[t]
    BY <2>1 DEF Tok!Generate, Tok!Live
  <2>4. tokens'[t] = req[c].name
    BY <2>2, <2>3 DEF HandlerInv, TokensBound
  <2>5. pc[c] \in {"dispatch", "mint"}
    BY <1>3 DEF GenerateToken, Mint, Serves, At
  <2>6. req[c] \in Requests
    BY <2>5 DEF HandlerInv, LocalsOK, LocalOK
  <2>7. req[c].route \in {"_create", "_token_generate"} /\ GoodName(req[c])
    BY <1>3 DEF GenerateToken, Mint, Serves, At, HandlerInv, LocalsOK, LocalOK
  <2> QED
    BY <2>4, <2>6, <2>7
<1>4. CASE RevokeToken(c)
  <2>1. PICK tail : Tok!Revoke(tail)
    BY <1>0, <1>4 DEF RevokeToken, tokenVars
  <2>2. t \in DOMAIN tokens /\ tokens'[t] = tokens[t]
    BY <2>1 DEF Tok!Revoke, Tok!Live
  <2> QED
    BY <2>2 DEF HandlerInv, TokensBound
<1> QED
  BY <1>2, <1>3, <1>4

LEMMA BindingsStayGood ==
  ASSUME HandlerInv, HistoryNext
  PROVE  TokensBound' /\ BoundOK'
<1>1. Record
  BY DEF HistoryNext
<1>2. TokensBound'
  BY <1>1 DEF Record, TokensBound
<1>3. BoundOK'
  <2> SUFFICES ASSUME NEW b \in bound' PROVE b[2] \in Users /\ Pol!HasAccess(Config, b[2])
    BY DEF BoundOK
  <2>1. CASE b \in bound
    BY <2>1 DEF HandlerInv, BoundOK
  <2>2. CASE b \notin bound
    <3>1. PICK t \in DOMAIN tokens' : b = <<t, tokens'[t]>>
      BY <1>1, <2>2 DEF Record
    <3>2. PICK c \in Conns :
             /\ req[c] \in Requests /\ req[c].route \in {"_create", "_token_generate"}
             /\ GoodName(req[c]) /\ tokens'[t] = req[c].name
      BY <2>2, <3>1, NewTokens
    <3>3. b[2] = req[c].name
      BY <3>1, <3>2
    <3>4. req[c].name \in Users
      BY <3>2, RequestAssumption DEF GoodName, BadName
    <3> QED
      BY <3>2, <3>3, <3>4 DEF GoodName
  <2> QED
    BY <2>1, <2>2
<1> QED
  BY <1>2, <1>3

(* An account is created where a token has just been minted for its user.  *)
LEMMA AccountsStayOK ==
  ASSUME HandlerInv, HistoryNext
  PROVE  AccountsOK'
<1>0. Record
  BY DEF HistoryNext
<1>1. ASSUME NEW u, \E t \in Tails : <<t, u>> \in bound
      PROVE  \E t \in Tails : <<t, u>> \in bound'
  BY <1>0, <1>1, HistoryGrows
<1>2. \A u \in accounts' : u \in accounts \/ \E c \in Conns : Enrol(c) /\ u = req[c].name
  <2>1. CASE SweepMessages \/ SweepFiles \/ Tick
    BY <2>1, SweepsLeaveAlone
  <2>2. ASSUME NEW c \in Conns, Moves(c)
        PROVE  \A u \in accounts' : u \in accounts \/ (Enrol(c) /\ u = req[c].name)
    BY <2>2, LeftAlone DEF Enrol
  <2> QED
    BY <2>1, <2>2 DEF HistoryNext, Next, Moves
<1>3. ASSUME NEW u \in accounts'
      PROVE  Pol!HasAccess(Config, u) /\ \E t \in Tails : <<t, u>> \in bound'
  <2>1. CASE u \in accounts
    BY <2>1, <1>1 DEF HandlerInv, AccountsOK
  <2>2. ASSUME NEW c \in Conns, Enrol(c), u = req[c].name
        PROVE  Pol!HasAccess(Config, u) /\ \E t \in Tails : <<t, u>> \in bound'
    <3>1. pc[c] = "enrol"
      BY <2>2 DEF Enrol, At
    <3>2. GoodName(req[c])
      BY <3>1 DEF HandlerInv, LocalsOK, LocalOK
    <3>3. \E t \in Tails : <<t, u>> \in bound
      BY <2>2, <3>1 DEF HandlerInv, AccountsOK
    <3> QED
      BY <2>2, <3>2, <3>3, <1>1 DEF GoodName
  <2> QED
    BY <2>1, <2>2, <1>2
<1>4. ASSUME NEW c \in Conns, pc'[c] = "enrol"
      PROVE  \E t \in Tails : <<t, req'[c].name>> \in bound'
  <2>1. CASE Mint(c)
    <3>1. PICK tail \in Tails : Tok!Generate(req[c].name, tail)
      BY <2>1 DEF Mint
    <3>2. req'[c] = req[c]
      BY <2>1 DEF Mint
    <3>3. tail \in DOMAIN tokens' /\ tokens'[tail] = req[c].name
      BY <3>1 DEF Tok!Generate, Tok!Live
    <3>4. <<tail, req[c].name>> \in bound'
      BY <3>3, <1>0 DEF Record
    <3> QED
      BY <3>2, <3>4
  <2>2. CASE ~Mint(c)
    <3>1. pc[c] = "enrol" /\ req'[c] = req[c]
      <4>1. ASSUME NEW d \in Conns, Moves(d)
            PROVE  pc[c] = "enrol" /\ req'[c] = req[c]
        <5>1. StepOK(d)
          BY <1>0, <4>1, WorkStep
        <5>2. CASE d # c
          BY <5>1, <5>2, <1>4 DEF StepOK, LocalStep
        <5>3. CASE d = c
          BY <5>3, <4>1, <2>2, <1>4
             DEF HandlerInv, LocalsOK, Moves, Work, Receive, LookupToken, Replay, Miss, Refuse,
                 RefuseName, Pull, Panic, Watch, Upload, Download, GenerateToken, ListTokens,
                 RevokeToken, CheckAccount, Enrol, ListAccounts, StampPush, StorePush,
                 PutReply, Write, Respond, Goto, localVars
        <5> QED
          BY <5>2, <5>3
      <4>2. CASE SweepMessages \/ SweepFiles \/ Tick
        BY <4>2, <1>4 DEF SweepMessages, SweepFiles, Tick, localVars
      <4> QED
        BY <4>1, <4>2 DEF HistoryNext, Next, Moves
    <3>2. \E t \in Tails : <<t, req[c].name>> \in bound
      BY <3>1 DEF HandlerInv, AccountsOK
    <3> QED
      BY <3>1, <3>2, <1>1
  <2> QED
    BY <2>1, <2>2
<1> QED
  BY <1>3, <1>4 DEF AccountsOK

(* Save, Load and Cleanup keep a complete file under the entry it was      *)
(* written with; a torn one is not complete.                               *)
LEMMA FilesStayMatched ==
  ASSUME HandlerInv, HistoryNext
  PROVE  (Cfm!FileMatchesEntry)'
<1> USE DEF Cfm!Indexed, Cfm!OnDisk
<1>0. Cfm!FileMatchesEntry
  BY DEF HandlerInv
<1>1. ASSUME NEW ids, cfms' = Cfm!Without(cfms, ids), disk' = Cfm!Without(disk, ids)
      PROVE  (Cfm!FileMatchesEntry)'
  BY <1>0, <1>1 DEF Cfm!Without, Cfm!FileMatchesEntry
<1>2. ASSUME UNCHANGED <<cfms, disk>>
      PROVE  (Cfm!FileMatchesEntry)'
  BY <1>0, <1>2 DEF Cfm!FileMatchesEntry
<1>3. ASSUME NEW id, NEW u, NEW public, NEW expiry, Cfm!SaveDone(id, u, public, expiry)
      PROVE  (Cfm!FileMatchesEntry)'
  <2>1. \A x \in DOMAIN cfms' \ {id} : x \in DOMAIN cfms /\ cfms'[x] = cfms[x]
    BY <1>3 DEF Cfm!SaveDone, Cfm!With
  <2>2. \A x \in DOMAIN disk' \ {id} : x \in DOMAIN disk /\ disk'[x] = disk[x]
    BY <1>3 DEF Cfm!SaveDone, Cfm!With
  <2>3. /\ disk'[id] = Cfm!Content(u, public, TRUE)
        /\ cfms'[id] = Cfm!SavedEntry(u, public, expiry)
    BY <1>3 DEF Cfm!SaveDone, Cfm!With
  <2>4. cfms'[id].uploader = u /\ cfms'[id].public = public
    BY <2>3 DEF Cfm!SavedEntry
  <2> QED
    BY <1>0, <2>1, <2>2, <2>3, <2>4 DEF Cfm!FileMatchesEntry
<1>4. ASSUME NEW id, NEW u, NEW public, Cfm!SaveTorn(id, u, public)
      PROVE  (Cfm!FileMatchesEntry)'
  <2>1. cfms' = cfms
    BY <1>4 DEF Cfm!SaveTorn
  <2>2. \A x \in DOMAIN disk' \ {id} : x \in DOMAIN disk /\ disk'[x] = disk[x]
    BY <1>4 DEF Cfm!SaveTorn, Cfm!With
  <2>3. ~disk'[id].whole
    BY <1>4 DEF Cfm!SaveTorn, Cfm!With, Cfm!Content
  <2> QED
    BY <1>0, <2>1, <2>2, <2>3 DEF Cfm!FileMatchesEntry
<1>5. ASSUME NEW c \in Conns, Moves(c)
      PROVE  (Cfm!FileMatchesEntry)'
  <2>1. CASE Upload(c)
    <3>1. \/ \E id, u, public, expiry : Cfm!SaveDone(id, u, public, expiry)
          \/ \E id, u, public : Cfm!SaveTorn(id, u, public)
          \/ UNCHANGED <<cfms, disk>>
      BY <2>1 DEF Upload, fileVars
    <3> QED
      BY <3>1, <1>2, <1>3, <1>4
  <2>2. CASE Download(c)
    <3>1. Cfm!LoadExpired(req[c].file) \/ UNCHANGED <<cfms, disk>>
      BY <2>2 DEF Download, fileVars
    <3> QED
      BY <3>1, <1>1, <1>2 DEF Cfm!LoadExpired
  <2> QED
    BY <1>2, <1>5, <2>1, <2>2, LeftAlone
<1>6. CASE SweepFiles
  BY <1>6, <1>1 DEF SweepFiles, Cfm!CfmCleanup
<1>7. CASE SweepMessages \/ Tick
  <2>1. UNCHANGED <<cfms, disk>>
    BY <1>7 DEF SweepMessages, Tick, fileVars
  <2> QED
    BY <2>1, <1>2
<1> QED
  BY <1>5, <1>6, <1>7 DEF HistoryNext, Next, Moves

(* Nothing happens to a connection when the cleanup loop or the clock moves. *)
LEMMA SweepStep ==
  ASSUME HandlerInv, Record, SweepMessages \/ SweepFiles \/ Tick
  PROVE  LocalsOK' /\ UsersBound' /\ AnswersOK' /\ RepliesKnown'
<1>1. UNCHANGED <<pc, req, user, reply>>
  BY SweepsLeaveAlone
<1>2. Finishing = {}
  BY <1>1 DEF Finishing
<1>3. answered' = answered
  BY <1>2 DEF Record
<1>4. LocalsOK'
  BY <1>1 DEF HandlerInv, LocalsOK
<1>5. UsersBound' /\ RepliesKnown'
  BY <1>1, <1>3, HistoryGrows DEF HandlerInv, UsersBound, RepliesKnown, Identity
<1>6. AnswersOK'
  BY <1>3, HistoryGrows, AnswerStays DEF HandlerInv, AnswersOK
<1> QED
  BY <1>4, <1>5, <1>6

LEMMA HandlerStep == HandlerInv /\ [HistoryNext]_historyVars => HandlerInv'
<1> SUFFICES ASSUME HandlerInv, [HistoryNext]_historyVars
             PROVE  HandlerInv'
  OBVIOUS
<1>1. CASE HistoryNext
  <2>1. Record
    BY <1>1 DEF HistoryNext
  <2>2. ASSUME NEW c \in Conns, Moves(c)
        PROVE  LocalsOK' /\ UsersBound' /\ AnswersOK' /\ RepliesKnown'
    <3>1. StepOK(c)
      BY <2>1, <2>2, WorkStep
    <3> QED
      BY <2>1, <3>1, StepKeepsLocals DEF StepOK
  <2>3. LocalsOK' /\ UsersBound' /\ AnswersOK' /\ RepliesKnown'
    BY <1>1, <2>1, <2>2, SweepStep DEF HistoryNext, Next, Moves
  <2> QED
    BY <1>1, <2>3, EntriesStayKnown, BindingsStayGood, AccountsStayOK, FilesStayMatched
       DEF HandlerInv
<1>2. CASE UNCHANGED historyVars
  <2> USE <1>2 DEF historyVars, vars, localVars, cacheVars, tokenVars, fileVars
  <2>1. LocalsOK' /\ UsersBound' /\ AnswersOK' /\ RepliesKnown'
    BY DEF HandlerInv, LocalsOK, UsersBound, AnswersOK, RepliesKnown
  <2>2. EntriesKnown' /\ TokensBound' /\ BoundOK' /\ AccountsOK'
    BY DEF HandlerInv, EntriesKnown, TokensBound, BoundOK, AccountsOK, Cache!Resident
  <2>3. (Cfm!FileMatchesEntry)'
    BY DEF HandlerInv, Cfm!FileMatchesEntry, Cfm!Indexed, Cfm!OnDisk
  <2> QED
    BY <2>1, <2>2, <2>3 DEF HandlerInv
<1> QED
  BY <1>1, <1>2

LEMMA HandlerAlways == HistorySpec => []HandlerInv
BY HandlerInit_Inv, HandlerStep, PTL DEF HistorySpec

-----------------------------------------------------------------------------

(* A reply at a connection, executed or replayed, shows its request's tail *)
(* no more than it may see.                                                *)
LEMMA RepliesShowTheirOwn ==
  ASSUME HandlerInv, NEW c \in Conns, reply[c] # None,
         pc[c] # "enrol"
  PROVE  AnswerOK(bound, Identity(req[c]), reply[c])
<1>1. pc[c] \in {"put", "write"}
  BY DEF HandlerInv, LocalsOK, LocalOK
<1> QED
  BY <1>1 DEF HandlerInv, RepliesKnown, AnswersOK

(* The contents of smp@u are answered only to a tail that was bound to u,  *)
(* whatever other connections revoke, mint or create between the lookup    *)
(* and the pull, and when the answer comes from the cache (message.go).    *)
THEOREM PullsStayOwn == HistorySpec => []OnlyOwnerReads
<1>1. HandlerInv => OnlyOwnerReads
  <2> SUFFICES ASSUME HandlerInv, NEW c \in Conns, NEW u \in Users, Reading(reply[c], u)
               PROVE  <<req[c].tail, u>> \in bound
    BY DEF OnlyOwnerReads
  <2>1. reply[c] # None /\ "from" \in DOMAIN reply[c] /\ reply[c].from = u
    BY DEF Reading
  <2>2. pc[c] # "enrol"
    BY <2>1 DEF HandlerInv, LocalsOK, LocalOK
  <2> QED
    BY <2>1, <2>2, RepliesShowTheirOwn DEF AnswerOK, Identity
<1> QED
  BY <1>1, HandlerAlways, PTL

(* A complete file that is not public is answered only to a tail that was  *)
(* bound to its uploader, whatever is overwritten, torn, expired or swept  *)
(* meanwhile (handleCFMUpload, handleCFMDownload).                         *)
THEOREM FilesAreOwn == HistorySpec => []FilesStayPrivate
<1>1. HandlerInv => FilesStayPrivate
  <2> SUFFICES ASSUME HandlerInv, NEW c \in Conns, reply[c] # None, "file" \in DOMAIN reply[c],
                      reply[c].file.whole, ~reply[c].file.public
               PROVE  <<req[c].tail, reply[c].file.by>> \in bound
    BY DEF FilesStayPrivate
  <2>1. pc[c] # "enrol"
    BY DEF HandlerInv, LocalsOK, LocalOK
  <2> QED
    BY <2>1, RepliesShowTheirOwn DEF AnswerOK, Identity
<1> QED
  BY <1>1, HandlerAlways, PTL

(* What a connection writes and what the cache keeps for replay was        *)
(* computed for a request with the same identifier and tail, whatever the  *)
(* size of the cache and the order in which replies are put (cache.Get,    *)
(* cache.Put in message.go).                                               *)
THEOREM AnswersAreOwn == HistorySpec => []RepliesAreOwn
<1>1. HandlerInv => RepliesAreOwn
  BY DEF HandlerInv, RepliesKnown, EntriesKnown, RepliesAreOwn
<1> QED
  BY <1>1, HandlerAlways, PTL

(* Of each account there has been a token for its user: _create generates  *)
(* the token before it creates the account.                                *)
THEOREM CreatedWithToken == HistorySpec => []AccountsHaveTokens
<1>1. HandlerInv => AccountsHaveTokens
  BY DEF HandlerInv, AccountsOK, AccountsHaveTokens
<1> QED
  BY <1>1, HandlerAlways, PTL

(* A name has access exactly when the lists do not turn it away.           *)
LEMMA AccessOfLists ==
  ASSUME NEW u \in Users
  PROVE  Pol!HasAccess(Config, u) <=> u \notin TurnedAway
BY DEF TurnedAway, Pol!HasAccess, Pol!IsWhitelisted, Pol!IsBlacklisted

(* A command is allowed exactly when the patterns say so.                  *)
LEMMA CommandsOfPatterns ==
  ASSUME NEW u, NEW route \in Commands
  PROVE  Pol!CommandAllowed(Config, u, route) <=> route \in MayRun(u)
<1>1. (\E p \in Pol!GetPermissions(Config, u) : <<p, route>> \in Covers)
      <=> route \in Covered(u)
  BY DEF Pol!GetPermissions, Covered
<1>2. Pol!NormalizeConfMode(Config) = "whitelist" <=> Config.ConfMode = "whitelist"
  BY DEF Pol!NormalizeConfMode
<1> QED
  BY <1>1, <1>2 DEF Pol!CommandAllowed, MayRun

(* Whatever the lists, the mode and the patterns of the configuration are, *)
(* nobody who is turned away is bound to a token or has an account, and    *)
(* every command but _create is executed only for the user its token was   *)
(* bound to, who may run it (HasAccess, authorizeCommand).                 *)
THEOREM PolicyHolds == HistorySpec => []PolicyEnforced
<1>1. HandlerInv => PolicyEnforced
  <2> SUFFICES ASSUME HandlerInv PROVE PolicyEnforced
    OBVIOUS
  <2>1. \A u \in TurnedAway : u \notin accounts /\ \A t \in Tails : <<t, u>> \notin bound
    BY AccessOfLists DEF TurnedAway, HandlerInv, BoundOK, AccountsOK
  <2>2. ASSUME NEW c \in Conns, pc[c] = "put", "error" \notin DOMAIN reply[c],
               req[c].route # "_create"
        PROVE  req[c].route \in MayRun(user[c]) /\ <<req[c].tail, user[c]>> \in bound
    <3>1. req[c] \in Requests /\ Admitted(req[c], user[c])
      BY <2>2 DEF HandlerInv, LocalsOK, LocalOK
    <3>2. user[c] # None /\ Pol!CommandAllowed(Config, user[c], req[c].route)
      BY <3>1, <2>2 DEF Admitted, UnknownToken, CommandDenied
    <3>3. req[c].route \in Commands
      BY <3>1 DEF Commands
    <3> QED
      BY <3>2, <3>3, CommandsOfPatterns DEF HandlerInv, UsersBound
  <2> QED
    BY <2>1, <2>2 DEF PolicyEnforced
<1> QED
  BY <1>1, HandlerAlways, PTL

-----------------------------------------------------------------------------
(* The types.                                                              *)

(* What the message store keeps and answers are messages.                  *)
LEMMA KeptMessages ==
  ASSUME NEW S, NEW seq \in Seq(S), NEW set
  PROVE  Msg!Keeping(seq, set) \in Seq(S)
<1> DEFINE f == CHOOSE f : FilterBy(f, seq, set)
<1>1. Msg!Keeping(seq, set) = f[Len(seq)]
  BY DEF Msg!Keeping, FilterBy
<1>2. FilterBy(f, seq, set)
  BY FilterRuns
<1> QED
  BY <1>1, <1>2, FilterPicks

LEMMA PulledMessages ==
  ASSUME messages \in [Inboxes -> Seq(Msg!Message)], NEW route \in Inboxes,
         NEW limit \in Int, NEW offset \in Nat, NEW after, NEW before, NEW find,
         NEW found \in Msg!Query(route, limit, offset, after, before, find)
  PROVE  found \in Seq(Msg!Message)
<1> DEFINE seq == Msg!Matching(route, after, before, find)
<1>1. seq \in Seq(Msg!Message)
  BY KeptMessages DEF Msg!Matching
<1> HIDE DEF seq
<1>2. PICK sorted \in Msg!Sortings(seq) : found = Msg!Page(sorted, limit, offset)
  BY DEF Msg!Query, seq
<1>3. sorted \in Seq(Msg!Message)
  <2>1. PICK p \in [DOMAIN seq -> DOMAIN seq] : sorted = [i \in DOMAIN seq |-> seq[p[i]]]
    BY <1>2 DEF Msg!Sortings
  <2>2. DOMAIN seq = 1 .. Len(seq) /\ Len(seq) \in Nat
    BY <1>1
  <2>3. \A i \in DOMAIN seq : seq[p[i]] \in Msg!Message
    BY <1>1, <2>2, ElementOfSeq
  <2>4. sorted \in [1 .. Len(seq) -> Msg!Message]
    BY <2>1, <2>2, <2>3
  <2> QED
    BY <2>2, <2>4, SeqDef
<1> DEFINE rest == SubSeq(sorted, offset + 1, Len(sorted))
<1>4. Len(sorted) \in Nat /\ rest \in Seq(Msg!Message)
  BY <1>3, SubSeqProperties
<1>5. \/ found = <<>>
      \/ found = rest
      \/ limit > 0 /\ limit < Len(rest) /\ found = SubSeq(rest, 1, limit)
  BY <1>2 DEF Msg!Page
<1> HIDE DEF rest
<1>6. limit > 0 /\ limit < Len(rest) => SubSeq(rest, 1, limit) \in Seq(Msg!Message)
  BY <1>4, HandlerAssumption, SubSeqProperties
<1>7. <<>> \in Seq(Msg!Message)
  OBVIOUS
<1> QED
  BY <1>4, <1>5, <1>6, <1>7

LEMMA LatestIsId ==
  ASSUME messages \in [Inboxes -> Seq(Msg!Message)], NEW route \in Inboxes
  PROVE  Msg!LatestID(route) \in Ids \union {0}
<1> DEFINE seq == messages[route]
           n == Len(seq)
           none == [id |-> 0, stamp |-> -1]
           V == Msg!Message \union {none}
           next == [p \in (1 .. n) \X V |->
                      IF seq[p[1]].stamp > p[2].stamp THEN seq[p[1]] ELSE p[2]]
           f == CHOOSE f : f = [i \in 0 .. n |->
                   IF i = 0 THEN none
                   ELSE IF seq[i].stamp > f[i - 1].stamp THEN seq[i] ELSE f[i - 1]]
<1>1. n \in Nat /\ \A i \in 1 .. n : seq[i] \in Msg!Message
  BY ElementOfSeq
<1>2. Msg!LatestID(route) = f[n].id
  BY DEF Msg!LatestID
<1>3. \A v \in V : v.id \in Ids \union {0}
  BY DEF Msg!Message
<1>4. none \in V
  OBVIOUS
<1> HIDE DEF seq, none, V
<1>5. ASSUME NEW i \in 1 .. n, NEW v \in V
      PROVE  /\ next[<<i, v>>] = IF seq[i].stamp > v.stamp THEN seq[i] ELSE v
             /\ next[<<i, v>>] \in V
  <2>1. <<i, v>> \in (1 .. n) \X V
    OBVIOUS
  <2>2. next[<<i, v>>] = IF seq[i].stamp > v.stamp THEN seq[i] ELSE v
    BY <2>1
  <2> QED
    BY <1>1, <2>2 DEF V
<1> HIDE DEF next, n
<1>6. PICK g \in [0 .. n -> V] : LoopBy(g, n, none, next)
  BY <1>1, <1>4, <1>5, LoopRuns
<1>7. ASSUME NEW i \in 0 .. n
      PROVE  g[i] = IF i = 0 THEN none
                    ELSE IF seq[i].stamp > g[i - 1].stamp THEN seq[i] ELSE g[i - 1]
  <2>1. g[i] = IF i = 0 THEN none ELSE next[<<i, g[i - 1]>>]
    BY <1>6 DEF LoopBy
  <2>2. CASE i = 0
    BY <2>1, <2>2
  <2>3. CASE i # 0
    <3>1. i \in 1 .. n /\ g[i - 1] \in V
      BY <1>1, <2>3
    <3> QED
      BY <1>5, <2>1, <2>3, <3>1
  <2> QED
    BY <2>2, <2>3
<1>8. g = [i \in 0 .. n |->
             IF i = 0 THEN none
             ELSE IF seq[i].stamp > g[i - 1].stamp THEN seq[i] ELSE g[i - 1]]
  BY <1>7
<1>9. f = [i \in 0 .. n |->
             IF i = 0 THEN none
             ELSE IF seq[i].stamp > f[i - 1].stamp THEN seq[i] ELSE f[i - 1]]
  BY <1>8, Zenon
<1> HIDE DEF f
<1> DEFINE T == {i \in 0 .. n : f[i] \in V}
<1>10. 0 \in T
  BY <1>1, <1>4, <1>9
<1>11. ASSUME NEW i \in 0 .. n - 1, i \in T
       PROVE  i + 1 \in T
  <2>1. i + 1 \in 1 .. n /\ i + 1 \in 0 .. n /\ i + 1 # 0 /\ (i + 1) - 1 = i
    BY <1>1
  <2>2. f[i + 1] = seq[i + 1] \/ f[i + 1] = f[(i + 1) - 1]
    BY <1>9, <2>1
  <2>3. f[i + 1] \in V
    BY <1>1, <1>11, <2>1, <2>2 DEF V
  <2> QED
    BY <2>1, <2>3
<1>12. f[n] \in V
  <2> HIDE DEF T
  <2>1. \A i \in 0 .. n : i \in T
    BY <1>1, <1>10, <1>11, UpTo
  <2> QED
    BY <1>1, <2>1 DEF T
<1> QED
  BY <1>2, <1>3, <1>12

(* The types of HandlerTypeOK, with those of the locals it leaves out.     *)
Typed ==
    /\ HandlerTypeOK
    /\ stamp \in [Conns -> Nat]
    /\ \A c \in Conns : pc[c] \in {"enrol", "put", "write"} => reply[c] \in Replies

LEMMA TypedInit == HistoryInit => Typed
<1> SUFFICES ASSUME HistoryInit PROVE Typed
  OBVIOUS
<1> USE DEF HistoryInit, Init
<1>1. /\ pc \in [Conns -> Labels] /\ req \in [Conns -> Requests \union {None}]
      /\ user \in [Conns -> Users \union {None}]
      /\ \A c \in Conns : reply[c] \in Replies \union {None}
      /\ stamp \in [Conns -> Nat] /\ accounts \subseteq Users
  BY DEF Labels
<1>2. Cache!CacheTypeOK
  BY DEF Cache!CacheInit, Cache!CacheTypeOK, Cache!Resident
<1>3. Tok!TokenTypeOK
  BY DEF Tok!TokenInit, Tok!TokenTypeOK, Tok!Live
<1>4. Cfm!CfmTypeOK
  <2>1. now \in 0 .. MaxNow
    BY HandlerAssumption DEF Msg!MessageInit
  <2> QED
    BY <2>1 DEF Cfm!CfmTypeOK, Cfm!Indexed, Cfm!OnDisk
<1>5. messages \in [Inboxes -> Seq(Msg!Message)]
  <2>1. <<>> \in Seq(Msg!Message)
    OBVIOUS
  <2> QED
    BY <2>1 DEF Msg!MessageInit
<1>6. \A c \in Conns : pc[c] \notin {"enrol", "put", "write"}
  OBVIOUS
<1> QED
  BY <1>1, <1>2, <1>3, <1>4, <1>5, <1>6 DEF Typed, HandlerTypeOK, Labels

(* How a step changes the locals.                                          *)
LEMMA LocalShapes ==
  ASSUME NEW c \in Conns, Moves(c)
  PROVE  /\ UNCHANGED pc \/ \E l : pc' = [pc EXCEPT ![c] = l]
         /\ \/ UNCHANGED req
            \/ \E r \in Requests \union {None} : req' = [req EXCEPT ![c] = r]
         /\ UNCHANGED user \/ \E u : user' = [user EXCEPT ![c] = u]
         /\ UNCHANGED stamp \/ \E t \in {0, now} : stamp' = [stamp EXCEPT ![c] = t]
<1> DEFINE Still == UNCHANGED <<req, user, stamp>>
<1>1. (\E l : Goto(c, l)) \/ UNCHANGED pc
  BY DEF Moves, Work, Receive, LookupToken, Replay, Miss, Refuse, RefuseName, Pull, Panic,
         localVars, Watch, Upload, Download, GenerateToken, ListTokens, RevokeToken, CheckAccount, Mint, Enrol,
         ListAccounts, StampPush, StorePush, PutReply, Write, Respond
<1>2. CASE Receive(c)
  BY <1>1, <1>2 DEF Receive, Goto
<1>3. CASE LookupToken(c)
  BY <1>1, <1>3 DEF LookupToken, Goto
<1>4. CASE StampPush(c)
  BY <1>1, <1>4 DEF StampPush, Goto
<1>5. CASE Write(c)
  BY <1>1, <1>5 DEF Write, Goto
<1>6. Receive(c) \/ LookupToken(c) \/ StampPush(c) \/ Write(c) \/ Still
  BY DEF Moves, Work, Replay, Miss, Refuse, RefuseName, Pull, Panic, localVars, Watch, Upload,
         Download, GenerateToken, ListTokens, RevokeToken, CheckAccount, Mint, Enrol,
         ListAccounts, StorePush, PutReply, Respond
<1>7. CASE Still
  BY <1>1, <1>7 DEF Goto
<1> QED
  BY <1>2, <1>3, <1>4, <1>5, <1>6, <1>7

(* What else of the shared state a step of a connection may touch.         *)
LEMMA SlicesLeftAlone ==
  ASSUME NEW c \in Conns, Moves(c)
  PROVE  /\ PutReply(c) \/ Replay(c) \/ UNCHANGED cacheVars
         /\ GenerateToken(c) \/ Mint(c) \/ RevokeToken(c) \/ UNCHANGED tokenVars
         /\ StorePush(c) \/ UNCHANGED messages
         /\ UNCHANGED now
<1>1. CASE Receive(c) \/ LookupToken(c) \/ Miss(c) \/ Refuse(c) \/ RefuseName(c)
  BY <1>1 DEF Receive, LookupToken, Miss, Refuse, RefuseName, envVars
<1>2. CASE CheckAccount(c) \/ StampPush(c) \/ Write(c) \/ Enrol(c)
  BY <1>2 DEF CheckAccount, StampPush, Write, Enrol, envVars
<1>3. CASE Pull(c) \/ Panic(c) \/ Watch(c) \/ ListTokens(c) \/ ListAccounts(c)
  BY <1>3 DEF Pull, Panic, Watch, ListTokens, ListAccounts, envVars
<1>4. CASE Upload(c) \/ Download(c)
  <2>1. UNCHANGED <<cacheVars, tokenVars, messages>>
    BY <1>4 DEF Upload, Download
  <2>2. CASE Upload(c)
    <3>1. \/ \E id, u, public, expiry : Cfm!SaveDone(id, u, public, expiry)
          \/ \E id, u, public : Cfm!SaveTorn(id, u, public)
          \/ UNCHANGED now
      BY <2>2 DEF Upload
    <3>2. UNCHANGED now
      BY <3>1 DEF Cfm!SaveDone, Cfm!SaveTorn
    <3> QED
      BY <2>1, <3>2
  <2>3. CASE Download(c)
    <3>1. UNCHANGED now
      BY <2>3 DEF Download, Cfm!LoadExpired
    <3> QED
      BY <2>1, <3>1
  <2> QED
    BY <1>4, <2>2, <2>3
<1>5. CASE GenerateToken(c) \/ Mint(c) \/ RevokeToken(c)
  BY <1>5 DEF GenerateToken, Mint, RevokeToken, envVars
<1>6. CASE Replay(c) \/ PutReply(c)
  BY <1>6 DEF Replay, PutReply, envVars
<1>7. CASE StorePush(c)
  BY <1>7 DEF StorePush, Msg!Store
<1> QED
  BY <1>1, <1>2, <1>3, <1>4, <1>5, <1>6, <1>7 DEF Moves, Work

(* What is answered is one of the answers the server gives.                *)
LEMMA RespondTyped ==
  ASSUME HandlerInv, NEW c \in Conns, NEW r, Respond(c, r), r \in Replies
  PROVE  reply'[c] \in Replies
BY DEF Respond, HandlerInv, LocalsOK

LEMMA CfmIdsAreNat == \A id \in Ids : CfmId(id) \in Nat
<1>1. TopBit \in Nat /\ Ids \subseteq 1 .. 2 * TopBit - 1
  BY HandlerAssumption
<1> DEFINE most == 2 * TopBit - 1
<1>2. most \in Int
  BY <1>1
<1> HIDE DEF most
<1>3. \A id \in 1 .. most : id \in Nat
  BY <1>2
<1>4. \A id \in Ids : id \in Nat
  BY <1>1, <1>3 DEF most
<1>5. ASSUME NEW id \in Nat PROVE CfmId(id) \in Nat
  BY <1>1 DEF CfmId
<1> QED
  BY <1>4, <1>5

LEMMA ReplyTyped ==
  ASSUME HandlerInv, Typed, Record, NEW c \in Conns, Moves(c),
         pc'[c] \in {"enrol", "put", "write"}
  PROVE  reply'[c] \in Replies
<1>0. /\ \A l : Goto(c, l) => pc'[c] = l
      /\ pc[c] # "idle" => req[c] \in Requests
  BY DEF Goto, HandlerInv, LocalsOK, LocalOK
<1>1. ASSUME NEW code \in Codes, Respond(c, Error(code)) PROVE reply'[c] \in Replies
  <2>1. Error(code) \in Replies
    BY DEF Error, Replies
  <2> QED
    BY <1>1, <2>1, RespondTyped
<1>2. CASE Receive(c) \/ LookupToken(c) \/ Miss(c) \/ StampPush(c) \/ Write(c)
  BY <1>0, <1>2 DEF Receive, LookupToken, Miss, StampPush, Write
<1>3. CASE Replay(c)
  <2>1. reply'[c] = entries[Key(req[c])] /\ Key(req[c]) \in Cache!Resident
    BY <1>3 DEF Replay, Cache!Hit, HandlerInv, LocalsOK
  <2> QED
    BY <2>1 DEF Typed, HandlerTypeOK, Cache!CacheTypeOK
<1>4. CASE Refuse(c) \/ RefuseName(c)
  <2>1. \E code \in Codes : Respond(c, Error(code))
    BY <1>4 DEF Refuse, RefuseName, Rejection, Codes
  <2> QED
    BY <1>1, <2>1
<1>5. CASE Pull(c)
  <2>1. req[c] \in Requests /\ req[c].route = "_pull" /\ req[c].offset >= 0
    BY <1>0, <1>5 DEF Pull, Serves, At
  <2>2. req[c].inbox \in Inboxes /\ req[c].limit \in Int /\ req[c].offset \in Nat
    BY <2>1, RequestAssumption DEF Inboxes
  <2>3. PICK found \in Msg!Query(req[c].inbox, req[c].limit, req[c].offset,
                                  req[c].after, req[c].before, req[c].find) :
           Respond(c, [from |-> req[c].inbox, pulled |-> found])
    BY <1>5 DEF Pull
  <2>4. found \in Seq(Msg!Message)
    BY <2>2, PulledMessages DEF Typed, HandlerTypeOK
  <2>5. [from |-> req[c].inbox, pulled |-> found] \in Replies
    BY <2>2, <2>4 DEF Replies
  <2> QED
    BY <2>3, <2>5, RespondTyped
<1>6. CASE Watch(c)
  <2>1. Admitted(req[c], user[c]) /\ req[c].route # "_create"
    BY <1>6 DEF Watch, Serves
  <2>2. user[c] \in Inboxes
    BY <2>1, AdmittedUser DEF Inboxes
  <2>3. Msg!LatestID(user[c]) \in Ids \union {0}
    BY <2>2, LatestIsId DEF Typed, HandlerTypeOK
  <2>4. [latest |-> Msg!LatestID(user[c])] \in Replies
    BY <2>3 DEF Replies
  <2> QED
    BY <1>6, <2>4, RespondTyped DEF Watch
<1>7. CASE Upload(c)
  <2>1. req[c] \in Requests
    BY <1>0, <1>7 DEF Upload, Serves, At
  <2>2. CfmId(req[c].id) \in Nat
    BY <2>1, RequestAssumption, CfmIdsAreNat
  <2>3. [cfm |-> CfmId(req[c].id)] \in Replies
    BY <2>2 DEF Replies
  <2>4. Respond(c, [cfm |-> CfmId(req[c].id)]) \/ Respond(c, Error(5002))
    BY <1>7 DEF Upload
  <2> QED
    BY <1>1, <2>3, <2>4, RespondTyped DEF Codes
<1>8. CASE Download(c)
  <2> DEFINE id == req[c].file
  <2>1. \/ Respond(c, Error(5002))
        \/ Respond(c, [file |-> disk[id]]) /\ Cfm!Loaded(id, user[c]) = "file"
    BY <1>8 DEF Download
  <2>2. Cfm!Loaded(id, user[c]) = "file" => disk[id] \in Cfm!File
    BY DEF Cfm!Loaded, Typed, HandlerTypeOK, Cfm!CfmTypeOK
  <2>3. disk[id] \in Cfm!File => [file |-> disk[id]] \in Replies
    BY DEF Replies
  <2> QED
    BY <1>1, <2>1, <2>2, <2>3, RespondTyped DEF Codes
<1>9. CASE GenerateToken(c)
  <2>1. PICK tail \in Tails : Respond(c, [minted |-> tail])
    BY <1>9 DEF GenerateToken
  <2>2. [minted |-> tail] \in Replies
    BY DEF Replies
  <2> QED
    BY <2>1, <2>2, RespondTyped
<1>10. CASE ListTokens(c)
  <2>1. [listed |-> tails] \in Replies
    BY DEF Replies, Typed, HandlerTypeOK, Tok!TokenTypeOK
  <2> QED
    BY <1>10, <2>1, RespondTyped DEF ListTokens
<1>11. CASE RevokeToken(c)
  <2> DEFINE tail == req[c].victim
  <2>1. \/ Respond(c, [revoked |-> tail]) /\ tail \in Tok!Live
        \/ Respond(c, Error(1007))
    BY <1>11 DEF RevokeToken, Tok!Revoke
  <2>2. tail \in Tok!Live => [revoked |-> tail] \in Replies
    BY DEF Replies, Typed, HandlerTypeOK, Tok!TokenTypeOK
  <2> QED
    BY <1>1, <2>1, <2>2, RespondTyped DEF Codes
<1>12. CASE CheckAccount(c)
  <2>1. Respond(c, Error(6003)) \/ Goto(c, "mint")
    BY <1>12 DEF CheckAccount
  <2> QED
    BY <1>0, <1>1, <2>1 DEF Codes
<1>13. CASE Mint(c)
  <2>1. PICK tail \in Tails :
           reply' = [reply EXCEPT ![c] = [created |-> req[c].name, token |-> tail]]
    BY <1>13 DEF Mint
  <2>2. pc[c] = "mint"
    BY <1>13 DEF Mint, At
  <2>3. req[c] \in Requests /\ req[c].route = "_create" /\ GoodName(req[c])
    BY <2>2 DEF HandlerInv, LocalsOK, LocalOK
  <2>4. req[c].name \in Users
    BY <2>3, RequestAssumption DEF GoodName, BadName
  <2>5. [created |-> req[c].name, token |-> tail] \in Replies
    BY <2>4 DEF Replies
  <2> QED
    BY <2>1, <2>5 DEF HandlerInv, LocalsOK
<1>14. CASE Panic(c)
  BY <1>14 DEF Panic, localVars, Typed, HandlerTypeOK
<1>17. CASE Enrol(c) \/ PutReply(c)
  <2>1. pc[c] \in {"enrol", "put"} /\ reply' = reply
    BY <1>17 DEF Enrol, PutReply, At
  <2> QED
    BY <2>1 DEF Typed
<1>15. CASE ListAccounts(c)
  <2>1. [accounts |-> accounts] \in Replies
    BY DEF Replies, Typed, HandlerTypeOK
  <2> QED
    BY <1>15, <2>1, RespondTyped DEF ListAccounts
<1>16. CASE StorePush(c)
  <2>1. req[c] \in Requests
    BY <1>0, <1>16 DEF StorePush, At
  <2>2. [stored |-> req[c].id] \in Replies
    BY <2>1, RequestAssumption DEF Replies
  <2> QED
    BY <1>16, <2>2, RespondTyped DEF StorePush
<1> QED
  BY <1>2, <1>3, <1>4, <1>5, <1>6, <1>7, <1>8, <1>9, <1>10, <1>11, <1>12, <1>13, <1>14,
     <1>15, <1>16, <1>17 DEF Moves, Work

(* The key of a request is one of the cache's.                             *)
LEMMA KeyTyped ==
  ASSUME NEW r \in Requests
  PROVE  Key(r) \in Ids \X Tails
BY RequestAssumption DEF Key

(* The stores' slice edits are those of SequenceLemmas.                    *)
LEMMA SameEdits ==
  ASSUME NEW s, NEW e
  PROVE  /\ Cache!MoveToFront(s, e) = Cons(e, RemoveFirst(s, e))
         /\ Cache!Front(s) = Front(s)
         /\ Tok!RemoveFirst(s, e) = RemoveFirst(s, e)
<1>1. Cache!RemoveFirst(s, e) = RemoveFirst(s, e)
  BY DEF Cache!RemoveFirst, Cache!RemoveAt, Cache!SelectInSeq, Cache!Min,
         RemoveFirst, RemoveAt, SelectInSeq, Min
<1>2. Tok!RemoveFirst(s, e) = RemoveFirst(s, e)
  BY DEF Tok!RemoveFirst, Tok!RemoveAt, Tok!SelectInSeq, Tok!Min,
         RemoveFirst, RemoveAt, SelectInSeq, Min
<1>3. Cache!MoveToFront(s, e) = Cons(e, RemoveFirst(s, e))
  BY <1>1 DEF Cache!MoveToFront, Cache!Cons, Cons
<1>4. Cache!Front(s) = Front(s)
  BY DEF Cache!Front, Front
<1> QED
  BY <1>2, <1>3, <1>4

(* The cache: what is put is an answer, and order keeps its keys.          *)
LEMMA CacheTyped ==
  ASSUME HandlerInv, Typed, NEW c \in Conns, Moves(c)
  PROVE  (Cache!CacheTypeOK)'
<1> DEFINE Pairs == Ids \X Tails
<1>1. /\ DOMAIN entries \subseteq Pairs /\ entries \in [DOMAIN entries -> Replies]
      /\ order \in Seq(Pairs)
  BY DEF Typed, HandlerTypeOK, Cache!CacheTypeOK, Cache!Resident
<1>2. ASSUME DOMAIN entries' \subseteq Pairs, entries' \in [DOMAIN entries' -> Replies],
             order' \in Seq(Pairs)
      PROVE  (Cache!CacheTypeOK)'
  BY <1>2 DEF Cache!CacheTypeOK, Cache!Resident
<1> HIDE DEF Pairs
<1>3. ASSUME NEW key \in Pairs
      PROVE  Cache!MoveToFront(order, key) \in Seq(Pairs)
  <2>1. RemoveFirst(order, key) \in Seq(Pairs)
    BY <1>1, RemoveFirstTyped
  <2> QED
    BY <2>1, ConsAddsFirst, SameEdits
<1>4. ASSUME NEW gone, NEW key \in Pairs, NEW value \in Replies,
             entries' = Cache!Updated(gone, key, value)
      PROVE  DOMAIN entries' \subseteq Pairs /\ entries' \in [DOMAIN entries' -> Replies]
  BY <1>1, <1>4 DEF Cache!Updated, Cache!Resident
<1>5. CASE UNCHANGED cacheVars
  BY <1>1, <1>2, <1>5 DEF cacheVars
<1>6. CASE Replay(c)
  <2>1. req[c] \in Requests
    BY <1>6 DEF Replay, At, HandlerInv, LocalsOK, LocalOK
  <2>2. Key(req[c]) \in Pairs
    BY <2>1, KeyTyped DEF Pairs
  <2>3. entries' = entries /\ order' = Cache!MoveToFront(order, Key(req[c]))
    BY <1>6 DEF Replay, Cache!Hit
  <2> QED
    BY <1>1, <1>2, <1>3, <2>2, <2>3
<1>7. CASE PutReply(c)
  <2> DEFINE key == Key(req[c])
  <2>1. req[c] \in Requests /\ reply[c] \in Replies
    BY <1>7 DEF PutReply, At, HandlerInv, LocalsOK, LocalOK, Typed
  <2>2. key \in Pairs
    BY <2>1, KeyTyped DEF Pairs
  <2> HIDE DEF key
  <2>3. Cache!PutFresh(key, reply[c]) \/ Cache!PutAgain(key, reply[c])
    BY <1>7 DEF PutReply, Cache!Put, key
  <2>4. \E gone : entries' = Cache!Updated(gone, key, reply[c])
    BY <2>3 DEF Cache!PutFresh, Cache!PutAgain
  <2>5. DOMAIN entries' \subseteq Pairs /\ entries' \in [DOMAIN entries' -> Replies]
    BY <1>4, <2>1, <2>2, <2>4
  <2>6. CASE order' = Append(order, key) \/ order' = Cache!MoveToFront(order, key)
    <3>1. Append(order, key) \in Seq(Pairs)
      BY <1>1, <2>2
    <3> QED
      BY <1>2, <1>3, <2>2, <2>5, <2>6, <3>1
  <2>7. CASE Cache!Full /\ order' = Append(Cache!Front(order), key)
    <3>1. Len(order) > 0
      BY <1>1, <2>7, HandlerAssumption DEF Cache!Full
    <3>2. Cache!Front(order) \in Seq(Pairs)
      BY <1>1, <3>1, FrontDropsLast, SameEdits
    <3>3. Append(Cache!Front(order), key) \in Seq(Pairs)
      BY <2>2, <3>2
    <3> QED
      BY <1>2, <2>5, <2>7, <3>3
  <2> QED
    BY <2>3, <2>6, <2>7 DEF Cache!PutFresh, Cache!PutAgain
<1> QED
  BY <1>5, <1>6, <1>7, SlicesLeftAlone

(* The token store: what is drawn is a tail, who it is drawn for a user.   *)
LEMMA TokensTyped ==
  ASSUME HandlerInv, Typed, NEW c \in Conns, Moves(c)
  PROVE  (Tok!TokenTypeOK)'
<1>1. /\ DOMAIN tokens \subseteq Tails /\ tokens \in [DOMAIN tokens -> Users]
      /\ tails \in Seq(Tails)
  BY DEF Typed, HandlerTypeOK, Tok!TokenTypeOK, Tok!Live
<1>2. ASSUME NEW u \in Users, NEW tail \in Tails, Tok!Generate(u, tail)
      PROVE  (Tok!TokenTypeOK)'
  BY <1>1, <1>2 DEF Tok!Generate, Tok!Live, Tok!TokenTypeOK
<1>3. ASSUME NEW tail, Tok!Revoke(tail)
      PROVE  (Tok!TokenTypeOK)'
  <2>1. tails' \in Seq(Tails)
    BY <1>1, <1>3, RemoveFirstTyped, SameEdits DEF Tok!Revoke
  <2>2. DOMAIN tokens' \subseteq Tails /\ tokens' \in [DOMAIN tokens' -> Users]
    BY <1>1, <1>3 DEF Tok!Revoke, Tok!Live
  <2> QED
    BY <2>1, <2>2 DEF Tok!Live, Tok!TokenTypeOK
<1>4. CASE UNCHANGED tokenVars
  BY <1>1, <1>4 DEF tokenVars, Tok!Live, Tok!TokenTypeOK
<1>5. CASE GenerateToken(c) \/ Mint(c)
  <2>1. PICK tail \in Tails : Tok!Generate(req[c].name, tail)
    BY <1>5 DEF GenerateToken, Mint
  <2>2. pc[c] \in {"dispatch", "mint"}
    BY <1>5 DEF GenerateToken, Mint, Serves, At
  <2>3. /\ req[c] \in Requests /\ req[c].route \in {"_create", "_token_generate"}
        /\ GoodName(req[c])
    BY <1>5, <2>2 DEF GenerateToken, Mint, Serves, At, HandlerInv, LocalsOK, LocalOK
  <2>4. req[c].name \in Users
    BY <2>3, RequestAssumption DEF GoodName, BadName
  <2> QED
    BY <1>2, <2>1, <2>4
<1>6. CASE RevokeToken(c)
  BY <1>3, <1>4, <1>6 DEF RevokeToken
<1> QED
  BY <1>4, <1>5, <1>6, SlicesLeftAlone

(* The file store: the handlers' uploads are of users, at a time that is   *)
(* on the clock.                                                           *)
LEMMA FilesTyped ==
  ASSUME HandlerInv, Typed, Record, NEW c \in Conns, Moves(c)
  PROVE  (Cfm!CfmTypeOK)'
<1> DEFINE Named == {CfmId(id) : id \in Ids}
<1> USE DEF Cfm!Indexed, Cfm!OnDisk
<1>1. /\ DOMAIN cfms \subseteq Named /\ cfms \in [DOMAIN cfms -> Cfm!Entry]
      /\ DOMAIN disk \subseteq Named /\ disk \in [DOMAIN disk -> Cfm!File]
      /\ now \in 0 .. MaxNow
  BY DEF Typed, HandlerTypeOK, Cfm!CfmTypeOK
<1>2. now' = now
  BY SlicesLeftAlone
<1>3. ASSUME DOMAIN cfms' \subseteq Named, cfms' \in [DOMAIN cfms' -> Cfm!Entry],
             DOMAIN disk' \subseteq Named, disk' \in [DOMAIN disk' -> Cfm!File]
      PROVE  (Cfm!CfmTypeOK)'
  BY <1>1, <1>2, <1>3 DEF Cfm!CfmTypeOK
<1> HIDE DEF Named
<1>4. CASE UNCHANGED <<cfms, disk>>
  BY <1>1, <1>3, <1>4
<1>5. CASE Upload(c)
  <2> DEFINE r == req[c]
             id == CfmId(r.id)
  <2>1. r \in Requests /\ r.route = "_cfm_upload" /\ Admitted(r, user[c])
    BY <1>5 DEF Upload, Serves, At, HandlerInv, LocalsOK, LocalOK
  <2>2. id \in Named /\ r.public \in BOOLEAN /\ r.expire \in Expiries
    BY <2>1, RequestAssumption DEF Named
  <2>3. user[c] \in Users
    BY <2>1, AdmittedUser
  <2> DEFINE entry == Cfm!SavedEntry(user[c], r.public, r.expire)
             whole == Cfm!Content(user[c], r.public, TRUE)
             part == Cfm!Content(user[c], r.public, FALSE)
  <2>4. entry \in Cfm!Entry
    <3>1. now + r.expire \in Cfm!Deadlines
      BY <1>1, <2>2 DEF Cfm!Deadlines
    <3> QED
      BY <2>2, <2>3, <3>1 DEF Cfm!SavedEntry, Cfm!Entry
  <2>5. whole \in Cfm!File /\ part \in Cfm!File
    BY <2>2, <2>3 DEF Cfm!Content, Cfm!File
  <2>6. \/ disk' = Cfm!With(disk, id, whole) /\ cfms' = Cfm!With(cfms, id, entry)
        \/ disk' = Cfm!With(disk, id, part) /\ UNCHANGED cfms
        \/ UNCHANGED <<cfms, disk>>
    <3>1. \/ Cfm!SaveDone(id, user[c], r.public, r.expire)
          \/ Cfm!SaveTorn(id, user[c], r.public)
          \/ UNCHANGED <<cfms, disk>>
      BY <1>5 DEF Upload, fileVars
    <3>2. CASE Cfm!SaveDone(id, user[c], r.public, r.expire)
      BY <3>2 DEF Cfm!SaveDone
    <3>3. CASE Cfm!SaveTorn(id, user[c], r.public)
      BY <3>3 DEF Cfm!SaveTorn
    <3> QED
      BY <3>1, <3>2, <3>3
  <2> HIDE DEF entry, whole, part, id
  <2>7. ASSUME NEW f, NEW R, DOMAIN f \subseteq Named, f \in [DOMAIN f -> R], NEW v \in R
        PROVE  /\ DOMAIN Cfm!With(f, id, v) \subseteq Named
               /\ Cfm!With(f, id, v) \in [DOMAIN Cfm!With(f, id, v) -> R]
    BY <2>2, <2>7 DEF Cfm!With
  <2>8. /\ DOMAIN Cfm!With(cfms, id, entry) \subseteq Named
        /\ Cfm!With(cfms, id, entry) \in [DOMAIN Cfm!With(cfms, id, entry) -> Cfm!Entry]
    BY <1>1, <2>4, <2>7
  <2>9. \A v \in Cfm!File :
           /\ DOMAIN Cfm!With(disk, id, v) \subseteq Named
           /\ Cfm!With(disk, id, v) \in [DOMAIN Cfm!With(disk, id, v) -> Cfm!File]
    BY <1>1, <2>7
  <2>10. CASE disk' = Cfm!With(disk, id, whole) /\ cfms' = Cfm!With(cfms, id, entry)
    BY <1>3, <2>5, <2>8, <2>9, <2>10
  <2>11. CASE disk' = Cfm!With(disk, id, part) /\ UNCHANGED cfms
    BY <1>1, <1>3, <2>5, <2>9, <2>11
  <2> QED
    BY <1>4, <2>6, <2>10, <2>11
<1>6. CASE Download(c)
  <2>1. \/ UNCHANGED <<cfms, disk>>
        \/ \E ids : disk' = Cfm!Without(disk, ids) /\ cfms' = Cfm!Without(cfms, ids)
    BY <1>6 DEF Download, Cfm!LoadExpired, fileVars
  <2>2. ASSUME NEW f, NEW R, NEW ids, DOMAIN f \subseteq Named, f \in [DOMAIN f -> R]
        PROVE  /\ DOMAIN Cfm!Without(f, ids) \subseteq Named
               /\ Cfm!Without(f, ids) \in [DOMAIN Cfm!Without(f, ids) -> R]
    BY <2>2 DEF Cfm!Without
  <2>3. ASSUME NEW ids, disk' = Cfm!Without(disk, ids), cfms' = Cfm!Without(cfms, ids)
        PROVE  (Cfm!CfmTypeOK)'
    <3>1. DOMAIN cfms' \subseteq Named /\ cfms' \in [DOMAIN cfms' -> Cfm!Entry]
      BY <1>1, <2>2, <2>3
    <3>2. DOMAIN disk' \subseteq Named /\ disk' \in [DOMAIN disk' -> Cfm!File]
      BY <1>1, <2>2, <2>3
    <3> QED
      BY <1>3, <3>1, <3>2
  <2> QED
    BY <1>4, <2>1, <2>3
<1> QED
  BY <1>4, <1>5, <1>6, LeftAlone

LEMMA AccountsTyped ==
  ASSUME HandlerInv, Typed, NEW c \in Conns, Moves(c)
  PROVE  accounts' \subseteq Users
<1>1. CASE Enrol(c)
  <2>1. req[c] \in Requests /\ req[c].route = "_create" /\ GoodName(req[c])
    BY <1>1 DEF Enrol, At, HandlerInv, LocalsOK, LocalOK
  <2>2. req[c].name \in Users
    BY <2>1, RequestAssumption DEF GoodName, BadName
  <2> QED
    BY <1>1, <2>2 DEF Enrol, Typed, HandlerTypeOK
<1> QED
  BY <1>1, LeftAlone DEF Typed, HandlerTypeOK

(* What StorePush appends, and where.                                      *)
LEMMA PushedMessage ==
  ASSUME HandlerInv, Typed, NEW c \in Conns, StorePush(c)
  PROVE  LET r == req[c]
             m == [id |-> r.id, sender |-> r.tail, stamp |-> stamp[c]]
         IN  /\ r \in Requests /\ r.route = "push" /\ Admitted(r, user[c])
             /\ r.inbox \in Inboxes /\ m \in Msg!Message
             /\ messages' = [messages EXCEPT ![r.inbox] = Append(@, m)]
             /\ Respond(c, [stored |-> r.id])
<1>1. req[c] \in Requests /\ req[c].route = "push" /\ Admitted(req[c], user[c])
  BY DEF StorePush, At, HandlerInv, LocalsOK, LocalOK
<1>2. req[c].id \in Ids /\ req[c].tail \in Tails /\ req[c].inbox \in Inboxes
  BY <1>1, RequestAssumption DEF Inboxes
<1>3. stamp[c] \in Nat
  BY DEF Typed
<1> QED
  BY <1>1, <1>2, <1>3 DEF StorePush, Msg!Store, Msg!Message

LEMMA InboxesTyped ==
  ASSUME HandlerInv, Typed, NEW c \in Conns, Moves(c)
  PROVE  messages' \in [Inboxes -> Seq(Msg!Message)]
<1>1. messages \in [Inboxes -> Seq(Msg!Message)]
  BY DEF Typed, HandlerTypeOK
<1>2. CASE StorePush(c)
  <2>1. PICK i \in Inboxes, m \in Msg!Message :
           messages' = [messages EXCEPT ![i] = Append(@, m)]
    BY <1>2, PushedMessage
  <2>2. Append(messages[i], m) \in Seq(Msg!Message)
    BY <1>1
  <2> QED
    BY <1>1, <2>1, <2>2
<1> QED
  BY <1>1, <1>2, SlicesLeftAlone

LEMMA UpTyped ==
  ASSUME Typed, \/ \E c \in Conns : Moves(c)
                \/ SweepMessages \/ SweepFiles \/ Tick
  PROVE  up' \in BOOLEAN
<1>1. up \in BOOLEAN
  BY DEF Typed, HandlerTypeOK
<1>2. CASE SweepMessages \/ SweepFiles \/ Tick
  BY <1>1, <1>2 DEF SweepMessages, SweepFiles, Tick
<1>3. ASSUME NEW c \in Conns, Moves(c) PROVE up' = up \/ up' = FALSE
  <2>1. CASE Panic(c)
    BY <2>1 DEF Panic
  <2>2. CASE Receive(c) \/ LookupToken(c) \/ Replay(c) \/ Miss(c) \/ Write(c)
    BY <2>2 DEF Receive, LookupToken, Replay, Miss, Write, envVars
  <2>3. CASE Refuse(c) \/ RefuseName(c) \/ Pull(c) \/ Watch(c) \/ PutReply(c)
    BY <2>3 DEF Refuse, RefuseName, Pull, Watch, PutReply, envVars
  <2>4. CASE Upload(c) \/ Download(c) \/ StampPush(c) \/ StorePush(c)
    BY <2>4 DEF Upload, Download, StampPush, StorePush, envVars
  <2>5. CASE GenerateToken(c) \/ ListTokens(c) \/ RevokeToken(c)
    BY <2>5 DEF GenerateToken, ListTokens, RevokeToken, envVars
  <2>6. CASE CheckAccount(c) \/ Mint(c) \/ Enrol(c) \/ ListAccounts(c)
    BY <2>6 DEF CheckAccount, Mint, Enrol, ListAccounts, envVars
  <2> QED
    BY <1>3, <2>1, <2>2, <2>3, <2>4, <2>5, <2>6 DEF Moves, Work
<1> QED
  BY <1>1, <1>2, <1>3

(* The cleanup loop and the clock.                                         *)
LEMMA SweepTyped ==
  ASSUME HandlerInv, Typed, SweepMessages \/ SweepFiles \/ Tick
  PROVE  Typed'
<1>1. /\ UNCHANGED localVars /\ UNCHANGED cacheVars /\ UNCHANGED tokenVars
      /\ UNCHANGED accounts
  BY DEF SweepMessages, SweepFiles, Tick
<1>2. messages' \in [Inboxes -> Seq(Msg!Message)]
  <2>1. messages \in [Inboxes -> Seq(Msg!Message)]
    BY DEF Typed, HandlerTypeOK
  <2>2. CASE SweepMessages
    <3>1. \A i \in Inboxes : Msg!Keeping(messages[i], Msg!Unexpired) \in Seq(Msg!Message)
      BY <2>1, KeptMessages
    <3> QED
      BY <2>2, <3>1 DEF SweepMessages, Msg!Cleanup
  <2> QED
    BY <2>1, <2>2 DEF SweepFiles, Tick
<1>3. (Cfm!CfmTypeOK)'
  <2> USE DEF Cfm!Indexed, Cfm!OnDisk
  <2>1. Cfm!CfmTypeOK
    BY DEF Typed, HandlerTypeOK
  <2>2. CASE SweepFiles
    <3>1. PICK old : /\ disk' = Cfm!Without(disk, old) /\ cfms' = Cfm!Without(cfms, old)
                     /\ now' = now
      BY <2>2 DEF SweepFiles, Cfm!CfmCleanup
    <3> QED
      BY <2>1, <3>1 DEF Cfm!Without, Cfm!CfmTypeOK
  <2>3. CASE SweepMessages
    BY <2>1, <2>3 DEF SweepMessages, Msg!Cleanup, fileVars, Cfm!CfmTypeOK
  <2>4. CASE Tick
    <3>1. now' \in 0 .. MaxNow
      BY <2>1, <2>4, HandlerAssumption DEF Tick, Cfm!CfmTypeOK
    <3> QED
      BY <2>1, <2>4, <3>1 DEF Tick, fileVars, Cfm!CfmTypeOK
  <2> QED
    BY <2>2, <2>3, <2>4
<1>4. (Cache!CacheTypeOK)' /\ (Tok!TokenTypeOK)'
  BY <1>1 DEF Typed, HandlerTypeOK, cacheVars, tokenVars, Cache!CacheTypeOK, Cache!Resident,
              Tok!TokenTypeOK, Tok!Live
<1> QED
  BY <1>1, <1>2, <1>3, <1>4, UpTyped DEF Typed, HandlerTypeOK, localVars

LEMMA TypedStep == HandlerInv /\ Typed /\ HandlerInv' /\ [HistoryNext]_historyVars => Typed'
<1> SUFFICES ASSUME HandlerInv, Typed, HandlerInv', [HistoryNext]_historyVars
             PROVE  Typed'
  OBVIOUS
<1>1. ASSUME NEW c \in Conns, Moves(c), Record
      PROVE  Typed'
  <2>1. /\ (Cache!CacheTypeOK)' /\ (Tok!TokenTypeOK)' /\ (Cfm!CfmTypeOK)'
        /\ accounts' \subseteq Users /\ messages' \in [Inboxes -> Seq(Msg!Message)]
    BY <1>1, CacheTyped, TokensTyped, FilesTyped, AccountsTyped, InboxesTyped
  <2>2. StepOK(c)
    BY <1>1, WorkStep
  <2>3. ASSUME NEW d \in Conns, pc'[d] \in {"enrol", "put", "write"}
        PROVE  reply'[d] \in Replies
    <3>1. CASE d = c
      BY <1>1, <2>3, <3>1, ReplyTyped
    <3>2. CASE d # c
      BY <2>2, <2>3, <3>2 DEF StepOK, LocalStep, Typed
    <3> QED
      BY <3>1, <3>2
  <2>4. \A d \in Conns : reply'[d] \in Replies \union {None}
    BY <2>3 DEF HandlerInv, LocalsOK, LocalOK
  <2>5. /\ UNCHANGED pc \/ \E l : pc' = [pc EXCEPT ![c] = l]
        /\ \/ UNCHANGED req
           \/ \E r \in Requests \union {None} : req' = [req EXCEPT ![c] = r]
        /\ UNCHANGED user \/ \E u : user' = [user EXCEPT ![c] = u]
        /\ UNCHANGED stamp \/ \E t \in {0, now} : stamp' = [stamp EXCEPT ![c] = t]
    BY <1>1, LocalShapes
  <2>6. pc' \in [Conns -> Labels]
    <3>1. pc \in [Conns -> Labels]
      BY DEF Typed, HandlerTypeOK, Labels
    <3>2. pc' = [d \in Conns |-> pc'[d]]
      BY <2>5, <3>1
    <3>3. \A d \in Conns : pc'[d] \in Labels
      BY DEF HandlerInv, LocalsOK, LocalOK
    <3> QED
      BY <3>2, <3>3
  <2>7. req' \in [Conns -> Requests \union {None}]
    BY <2>5 DEF Typed, HandlerTypeOK
  <2>8. user' \in [Conns -> Users \union {None}]
    <3>1. user \in [Conns -> Users \union {None}]
      BY DEF Typed, HandlerTypeOK
    <3>2. user' = [d \in Conns |-> user'[d]]
      BY <2>5, <3>1
    <3>3. \A d \in Conns : user'[d] # None => <<req'[d].tail, user'[d]>>[2] \in Users
      BY DEF HandlerInv, UsersBound, BoundOK
    <3>4. \A d \in Conns : user'[d] \in Users \union {None}
      BY <3>3
    <3> QED
      BY <3>2, <3>4
  <2>9. stamp' \in [Conns -> Nat]
    <3>1. now \in Nat /\ 0 \in Nat
      BY HandlerAssumption DEF Typed, HandlerTypeOK, Cfm!CfmTypeOK
    <3> QED
      BY <2>5, <3>1 DEF Typed
  <2> QED
    BY <1>1, <2>1, <2>3, <2>4, <2>6, <2>7, <2>8, <2>9, UpTyped DEF Typed, HandlerTypeOK, Labels
<1>2. CASE UNCHANGED historyVars
  BY <1>2 DEF historyVars, vars, localVars, cacheVars, tokenVars, fileVars, envVars, Typed,
              HandlerTypeOK, Cache!CacheTypeOK, Cache!Resident, Tok!TokenTypeOK, Tok!Live,
              Cfm!CfmTypeOK, Cfm!Indexed, Cfm!OnDisk
<1>3. CASE HistoryNext
  BY <1>1, <1>3, SweepTyped DEF HistoryNext, Next, Moves
<1> QED
  BY <1>2, <1>3

LEMMA TypedAlways == HistorySpec => [](HandlerInv /\ Typed)
BY HandlerInit_Inv, HandlerStep, TypedInit, TypedStep, PTL DEF HistorySpec

(* The handlers' locals, the answers under way, the cached ones and all    *)
(* the stores keep the types of the Go fields; in particular an inbox is   *)
(* a slice of messages whatever Cleanup takes out of it.                   *)
THEOREM HandlerTypes == HistorySpec => []HandlerTypeOK
<1>1. Typed => HandlerTypeOK
  BY DEF Typed
<1> QED
  BY <1>1, TypedAlways, PTL

-----------------------------------------------------------------------------
(* What was stored.                                                        *)

MailInv == OnlyOwnerPushes /\ AcknowledgedIsStored

(* An arrival is the message that StorePush appended.                      *)
LEMMA ArrivalOfPush ==
  ASSUME HandlerInv, Typed, Record, NEW c \in Conns, StorePush(c)
  PROVE  pushed' = pushed \union {<<req[c].inbox, req[c].tail, req[c].id>>}
<1> DEFINE r == req[c]
           m == [id |-> r.id, sender |-> r.tail, stamp |-> stamp[c]]
           old == messages[r.inbox]
<1>1. /\ r.inbox \in Inboxes /\ m \in Msg!Message
      /\ messages' = [messages EXCEPT ![r.inbox] = Append(@, m)]
  BY PushedMessage
<1>2. messages \in [Inboxes -> Seq(Msg!Message)]
  BY DEF Typed, HandlerTypeOK
<1>3. pc[c] = "store" /\ pc'[c] # "store"
  BY DEF StorePush, At, Respond, Goto, HandlerInv, LocalsOK
<1>4. m.sender = r.tail /\ m.id = r.id
  OBVIOUS
<1>5. messages'[r.inbox] = Append(old, m) /\ old \in Seq(Msg!Message)
  BY <1>1, <1>2
<1>6. \A i \in Inboxes : i # r.inbox => messages'[i] = messages[i]
  BY <1>1, <1>2
<1> HIDE DEF m, old, r
<1>7. Len(Append(old, m)) = Len(old) + 1 /\ Append(old, m)[Len(old) + 1] = m /\ Len(old) \in Nat
  BY <1>1, <1>5, AppendProperties
<1>8. Last(messages'[r.inbox]) = m
  BY <1>5, <1>7 DEF Last
<1>9. messages'[r.inbox] # messages[r.inbox]
  BY <1>5, <1>7 DEF old
<1>10. Arrivals = {r.inbox}
  BY <1>1, <1>3, <1>6, <1>9 DEF Arrivals
<1>11. pushed' = pushed \union {<<r.inbox, r.tail, r.id>>}
  BY <1>4, <1>8, <1>10 DEF Record
<1> QED
  BY <1>11 DEF r

LEMMA NoArrival ==
  ASSUME HandlerInv, Typed, Record,
         \/ SweepMessages \/ SweepFiles \/ Tick
         \/ \E c \in Conns : Moves(c) /\ ~StorePush(c)
  PROVE  pushed' = pushed
<1>1. UNCHANGED pc \/ UNCHANGED messages
  BY SweepsLeaveAlone, SlicesLeftAlone
<1>2. Arrivals = {}
  BY <1>1 DEF Arrivals
<1> QED
  BY <1>2 DEF Record

(* Only a push is answered with a field "stored", and only a _create with  *)
(* a field "created".                                                      *)
LEMMA AnswerFields ==
  ASSUME HandlerInv, Record, NEW c \in Conns, Moves(c),
         pc[c] # "put", pc'[c] = "put"
  PROVE  \/ StorePush(c) /\ reply'[c] = [stored |-> req[c].id]
         \/ Enrol(c) /\ reply'[c] = reply[c]
         \/ DOMAIN reply'[c] \intersect {"stored", "created"} = {}
<1> DEFINE Plain(r) == DOMAIN r \intersect {"stored", "created"} = {}
<1>1. \A r : Respond(c, r) => reply'[c] = r
  BY DEF Respond, HandlerInv, LocalsOK
<1>2. \A l : Goto(c, l) => pc'[c] = l
  BY DEF Goto, HandlerInv, LocalsOK
<1>3. CASE StorePush(c)
  <2>1. reply'[c] = [stored |-> req[c].id]
    BY <1>1, <1>3 DEF StorePush
  <2> QED
    BY <1>3, <2>1
<1>4. ~(Receive(c) \/ LookupToken(c) \/ Replay(c) \/ Miss(c) \/ StampPush(c) \/ Mint(c)
        \/ PutReply(c) \/ Panic(c) \/ Write(c))
  BY <1>2 DEF Receive, LookupToken, Replay, Miss, StampPush, Mint, PutReply, Panic, localVars,
              Write
<1>5. CASE Enrol(c)
  BY <1>5 DEF Enrol
<1>6. \A code : Respond(c, Error(code)) => Plain(reply'[c])
  BY <1>1 DEF Error
<1>7. Refuse(c) \/ RefuseName(c) \/ CheckAccount(c) => Plain(reply'[c])
  BY <1>2, <1>6 DEF Refuse, RefuseName, CheckAccount
<1>8. \A x : Plain([cfm |-> x]) /\ Plain([file |-> x]) /\ Plain([revoked |-> x])
  OBVIOUS
<1>9. Upload(c) \/ Download(c) \/ RevokeToken(c) => Plain(reply'[c])
  <2>1. Upload(c) => Respond(c, Error(5002)) \/ Respond(c, [cfm |-> CfmId(req[c].id)])
    BY DEF Upload
  <2>2. Download(c) => Respond(c, Error(5002)) \/ Respond(c, [file |-> disk[req[c].file]])
    BY DEF Download
  <2>3. RevokeToken(c) => Respond(c, Error(1007)) \/ Respond(c, [revoked |-> req[c].victim])
    BY DEF RevokeToken
  <2>4. /\ Respond(c, Error(5002)) => Plain(reply'[c])
        /\ Respond(c, Error(1007)) => Plain(reply'[c])
    BY <1>6
  <2>5. Respond(c, [cfm |-> CfmId(req[c].id)]) => Plain(reply'[c])
    BY <1>1, <1>8
  <2>6. Respond(c, [file |-> disk[req[c].file]]) => Plain(reply'[c])
    BY <1>1, <1>8
  <2>7. Respond(c, [revoked |-> req[c].victim]) => Plain(reply'[c])
    BY <1>1, <1>8
  <2> QED
    BY <2>1, <2>2, <2>3, <2>4, <2>5, <2>6, <2>7
<1>10. Pull(c) \/ Watch(c) \/ GenerateToken(c) \/ ListTokens(c) \/ ListAccounts(c)
       => Plain(reply'[c])
  <2>1. \A inbox, found : Respond(c, [from |-> inbox, pulled |-> found]) => Plain(reply'[c])
    BY <1>1
  <2>2. \A x : \/ Respond(c, [latest |-> x]) \/ Respond(c, [minted |-> x])
              \/ Respond(c, [listed |-> x]) \/ Respond(c, [accounts |-> x])
              => Plain(reply'[c])
    BY <1>1
  <2>3. Pull(c) \/ GenerateToken(c) => Plain(reply'[c])
    BY <2>1, <2>2 DEF Pull, GenerateToken
  <2>4. Watch(c) \/ ListTokens(c) \/ ListAccounts(c) => Plain(reply'[c])
    BY <2>2 DEF Watch, ListTokens, ListAccounts
  <2> QED
    BY <2>3, <2>4
<1> QED
  BY <1>3, <1>4, <1>5, <1>7, <1>9, <1>10 DEF Moves, Work

LEMMA StoredAnswersPush ==
  ASSUME HandlerInv, Record, NEW c \in Conns, Moves(c),
         pc[c] # "put", pc'[c] = "put", "stored" \in DOMAIN reply'[c]
  PROVE  StorePush(c) /\ reply'[c].stored = req[c].id
<1>1. ~(Enrol(c) /\ reply'[c] = reply[c])
  BY DEF Enrol, At, HandlerInv, LocalsOK, LocalOK
<1>2. DOMAIN reply'[c] \intersect {"stored", "created"} # {}
  OBVIOUS
<1>3. StorePush(c) /\ reply'[c] = [stored |-> req[c].id]
  BY <1>1, <1>2, AnswerFields
<1> QED
  BY <1>3

(* Who has just finished is the handler that took the step.                *)
LEMMA FinishingSteps ==
  ASSUME HandlerInv, HistoryNext, NEW c \in Finishing
  PROVE  c \in Conns /\ pc[c] # "put" /\ pc'[c] = "put" /\ Moves(c)
<1>1. c \in Conns /\ pc[c] # "put" /\ pc'[c] = "put" /\ Record
  BY DEF Finishing, HistoryNext
<1>2. ~(SweepMessages \/ SweepFiles \/ Tick)
  BY <1>1, SweepsLeaveAlone
<1>3. PICK d \in Conns : Moves(d)
  BY <1>2 DEF HistoryNext, Next, Moves
<1>4. StepOK(d)
  BY <1>1, <1>3, WorkStep
<1>5. d = c
  BY <1>1, <1>4 DEF StepOK, LocalStep
<1> QED
  BY <1>1, <1>3, <1>5

LEMMA MailStep ==
  HandlerInv /\ Typed /\ MailInv /\ [HistoryNext]_historyVars => MailInv'
<1> SUFFICES ASSUME HandlerInv, Typed, MailInv, [HistoryNext]_historyVars
             PROVE  MailInv'
  OBVIOUS
<1>1. CASE UNCHANGED historyVars
  BY <1>1 DEF historyVars, MailInv, OnlyOwnerPushes, AcknowledgedIsStored
<1>2. CASE HistoryNext
  <2>0. Record
    BY <1>2 DEF HistoryNext
  <2>1. pushed \subseteq pushed'
    BY <2>0 DEF Record
  <2>2. OnlyOwnerPushes'
    <3>1. CASE pushed' = pushed
      BY <2>0, <3>1, HistoryGrows DEF MailInv, OnlyOwnerPushes
    <3>2. ASSUME NEW c \in Conns, StorePush(c)
          PROVE  OnlyOwnerPushes'
      <4>1. pushed' = pushed \union {<<req[c].inbox, req[c].tail, req[c].id>>}
        BY <2>0, <3>2, ArrivalOfPush
      <4>2. req[c].route = "push" /\ Admitted(req[c], user[c])
        BY <3>2, PushedMessage
      <4>3. req[c].inbox \in Users => req[c].inbox = user[c]
        BY <4>2 DEF Admitted, ForeignInbox
      <4>4. <<req[c].tail, user[c]>> \in bound'
        BY <2>0, <4>2, AdmittedUser DEF Identity
      <4>5. \A p \in pushed : p[1] \in Users => <<p[2], p[1]>> \in bound'
        BY <2>0, HistoryGrows DEF MailInv, OnlyOwnerPushes
      <4> QED
        BY <4>1, <4>3, <4>4, <4>5 DEF OnlyOwnerPushes
    <3> QED
      BY <1>2, <2>0, <3>1, <3>2, NoArrival DEF HistoryNext, Next, Moves, Work
  <2>3. AcknowledgedIsStored'
    <3> SUFFICES ASSUME NEW a \in answered', "stored" \in DOMAIN a[2]
                 PROVE  \E p \in pushed' : <<p[3], p[2]>> = a[1] /\ p[3] = a[2].stored
      BY DEF AcknowledgedIsStored
    <3>1. CASE a \in answered
      BY <2>1, <3>1 DEF MailInv, AcknowledgedIsStored
    <3>2. CASE a \notin answered
      <4>1. PICK c \in Finishing : a = <<Identity(req[c]), reply'[c]>>
        BY <2>0, <3>2 DEF Record
      <4>2. c \in Conns /\ pc[c] # "put" /\ pc'[c] = "put"
        BY <4>1 DEF Finishing
      <4>3. Moves(c)
        BY <1>2, <4>1, FinishingSteps
      <4>4. StorePush(c) /\ reply'[c].stored = req[c].id
        BY <2>0, <4>1, <4>2, <4>3, StoredAnswersPush
      <4>5. <<req[c].inbox, req[c].tail, req[c].id>> \in pushed'
        BY <2>0, <4>2, <4>4, ArrivalOfPush
      <4> QED
        BY <4>1, <4>4, <4>5 DEF Identity
    <3> QED
      BY <3>1, <3>2
  <2> QED
    BY <2>2, <2>3 DEF MailInv
<1> QED
  BY <1>1, <1>2

LEMMA MailAlways == HistorySpec => []MailInv
<1>1. HistoryInit => MailInv
  BY DEF HistoryInit, MailInv, OnlyOwnerPushes, AcknowledgedIsStored
<1> QED
  BY <1>1, MailStep, TypedAlways, PTL DEF HistorySpec

(* A message gets into smp@u only from a tail that was bound to u, though  *)
(* the token may be revoked, or its tail minted again for another, between *)
(* the check of authorizeInbox and the call of Store.                      *)
THEOREM PushesStayOwn == HistorySpec => []OnlyOwnerPushes
<1>1. MailInv => OnlyOwnerPushes
  BY DEF MailInv
<1> QED
  BY <1>1, MailAlways, PTL

(* "ok:<id>" is written, or kept in the cache, only for a message that the *)
(* store took from this tail: the default case of ProcessParsedMessage     *)
(* stores before it answers, and no other answer looks like it.            *)
THEOREM AcknowledgedStored == HistorySpec => []AcknowledgedIsStored
<1>1. MailInv => AcknowledgedIsStored
  BY DEF MailInv
<1> QED
  BY <1>1, MailAlways, PTL

-----------------------------------------------------------------------------
(* Created once.                                                           *)

(* No two connections handle a _create for one name at the same time.  The *)
(* code does not see to this: accounts.Get and accounts.Create are two     *)
(* calls, and without it a user may be created twice.                      *)
DistinctNames ==
    \A c, d \in Busy :
        c # d /\ req[c].route = "_create" /\ req[d].route = "_create"
        => req[c].name # req[d].name

OneCreateSpec == HistoryInit /\ [][HistoryNext /\ DistinctNames']_historyVars

(* From accounts.Get to accounts.Create the user is missing; who was told  *)
(* that a user is created was told of one that has an account.             *)
CreatedInv ==
    /\ DistinctNames
    /\ \A c \in Conns : pc[c] \in {"mint", "enrol"} => req[c].name \notin accounts
    /\ \A c \in Conns : pc[c] = "enrol" => reply[c].created = req[c].name
    /\ \A a \in answered : "created" \in DOMAIN a[2] => a[2].created \in accounts
    /\ CreatedOnce

LEMMA CreatedInit == HistoryInit => CreatedInv
BY DEF HistoryInit, Init, CreatedInv, DistinctNames, Busy, CreatedOnce

(* Who is between the two calls found no account, or has been there.       *)
LEMMA CreatingStep ==
  ASSUME HandlerInv, Typed, CreatedInv, NEW c \in Conns, Moves(c), Record,
         pc'[c] \in {"mint", "enrol"}
  PROVE  /\ req'[c].name \notin accounts' /\ UNCHANGED accounts
         /\ pc'[c] = "enrol" => reply'[c].created = req'[c].name
<1>1. \A l : Goto(c, l) => pc'[c] = l
  BY DEF Goto, HandlerInv, LocalsOK
<1>2. \A r : Respond(c, r) => pc'[c] = "put"
  BY <1>1 DEF Respond
<1>3. CASE Mint(c)
  <2>1. PICK t : reply' = [reply EXCEPT ![c] = [created |-> req[c].name, token |-> t]]
    BY <1>3 DEF Mint
  <2>2. reply'[c] = [created |-> req[c].name, token |-> t]
    BY <2>1 DEF HandlerInv, LocalsOK
  <2>3. reply'[c].created = req[c].name
    BY <2>2
  <2>4. pc[c] = "mint" /\ req' = req /\ accounts' = accounts
    BY <1>3 DEF Mint, At
  <2> QED
    BY <2>3, <2>4 DEF CreatedInv
<1>4. CASE CheckAccount(c)
  <2>1. req[c].name \notin accounts /\ pc'[c] = "mint" /\ req' = req /\ accounts' = accounts
    BY <1>1, <1>2, <1>4 DEF CheckAccount
  <2> QED
    BY <2>1
<1>5. CASE ~(Mint(c) \/ CheckAccount(c))
  <2>1. ~(Receive(c) \/ LookupToken(c) \/ Replay(c) \/ Miss(c) \/ StampPush(c) \/ Enrol(c)
          \/ PutReply(c) \/ Panic(c) \/ Write(c))
    BY <1>1 DEF Receive, LookupToken, Replay, Miss, StampPush, Enrol, PutReply, Panic,
                localVars, Serves, At, Write
  <2>2. ~(Refuse(c) \/ RefuseName(c) \/ Pull(c) \/ Watch(c) \/ Upload(c) \/ Download(c))
    <3>1. \A r : ~Respond(c, r)
      BY <1>2
    <3>2. ~Refuse(c) /\ ~RefuseName(c)
      BY <3>1 DEF Refuse, RefuseName
    <3>3. ~Pull(c) /\ ~Watch(c)
      BY <3>1 DEF Pull, Watch
    <3>4. ~Upload(c)
      BY <3>1 DEF Upload
    <3>5. ~Download(c)
      BY <3>1 DEF Download
    <3> QED
      BY <3>2, <3>3, <3>4, <3>5
  <2>3. ~(GenerateToken(c) \/ ListTokens(c) \/ RevokeToken(c) \/ ListAccounts(c)
          \/ StorePush(c))
    <3>1. \A r : ~Respond(c, r)
      BY <1>2
    <3>2. ~GenerateToken(c) /\ ~ListTokens(c)
      BY <3>1 DEF GenerateToken, ListTokens
    <3>3. ~RevokeToken(c) /\ ~ListAccounts(c)
      BY <3>1 DEF RevokeToken, ListAccounts
    <3>4. ~StorePush(c)
      BY <3>1 DEF StorePush
    <3> QED
      BY <3>2, <3>3, <3>4
  <2> QED
    BY <1>5, <2>1, <2>2, <2>3 DEF Moves, Work
<1> QED
  BY <1>3, <1>4, <1>5

LEMMA CreatedStep ==
  ASSUME HandlerInv, Typed, CreatedInv, DistinctNames', [HistoryNext]_historyVars
  PROVE  CreatedInv'
<1>1. CASE UNCHANGED historyVars
  BY <1>1 DEF historyVars, vars, localVars, CreatedInv, DistinctNames, Busy, CreatedOnce
<1>2. CASE HistoryNext
  <2>0. Record
    BY <1>2 DEF HistoryNext
  <2>1. accounts \subseteq accounts'
    BY <1>2, LeftAlone, SweepsLeaveAlone DEF HistoryNext, Next, Moves, Enrol
  <2>2. ASSUME NEW d \in Conns, pc'[d] \in {"mint", "enrol"}
        PROVE  /\ req'[d].name \notin accounts'
               /\ pc'[d] = "enrol" => reply'[d].created = req'[d].name
    <3>1. CASE SweepMessages \/ SweepFiles \/ Tick
      BY <2>2, <3>1, SweepsLeaveAlone DEF CreatedInv
    <3>2. ASSUME NEW c \in Conns, Moves(c)
          PROVE  /\ req'[d].name \notin accounts'
                 /\ pc'[d] = "enrol" => reply'[d].created = req'[d].name
      <4>1. CASE c = d
        BY <2>0, <2>2, <3>2, <4>1, CreatingStep
      <4>2. CASE c # d
        <5>1. StepOK(c)
          BY <2>0, <3>2, WorkStep
        <5>2. pc'[d] = pc[d] /\ req'[d] = req[d] /\ reply'[d] = reply[d]
          BY <4>2, <5>1 DEF StepOK, LocalStep
        <5>3. /\ req[d].name \notin accounts
              /\ pc[d] = "enrol" => reply[d].created = req[d].name
          BY <2>2, <5>2 DEF CreatedInv
        <5>4. CASE Enrol(c)
          <6>1. pc[c] = "enrol" /\ accounts' = accounts \union {req[c].name}
            BY <5>4 DEF Enrol, At
          <6>2. req[c].route = "_create" /\ req[d].route = "_create"
            BY <2>2, <5>2, <6>1 DEF HandlerInv, LocalsOK, LocalOK
          <6>3. req[c].name # req[d].name
            BY <2>2, <4>2, <5>2, <6>1, <6>2 DEF CreatedInv, DistinctNames, Busy
          <6> QED
            BY <5>2, <5>3, <6>1, <6>3
        <5>5. CASE UNCHANGED accounts
          BY <5>2, <5>3, <5>5
        <5> QED
          BY <3>2, <5>4, <5>5, LeftAlone
      <4> QED
        BY <4>1, <4>2
    <3> QED
      BY <1>2, <3>1, <3>2 DEF HistoryNext, Next, Moves
  <2>3. ASSUME NEW a \in answered', a \notin answered, "created" \in DOMAIN a[2]
        PROVE  \E c \in Finishing : /\ a = <<Identity(req[c]), reply'[c]>>
                                    /\ a[2].created = req[c].name
                                    /\ req[c].name \in accounts' \ accounts
    <3>1. PICK c \in Finishing : a = <<Identity(req[c]), reply'[c]>>
      BY <2>0, <2>3 DEF Record
    <3>2. c \in Conns /\ pc[c] # "put" /\ pc'[c] = "put" /\ Moves(c)
      BY <1>2, FinishingSteps
    <3>3. "created" \in DOMAIN reply'[c]
      BY <2>3, <3>1
    <3>4. "created" \notin DOMAIN [stored |-> req[c].id]
      OBVIOUS
    <3>5. Enrol(c) /\ reply'[c] = reply[c]
      BY <2>0, <3>2, <3>3, <3>4, AnswerFields
    <3>6. pc[c] = "enrol" /\ accounts' = accounts \union {req[c].name}
      BY <3>5 DEF Enrol, At
    <3>7. a[2].created = req[c].name /\ req[c].name \notin accounts
      BY <3>1, <3>2, <3>5, <3>6 DEF CreatedInv
    <3> QED
      BY <3>1, <3>6, <3>7
  <2>4. \A a \in answered' : "created" \in DOMAIN a[2] => a[2].created \in accounts'
    BY <2>1, <2>3 DEF CreatedInv
  <2>5. \A c, d \in Finishing : c = d
    <3> SUFFICES ASSUME NEW c \in Finishing, NEW d \in Finishing PROVE c = d
      OBVIOUS
    <3>1. /\ c \in Conns /\ Moves(c)
          /\ d \in Conns /\ pc[d] # "put" /\ pc'[d] = "put"
      BY <1>2, FinishingSteps
    <3>2. StepOK(c)
      BY <2>0, <3>1, WorkStep
    <3> QED
      BY <3>1, <3>2 DEF StepOK, LocalStep
  <2>6. CreatedOnce'
    <3> SUFFICES ASSUME NEW a \in answered', NEW b \in answered',
                        "created" \in DOMAIN a[2], "created" \in DOMAIN b[2],
                        a[2].created = b[2].created
                 PROVE  a = b
      BY DEF CreatedOnce
    <3>1. CASE a \in answered /\ b \in answered
      BY <3>1 DEF CreatedInv, CreatedOnce
    <3>2. CASE a \in answered /\ b \notin answered
      BY <2>3, <3>2 DEF CreatedInv
    <3>3. CASE a \notin answered /\ b \in answered
      BY <2>3, <3>3 DEF CreatedInv
    <3>4. CASE a \notin answered /\ b \notin answered
      BY <2>3, <2>5, <3>4
    <3> QED
      BY <3>1, <3>2, <3>3, <3>4
  <2> QED
    BY <2>2, <2>4, <2>6 DEF CreatedInv
<1> QED
  BY <1>1, <1>2

(* When no two _create requests for one name are handled at the same time, *)
(* a user is created once: whoever asks later, with another message or     *)
(* after the first answer was evicted from the cache, gets no token.       *)
THEOREM UserCreatedOnce == OneCreateSpec => []CreatedOnce
<1>1. HandlerInv /\ Typed /\ CreatedInv /\ [HistoryNext /\ DistinctNames']_historyVars
      => HandlerInv' /\ Typed' /\ CreatedInv'
  <2> SUFFICES ASSUME HandlerInv, Typed, CreatedInv,
                      [HistoryNext /\ DistinctNames']_historyVars
               PROVE  HandlerInv' /\ Typed' /\ CreatedInv'
    OBVIOUS
  <2>1. [HistoryNext]_historyVars
    OBVIOUS
  <2>2. HandlerInv' /\ Typed'
    BY <2>1, HandlerStep, TypedStep
  <2>3. DistinctNames'
    BY DEF CreatedInv, DistinctNames, Busy, historyVars, vars, localVars
  <2> QED
    BY <2>1, <2>2, <2>3, CreatedStep
<1>2. CreatedInv => CreatedOnce
  BY DEF CreatedInv
<1> QED
  BY <1>1, <1>2, HandlerInit_Inv, TypedInit, CreatedInit, PTL DEF OneCreateSpec

-----------------------------------------------------------------------------
(* Executed once.                                                          *)

Wanted == {Identity(r) : r \in Requests}

(* The cache has room for every key the clients use, so that none is ever  *)
(* evicted: a message whose key was evicted is executed again.             *)
RoomForAll == IsFiniteSet(Wanted) /\ Cardinality(Wanted) <= CacheSize

CacheRoom ==
    /\ IsInjective(order) /\ ToSet(order) = Cache!Resident
    /\ Cache!Resident \subseteq Wanted

Missed == {"dispatch", "store", "mint", "enrol", "put"}

(* Between its miss and its put a handler is the only one that has its     *)
(* key, so the key stays out of the cache; what is being written is what   *)
(* the cache has.                                                          *)
OnceInv ==
    /\ DistinctMessages
    /\ CacheRoom
    /\ \A c \in Conns : pc[c] \in Missed => Identity(req[c]) \notin Cache!Resident
    /\ \A c \in Conns : pc[c] = "write" =>
          /\ Identity(req[c]) \in Cache!Resident
          /\ reply[c] = entries[Identity(req[c])]

(* The steps of a handler, by what they do to the cache and the answers.   *)
Handling(c) ==
    /\ pc[c] \notin {"put", "write"} /\ pc'[c] \notin {"put", "write"}
    /\ pc'[c] \in Missed => /\ req'[c] = req[c]
                            /\ pc[c] \in Missed \/ Identity(req[c]) \notin Cache!Resident
    /\ UNCHANGED cacheVars

Computing(c) ==
    /\ pc[c] \in Missed \ {"put"} /\ pc'[c] = "put"
    /\ req'[c] = req[c] /\ UNCHANGED cacheVars

Putting(c) ==
    /\ pc[c] = "put" /\ pc'[c] = "write"
    /\ req'[c] = req[c] /\ reply'[c] = reply[c]
    /\ Cache!Put(Identity(req[c]), reply[c])

Replaying(c) ==
    /\ pc[c] = "cache" /\ pc'[c] = "write"
    /\ req'[c] = req[c] /\ reply'[c] = entries[Identity(req[c])]
    /\ Cache!Hit(Identity(req[c]))

Writing(c) == pc[c] = "write" /\ pc'[c] = "idle" /\ UNCHANGED cacheVars

LEMMA StepKinds ==
  ASSUME HandlerInv, NEW c \in Conns, Moves(c)
  PROVE  Handling(c) \/ Computing(c) \/ Putting(c) \/ Replaying(c) \/ Writing(c)
<1>1. \A l : Goto(c, l) => pc'[c] = l
  BY DEF Goto, HandlerInv, LocalsOK
<1>2. Key(req[c]) = Identity(req[c])
  BY DEF Key, Identity
<1>3. CASE Receive(c)
  <2>1. pc[c] = "idle" /\ pc'[c] = "lookup" /\ UNCHANGED cacheVars
    BY <1>1, <1>3 DEF Receive, At
  <2> QED
    BY <2>1 DEF Handling, Missed
<1>4. CASE LookupToken(c)
  <2>1. pc[c] = "lookup" /\ pc'[c] = "cache" /\ UNCHANGED cacheVars
    BY <1>1, <1>4 DEF LookupToken, At
  <2> QED
    BY <2>1 DEF Handling, Missed
<1>5. CASE Replay(c)
  <2>1. /\ pc[c] = "cache" /\ pc'[c] = "write" /\ req' = req
        /\ reply' = [reply EXCEPT ![c] = entries[Key(req[c])]] /\ Cache!Hit(Key(req[c]))
    BY <1>1, <1>5 DEF Replay, At
  <2>2. reply'[c] = entries[Key(req[c])]
    BY <2>1 DEF HandlerInv, LocalsOK
  <2> QED
    BY <1>2, <2>1, <2>2 DEF Replaying
<1>6. CASE Miss(c)
  <2>1. /\ pc[c] = "cache" /\ pc'[c] = "dispatch" /\ req' = req /\ UNCHANGED cacheVars
        /\ Key(req[c]) \notin Cache!Resident
    BY <1>1, <1>6 DEF Miss, At
  <2> QED
    BY <1>2, <2>1 DEF Handling
<1>7. CASE PutReply(c)
  BY <1>1, <1>2, <1>7 DEF PutReply, At, Putting
<1>8. CASE Write(c)
  BY <1>1, <1>8 DEF Write, At, Writing
<1>9. CASE Mint(c) \/ StampPush(c)
  <2>1. /\ pc[c] \in {"mint", "dispatch"} /\ pc'[c] \in {"enrol", "store"} /\ req' = req
        /\ UNCHANGED cacheVars
    BY <1>1, <1>9 DEF Mint, StampPush, Serves, At
  <2> QED
    BY <2>1 DEF Handling, Missed
<1>10. CASE Enrol(c)
  <2>1. pc[c] = "enrol" /\ pc'[c] = "put" /\ req' = req /\ UNCHANGED cacheVars
    BY <1>1, <1>10 DEF Enrol, At
  <2> QED
    BY <2>1 DEF Computing, Missed
<1>11. CASE CheckAccount(c) /\ Goto(c, "mint") /\ UNCHANGED <<req, user, reply, stamp>>
  <2>1. pc[c] = "dispatch" /\ pc'[c] = "mint" /\ req' = req /\ UNCHANGED cacheVars
    BY <1>1, <1>11 DEF CheckAccount, Serves, At
  <2> QED
    BY <2>1 DEF Handling, Missed
<1>12. ASSUME pc[c] \in {"dispatch", "store"}, NEW r, Respond(c, r), UNCHANGED cacheVars
       PROVE  Computing(c)
  <2>1. pc'[c] = "put" /\ req' = req
    BY <1>1, <1>12 DEF Respond
  <2> QED
    BY <1>12, <2>1 DEF Computing, Missed
<1>13. CASE Refuse(c) \/ RefuseName(c) \/ (CheckAccount(c) /\ Respond(c, Error(6003)))
  <2>1. pc[c] = "dispatch" /\ UNCHANGED cacheVars
    BY <1>13 DEF Refuse, RefuseName, CheckAccount, Serves, At
  <2>2. \E r : Respond(c, r)
    BY <1>13 DEF Refuse, RefuseName
  <2> QED
    BY <1>12, <2>1, <2>2
<1>14. CASE Pull(c) \/ Watch(c) \/ ListTokens(c) \/ ListAccounts(c) \/ GenerateToken(c)
  <2>1. pc[c] = "dispatch" /\ UNCHANGED cacheVars
    BY <1>14 DEF Pull, Watch, ListTokens, ListAccounts, GenerateToken, Serves, At
  <2>2. \E r : Respond(c, r)
    BY <1>14 DEF Pull, Watch, ListTokens, ListAccounts, GenerateToken
  <2> QED
    BY <1>12, <2>1, <2>2
<1>15. CASE Upload(c) \/ Download(c) \/ RevokeToken(c)
  <2>1. pc[c] = "dispatch" /\ UNCHANGED cacheVars
    BY <1>15 DEF Upload, Download, RevokeToken, Serves, At
  <2>2. \E r : Respond(c, r)
    BY <1>15 DEF Upload, Download, RevokeToken
  <2> QED
    BY <1>12, <2>1, <2>2
<1>16. CASE StorePush(c)
  <2>1. pc[c] = "store" /\ UNCHANGED cacheVars
    BY <1>16 DEF StorePush, At
  <2>2. \E r : Respond(c, r)
    BY <1>16 DEF StorePush
  <2> QED
    BY <1>12, <2>1, <2>2
<1>17. CASE CheckAccount(c)
  BY <1>11, <1>13, <1>17 DEF CheckAccount
<1>18. CASE LookupToken(c) \/ Replay(c) \/ Miss(c) \/ PutReply(c) \/ Write(c) \/ StorePush(c)
  BY <1>4, <1>5, <1>6, <1>7, <1>8, <1>16, <1>18
<1>19. CASE Mint(c) \/ StampPush(c) \/ Enrol(c) \/ CheckAccount(c)
  BY <1>9, <1>10, <1>17, <1>19
<1>22. CASE Panic(c)
  BY <1>22 DEF Panic, localVars, Serves, At, Handling, Missed
<1>20. CASE Refuse(c) \/ RefuseName(c)
  BY <1>13, <1>20
<1>21. \/ Receive(c)
       \/ Pull(c) \/ Watch(c) \/ ListTokens(c) \/ ListAccounts(c) \/ GenerateToken(c)
       \/ Panic(c) \/ Upload(c) \/ Download(c) \/ RevokeToken(c)
       \/ LookupToken(c) \/ Replay(c) \/ Miss(c) \/ PutReply(c) \/ Write(c) \/ StorePush(c)
       \/ Mint(c) \/ StampPush(c) \/ Enrol(c) \/ CheckAccount(c)
       \/ Refuse(c) \/ RefuseName(c)
  BY DEF Moves, Work
<1> QED
  BY <1>3, <1>14, <1>15, <1>18, <1>19, <1>20, <1>21, <1>22

(* With room for all, a put adds its key and evicts none.                  *)
LEMMA PutAdds ==
  ASSUME RoomForAll, HandlerInv, Typed, OnceInv, NEW c \in Conns, Putting(c)
  PROVE  LET k == Identity(req[c])
         IN  /\ k \notin Cache!Resident
             /\ DOMAIN entries' = DOMAIN entries \union {k}
             /\ entries'[k] = reply[c]
             /\ \A j \in DOMAIN entries : entries'[j] = entries[j]
             /\ CacheRoom'
<1> DEFINE k == Identity(req[c])
<1>1. k \notin Cache!Resident
  BY DEF OnceInv, Putting, Missed
<1>2. k \in Wanted
  BY DEF HandlerInv, LocalsOK, LocalOK, Putting, Wanted
<1>3. IsInjective(order) /\ ToSet(order) = Cache!Resident /\ Cache!Resident \subseteq Wanted
  BY DEF OnceInv, CacheRoom
<1>4. order \in Seq(Wanted)
  <2>1. order \in Seq(Ids \X Tails)
    BY DEF Typed, HandlerTypeOK, Cache!CacheTypeOK
  <2>2. Len(order) \in Nat /\ DOMAIN order = 1 .. Len(order)
    BY <2>1
  <2>3. \A i \in 1 .. Len(order) : order[i] \in Wanted
    BY <1>3, <2>2 DEF ToSet
  <2>4. order \in [1 .. Len(order) -> Wanted]
    BY <2>1, <2>2, <2>3
  <2> QED
    BY <2>2, <2>4
<1> HIDE DEF k
<1>5. Len(order) < Cardinality(Wanted) /\ Len(order) \in Nat /\ Cardinality(Wanted) \in Nat
  BY <1>1, <1>2, <1>3, <1>4, MissingOneIsShorter, FS_CardinalityType DEF RoomForAll
<1>6. ~Cache!Full
  BY <1>5, HandlerAssumption DEF Cache!Full, RoomForAll
<1>7. entries' = Cache!Updated({}, k, reply[c]) /\ order' = Append(order, k)
  BY <1>1, <1>6 DEF Putting, Cache!Put, Cache!PutFresh, Cache!PutAgain, k
<1>8. /\ DOMAIN entries' = DOMAIN entries \union {k}
      /\ entries'[k] = reply[c]
      /\ \A j \in DOMAIN entries : entries'[j] = entries[j]
  BY <1>1, <1>7 DEF Cache!Updated, Cache!Resident
<1>9. IsInjective(order') /\ ToSet(order') = ToSet(order) \union {k}
  BY <1>1, <1>2, <1>3, <1>4, <1>7, AppendAddsLast
<1>10. CacheRoom'
  BY <1>2, <1>3, <1>8, <1>9 DEF CacheRoom, Cache!Resident
<1> QED
  BY <1>1, <1>8, <1>10 DEF k

(* A replay moves its key and changes no entry.                            *)
LEMMA ReplayMoves ==
  ASSUME HandlerInv, Typed, OnceInv, NEW c \in Conns, Replaying(c)
  PROVE  Identity(req[c]) \in Cache!Resident /\ entries' = entries /\ CacheRoom'
<1> DEFINE k == Identity(req[c])
           r == RemoveFirst(order, k)
           P == Ids \X Tails
<1>1. k \in Cache!Resident /\ entries' = entries /\ order' = Cache!MoveToFront(order, k)
  BY DEF Replaying, Cache!Hit
<1>2. order' = Cons(k, r)
  BY <1>1, SameEdits
<1>3. IsInjective(order) /\ ToSet(order) = Cache!Resident /\ order \in Seq(P)
  BY DEF OnceInv, CacheRoom, Typed, HandlerTypeOK, Cache!CacheTypeOK
<1>4. k \in P
  BY <1>1 DEF Typed, HandlerTypeOK, Cache!CacheTypeOK
<1> HIDE DEF k, P
<1>5. r \in Seq(P) /\ IsInjective(r) /\ ToSet(r) = ToSet(order) \ {k}
  BY <1>1, <1>3, RemoveFirstDrops
<1> HIDE DEF r
<1>6. IsInjective(order') /\ ToSet(order') = ToSet(order)
  <2>1. k \notin ToSet(r) /\ ToSet(r) \union {k} = ToSet(order)
    BY <1>1, <1>3, <1>5
  <2>2. r \in Seq(P) /\ k \in P
    BY <1>4, <1>5
  <2>3. ToSet(Cons(k, r)) = ToSet(r) \union {k}
    BY <2>2, ConsAddsFirst
  <2>4. IsInjective(r) /\ k \notin ToSet(r) => IsInjective(Cons(k, r))
    BY <2>2, ConsAddsFirst
  <2> QED
    BY <1>2, <1>5, <2>1, <2>3, <2>4
<1>7. CacheRoom'
  BY <1>1, <1>6 DEF OnceInv, CacheRoom, Cache!Resident
<1> QED
  BY <1>1, <1>7 DEF k

(* The other connections are in the midst of other messages.               *)
LEMMA OtherKeys ==
  ASSUME HandlerInv, Record, DistinctMessages, NEW c \in Conns, Moves(c),
         NEW d \in Conns, d # c, pc[c] # "idle", pc'[d] # "idle"
  PROVE  /\ pc'[d] = pc[d] /\ req'[d] = req[d] /\ reply'[d] = reply[d]
         /\ Identity(req[d]) # Identity(req[c])
<1>1. pc'[d] = pc[d] /\ req'[d] = req[d] /\ reply'[d] = reply[d]
  BY WorkStep DEF StepOK, LocalStep
<1> QED
  BY <1>1 DEF DistinctMessages, Busy

OnceStill ==
    /\ DOMAIN entries' = DOMAIN entries /\ \A k \in DOMAIN entries : entries'[k] = entries[k]
    /\ CacheRoom'

LEMMA OnceInvStep ==
  ASSUME RoomForAll, HandlerInv, Typed, OnceInv, DistinctMessages',
         [HistoryNext]_historyVars
  PROVE  OnceInv'
<1>1. ASSUME OnceStill, UNCHANGED <<pc, req, reply>>
      PROVE  OnceInv'
  BY <1>1 DEF OnceInv, OnceStill, Cache!Resident
<1>2. UNCHANGED cacheVars => OnceStill
  BY DEF OnceInv, CacheRoom, OnceStill, cacheVars, Cache!Resident
<1>3. CASE SweepMessages \/ SweepFiles \/ Tick \/ UNCHANGED historyVars
  <2>1. UNCHANGED cacheVars /\ UNCHANGED <<pc, req, reply>>
    BY <1>3 DEF SweepMessages, SweepFiles, Tick, localVars, historyVars, vars
  <2> QED
    BY <1>1, <1>2, <2>1
<1>4. ASSUME NEW c \in Conns, Moves(c), Record
      PROVE  OnceInv'
  <2> DEFINE k == Identity(req[c])
             Fresh(d) == pc'[d] \in Missed => Identity(req'[d]) \notin DOMAIN entries'
             Kept(d) == pc'[d] = "write" => /\ Identity(req'[d]) \in DOMAIN entries'
                                            /\ reply'[d] = entries'[Identity(req'[d])]
  <2>1. ASSUME CacheRoom', \A d \in Conns : Fresh(d) /\ Kept(d)
        PROVE  OnceInv'
    BY <2>1 DEF OnceInv, Cache!Resident, Identity
  <2>2. \A d \in Conns \ {c} : pc'[d] = pc[d] /\ req'[d] = req[d] /\ reply'[d] = reply[d]
    BY <1>4, WorkStep DEF StepOK, LocalStep
  <2>3. ASSUME NEW d \in Conns
        PROVE  /\ pc[d] \in Missed => Identity(req[d]) \notin DOMAIN entries
               /\ pc[d] = "write" => /\ Identity(req[d]) \in DOMAIN entries
                                     /\ reply[d] = entries[Identity(req[d])]
    BY DEF OnceInv, Cache!Resident
  <2>4. ASSUME OnceStill, NEW d \in Conns \ {c}
        PROVE  Fresh(d) /\ Kept(d)
    BY <2>2, <2>3, <2>4 DEF OnceStill
  <2>5. CASE Handling(c)
    <3>1. OnceStill /\ CacheRoom' /\ entries' = entries
      BY <1>2, <2>5 DEF Handling, OnceStill, cacheVars
    <3>2. Fresh(c) /\ Kept(c)
      BY <2>3, <2>5, <3>1 DEF Handling, Cache!Resident
    <3> QED
      BY <2>1, <2>4, <3>1, <3>2
  <2>6. CASE Computing(c)
    <3>1. OnceStill /\ CacheRoom' /\ entries' = entries
      BY <1>2, <2>6 DEF Computing, OnceStill, cacheVars
    <3>2. Fresh(c) /\ Kept(c)
      BY <2>3, <2>6, <3>1 DEF Computing
    <3> QED
      BY <2>1, <2>4, <3>1, <3>2
  <2>7. CASE Putting(c)
    <3>1. /\ k \notin DOMAIN entries /\ DOMAIN entries' = DOMAIN entries \union {k}
          /\ entries'[k] = reply[c] /\ \A j \in DOMAIN entries : entries'[j] = entries[j]
          /\ CacheRoom'
      BY <2>7, PutAdds DEF Cache!Resident
    <3>2. Fresh(c) /\ Kept(c)
      BY <2>7, <3>1 DEF Putting, Missed
    <3>3. ASSUME NEW d \in Conns \ {c} PROVE Fresh(d) /\ Kept(d)
      <4>1. pc[c] # "idle" /\ DistinctMessages
        BY <2>7 DEF Putting, OnceInv
      <4>2. pc'[d] # "idle" => Identity(req[d]) # k
        BY <1>4, <4>1, OtherKeys
      <4>3. pc'[d] \in Missed => Identity(req'[d]) = Identity(req[d]) /\ Identity(req[d]) # k
        BY <2>2, <4>2 DEF Missed
      <4> HIDE DEF k
      <4> QED
        BY <2>2, <2>3, <3>1, <4>3
    <3> QED
      BY <2>1, <3>1, <3>2, <3>3
  <2>8. CASE Replaying(c)
    <3>1. k \in DOMAIN entries /\ entries' = entries /\ CacheRoom' /\ OnceStill
      BY <2>8, ReplayMoves DEF OnceStill, Cache!Resident
    <3>2. Fresh(c) /\ Kept(c)
      BY <2>8, <3>1 DEF Replaying, Missed
    <3> QED
      BY <2>1, <2>4, <3>1, <3>2
  <2>9. CASE Writing(c)
    <3>1. OnceStill /\ CacheRoom'
      BY <1>2, <2>9 DEF Writing, OnceStill
    <3>2. Fresh(c) /\ Kept(c)
      BY <2>9 DEF Writing, Missed
    <3> QED
      BY <2>1, <2>4, <3>1, <3>2
  <2> QED
    BY <1>4, <2>5, <2>6, <2>7, <2>8, <2>9, StepKinds
<1> QED
  BY <1>3, <1>4 DEF HistoryNext, Next, Moves

(* Answer, without the choice of a connection: DistinctMessages leaves one *)
(* to choose, and what is written is what the cache has.                   *)
Ready == {Identity(req[c]) : c \in {d \in Conns : pc[d] = "put"}}

AnswerShape ==
    /\ Answer = [k \in Cache!Resident \union Ready |-> Answer[k]]
    /\ \A k \in Cache!Resident : Answer[k] = entries[k]
    /\ \A c \in Conns : pc[c] = "put" => Answer[Identity(req[c])] = reply[c]

LEMMA AnswerValues == OnceInv => AnswerShape
<1> SUFFICES ASSUME OnceInv PROVE AnswerShape
  OBVIOUS
<1>1. AnsweredKeys = Cache!Resident \union Ready
  BY DEF AnsweredKeys, Ready, OnceInv
<1>2. Answer = [k \in Cache!Resident \union Ready |-> Answer[k]]
  BY <1>1 DEF Answer
<1>3. \A k \in Cache!Resident : Answer[k] = entries[k]
  BY <1>1 DEF Answer
<1>4. ASSUME NEW c \in Conns, pc[c] = "put"
      PROVE  Answer[Identity(req[c])] = reply[c]
  <2> DEFINE k == Identity(req[c])
  <2>1. k \in AnsweredKeys /\ k \notin Cache!Resident
    BY <1>4 DEF AnsweredKeys, OnceInv, Missed
  <2>2. Holding(k) = {c}
    <3>1. c \in Holding(k)
      BY <1>4 DEF Holding
    <3>2. ASSUME NEW d \in Holding(k) PROVE d = c
      BY <1>4, <3>2 DEF Holding, OnceInv, DistinctMessages, Busy
    <3> QED
      BY <3>1, <3>2
  <2>3. Answer[k] = reply[CHOOSE d \in Holding(k) : TRUE]
    BY <2>1 DEF Answer
  <2>4. (CHOOSE d \in Holding(k) : TRUE) = c
    BY <2>2
  <2> QED
    BY <2>3, <2>4
<1> QED
  BY <1>2, <1>3, <1>4 DEF AnswerShape

(* What is being sent changes for the connection that takes a step.        *)
LEMMA SendingStep ==
  ASSUME HandlerInv, Record, NEW c \in Conns, Moves(c)
  PROVE  /\ Sending[c] = IF pc[c] = "write" THEN <<Identity(req[c]), reply[c]>> ELSE None
         /\ Sending' = [Sending EXCEPT ![c] =
               IF pc'[c] = "write" THEN <<Identity(req'[c]), reply'[c]>> ELSE None]
<1>1. \A d \in Conns \ {c} : pc'[d] = pc[d] /\ req'[d] = req[d] /\ reply'[d] = reply[d]
  BY WorkStep DEF StepOK, LocalStep
<1> QED
  BY <1>1 DEF Sending, Identity

(* A key is executed at most once.                                         *)
LEMMA ComputesFresh ==
  ASSUME OnceInv, AnswerShape, AnswerShape', NEW c \in Conns, Computing(c)
  PROVE  Identity(req[c]) \notin DOMAIN Answer /\ Identity(req[c]) \in DOMAIN Answer'
<1>1. Identity(req[c]) \notin Cache!Resident /\ Identity(req[c]) \notin Ready
  BY DEF Computing, Missed, OnceInv, DistinctMessages, Busy, Ready
<1>2. Identity(req[c]) \in Ready'
  BY DEF Computing, Ready, Identity
<1> QED
  BY <1>1, <1>2 DEF AnswerShape

LEMMA OnceStep ==
  ASSUME RoomForAll, HandlerInv, Typed, OnceInv, AnswerShape, AnswerShape',
         [HistoryNext]_historyVars
  PROVE  [Once!OnceNext]_<<Answer, Sending>>
<1>1. CASE SweepMessages \/ SweepFiles \/ Tick \/ UNCHANGED historyVars
  <2>1. UNCHANGED <<entries, pc, req, reply>>
    BY <1>1 DEF SweepMessages, SweepFiles, Tick, localVars, cacheVars, historyVars, vars
  <2>2. Answer' = Answer
    BY <2>1 DEF Answer, AnsweredKeys, Holding, Identity, Cache!Resident
  <2>3. Sending' = Sending
    BY <2>1 DEF Sending, Identity
  <2> QED
    BY <2>2, <2>3
<1>2. ASSUME NEW c \in Conns, Moves(c), Record
      PROVE  [Once!OnceNext]_<<Answer, Sending>>
  <2> DEFINE k == Identity(req[c])
             Others == {Identity(req[d]) : d \in {e \in Conns \ {c} : pc[e] = "put"}}
  <2>1. \A d \in Conns \ {c} : pc'[d] = pc[d] /\ req'[d] = req[d] /\ reply'[d] = reply[d]
    BY <1>2, WorkStep DEF StepOK, LocalStep
  <2>2. Ready = IF pc[c] = "put" THEN Others \union {k} ELSE Others
    BY DEF Ready
  <2>3. Ready' = IF pc'[c] = "put" THEN Others \union {Identity(req'[c])} ELSE Others
    BY <2>1 DEF Ready, Identity
  <2>4. /\ Sending[c] = IF pc[c] = "write" THEN <<k, reply[c]>> ELSE None
        /\ Sending' = [Sending EXCEPT ![c] =
              IF pc'[c] = "write" THEN <<Identity(req'[c]), reply'[c]>> ELSE None]
        /\ Sending = [d \in Conns |-> Sending[d]]
    BY <1>2, SendingStep DEF Sending
  <2>5. /\ DOMAIN Answer = DOMAIN entries \union Ready
        /\ DOMAIN Answer' = DOMAIN entries' \union Ready'
        /\ Answer = [j \in DOMAIN Answer |-> Answer[j]]
        /\ Answer' = [j \in DOMAIN Answer' |-> Answer'[j]]
    BY DEF AnswerShape, Cache!Resident
  <2>6. /\ \A j \in DOMAIN entries : Answer[j] = entries[j]
        /\ \A j \in DOMAIN entries' : Answer'[j] = entries'[j]
        /\ \A d \in Conns : pc[d] = "put" => Answer[Identity(req[d])] = reply[d]
        /\ \A d \in Conns : pc'[d] = "put" => Answer'[Identity(req'[d])] = reply'[d]
    BY DEF AnswerShape, Cache!Resident, Identity
  <2>7. ASSUME DOMAIN entries \subseteq DOMAIN entries',
               \A j \in DOMAIN entries : entries'[j] = entries[j]
        PROVE  \A j \in DOMAIN entries \union Others : Answer'[j] = Answer[j]
    <3>1. ASSUME NEW j \in Others PROVE Answer'[j] = Answer[j]
      <4>1. PICK d \in Conns \ {c} : pc[d] = "put" /\ j = Identity(req[d])
        OBVIOUS
      <4>2. pc'[d] = "put" /\ j = Identity(req'[d]) /\ reply'[d] = reply[d]
        BY <2>1, <4>1
      <4> QED
        BY <2>6, <4>1, <4>2
    <3> QED
      BY <2>6, <2>7, <3>1
  <2> HIDE DEF k, Others
  <2>8. CASE Handling(c)
    <3>1. entries' = entries /\ Ready = Others /\ Ready' = Others
      BY <2>2, <2>3, <2>8 DEF Handling, cacheVars
    <3>2. Answer' = Answer
      BY <2>5, <2>7, <3>1
    <3>3. Sending' = Sending
      BY <2>4, <2>8 DEF Handling
    <3> QED
      BY <3>2, <3>3
  <2>9. CASE Computing(c)
    <3>1. entries' = entries /\ Ready = Others /\ Ready' = Others \union {k}
      BY <2>2, <2>3, <2>9 DEF Computing, cacheVars, k, Identity
    <3>2. Sending' = Sending
      BY <2>4, <2>9 DEF Computing, Missed
    <3>3. DOMAIN Answer' = DOMAIN Answer \union {k} /\ \A j \in DOMAIN Answer : Answer'[j] = Answer[j]
      BY <2>5, <2>7, <3>1
    <3>4. k \notin DOMAIN Answer
      BY <2>9, ComputesFresh DEF k
    <3>5. k \in Ids \X Tails
      <4>1. req[c] \in Requests
        BY <2>9 DEF Computing, Missed, HandlerInv, LocalsOK, LocalOK
      <4> QED
        BY <4>1, RequestAssumption DEF k, Identity
    <3>6. Once!Execute
      BY <3>2, <3>3, <3>4, <3>5 DEF Once!Execute, Once!Executed
    <3> QED
      BY <3>6 DEF Once!OnceNext
  <2>10. CASE Putting(c)
    <3>1. /\ DOMAIN entries' = DOMAIN entries \union {k} /\ entries'[k] = reply[c]
          /\ \A j \in DOMAIN entries : entries'[j] = entries[j]
      BY <2>10, PutAdds DEF k
    <3>2. Ready = Others \union {k} /\ Ready' = Others /\ Answer[k] = reply[c]
      BY <2>2, <2>3, <2>6, <2>10 DEF Putting, k
    <3>3. Answer'[k] = reply[c]
      BY <2>6, <3>1
    <3>4. DOMAIN Answer' = DOMAIN Answer
      BY <2>5, <3>1, <3>2
    <3>5. \A j \in DOMAIN Answer : Answer'[j] = Answer[j]
      BY <2>5, <2>7, <3>1, <3>2, <3>3
    <3>6. Answer' = Answer
      BY <2>5, <3>4, <3>5
    <3>7. Sending[c] = None /\ Sending' = [Sending EXCEPT ![c] = <<k, Answer[k]>>]
      BY <2>4, <2>10, <3>2 DEF Putting, k, Identity
    <3>8. Once!Send(c)
      BY <2>5, <3>2, <3>6, <3>7 DEF Once!Send, Once!Executed
    <3> QED
      BY <3>8 DEF Once!OnceNext
  <2>11. CASE Replaying(c)
    <3>1. k \in DOMAIN entries /\ entries' = entries
      BY <2>11, ReplayMoves DEF k, Cache!Resident
    <3>2. Ready = Others /\ Ready' = Others
      BY <2>2, <2>3, <2>11 DEF Replaying
    <3>3. Answer' = Answer
      BY <2>5, <2>7, <3>1, <3>2
    <3>4. Sending[c] = None /\ Sending' = [Sending EXCEPT ![c] = <<k, Answer[k]>>]
      BY <2>4, <2>6, <2>11, <3>1 DEF Replaying, k, Identity
    <3>5. Once!Send(c)
      BY <2>5, <3>1, <3>3, <3>4 DEF Once!Send, Once!Executed
    <3> QED
      BY <3>5 DEF Once!OnceNext
  <2>12. CASE Writing(c)
    <3>1. entries' = entries /\ Ready = Others /\ Ready' = Others
      BY <2>2, <2>3, <2>12 DEF Writing, cacheVars
    <3>2. Answer' = Answer
      BY <2>5, <2>7, <3>1
    <3>3. Sending' = [Sending EXCEPT ![c] = None]
      BY <2>4, <2>12 DEF Writing
    <3>4. CASE Sending[c] = None
      BY <2>4, <3>2, <3>3, <3>4
    <3>5. CASE Sending[c] # None
      BY <3>2, <3>3, <3>5 DEF Once!Sent, Once!OnceNext
    <3> QED
      BY <3>4, <3>5
  <2> QED
    BY <1>2, <2>8, <2>9, <2>10, <2>11, <2>12, StepKinds
<1> QED
  BY <1>1, <1>2 DEF HistoryNext, Next, Moves

LEMMA OnceInit == HistoryInit => OnceInv /\ Once!OnceInit
<1> SUFFICES ASSUME HistoryInit PROVE OnceInv /\ Once!OnceInit
  OBVIOUS
<1>1. pc = [c \in Conns |-> "idle"] /\ entries = [k \in {} |-> k] /\ order = <<>>
  BY DEF HistoryInit, Init, Cache!CacheInit
<1>2. CacheRoom
  BY <1>1 DEF CacheRoom, IsInjective, ToSet, Cache!Resident
<1>3. OnceInv
  BY <1>1, <1>2 DEF OnceInv, DistinctMessages, Busy, Missed
<1>4. Answer = [k \in {} |-> k] /\ Sending = [c \in Conns |-> None]
  <2>1. AnsweredKeys = {}
    BY <1>1 DEF AnsweredKeys, Cache!Resident
  <2> QED
    BY <1>1, <2>1 DEF Answer, Sending
<1> QED
  BY <1>3, <1>4 DEF Once!OnceInit

LEMMA OnceAlways ==
  ASSUME RoomForAll
  PROVE  OneAtATimeSpec => [](HandlerInv /\ Typed /\ OnceInv)
<1>1. HandlerInv /\ Typed /\ OnceInv /\ [HistoryNext /\ DistinctMessages']_historyVars
      => HandlerInv' /\ Typed' /\ OnceInv'
  <2> SUFFICES ASSUME HandlerInv, Typed, OnceInv, [HistoryNext /\ DistinctMessages']_historyVars
               PROVE  HandlerInv' /\ Typed' /\ OnceInv'
    OBVIOUS
  <2>1. HandlerInv' /\ Typed'
    BY HandlerStep, TypedStep
  <2>2. DistinctMessages'
    BY DEF OnceInv, DistinctMessages, Busy, Identity, historyVars, vars, localVars
  <2> QED
    BY <2>1, <2>2, OnceInvStep
<1> QED
  BY <1>1, HandlerInit_Inv, TypedInit, OnceInit, PTL DEF OneAtATimeSpec

(* With room in the cache for every key, and clients that wait before they *)
(* send a message again, the server implements OnceOnly: a request is      *)
(* executed once however often it is sent, the answer it got stays, and    *)
(* that answer is what every response written for it says.                 *)
THEOREM ServerExecutesOnce ==
  ASSUME RoomForAll
  PROVE  OneAtATimeSpec => ExecutedOnce
<1>1. HandlerInv /\ Typed /\ OnceInv /\ AnswerShape /\ AnswerShape'
      /\ [HistoryNext /\ DistinctMessages']_historyVars
      => [Once!OnceNext]_<<Answer, Sending>>
  BY OnceStep
<1> QED
  BY <1>1, OnceAlways, OnceInit, AnswerValues, PTL
  DEF OneAtATimeSpec, ExecutedOnce, Once!OnceSpec

-----------------------------------------------------------------------------
(* Stored once.                                                            *)

(* What is stored was executed.                                            *)
StoredKeys ==
    \A inbox \in Inboxes : \A i \in DOMAIN messages[inbox] :
        <<messages[inbox][i].id, messages[inbox][i].sender>> \in DOMAIN Answer

(* What Keeping keeps, it keeps in order and once.                         *)
LEMMA KeptInOrder ==
  ASSUME NEW S, NEW seq \in Seq(S), NEW set
  PROVE  \E e : PicksBy(e, Msg!Keeping(seq, set), seq, set, Len(seq))
<1> DEFINE f == CHOOSE f : FilterBy(f, seq, set)
<1>1. Msg!Keeping(seq, set) = f[Len(seq)]
  BY DEF Msg!Keeping, FilterBy
<1>2. FilterBy(f, seq, set)
  BY FilterRuns
<1> QED
  BY <1>1, <1>2, FilterPicks

LEMMA SweepKeepsDistinct ==
  ASSUME Typed, NoDuplicateMessages, StoredKeys, SweepMessages, Answer' = Answer
  PROVE  NoDuplicateMessages' /\ StoredKeys'
<1> SUFFICES ASSUME NEW inbox \in Inboxes
             PROVE  LET kept == messages'[inbox]
                    IN  /\ \A i, j \in DOMAIN kept :
                              kept[i].id = kept[j].id /\ kept[i].sender = kept[j].sender => i = j
                        /\ \A i \in DOMAIN kept : <<kept[i].id, kept[i].sender>> \in DOMAIN Answer'
  BY DEF NoDuplicateMessages, StoredKeys
<1> DEFINE seq == messages[inbox]
           kept == messages'[inbox]
<1>1. seq \in Seq(Msg!Message)
  BY DEF Typed, HandlerTypeOK
<1>2. kept = Msg!Keeping(seq, Msg!Unexpired) /\ kept \in Seq(Msg!Message)
  <2>1. kept = Msg!Keeping(seq, Msg!Unexpired)
    BY DEF SweepMessages, Msg!Cleanup
  <2> QED
    BY <1>1, <2>1, KeptMessages
<1>3. PICK e : PicksBy(e, kept, seq, Msg!Unexpired, Len(seq))
  BY <1>1, <1>2, KeptInOrder
<1>4. /\ \A i, j \in DOMAIN seq :
           seq[i].id = seq[j].id /\ seq[i].sender = seq[j].sender => i = j
      /\ \A i \in DOMAIN seq : <<seq[i].id, seq[i].sender>> \in DOMAIN Answer
  BY DEF NoDuplicateMessages, StoredKeys
<1> HIDE DEF seq, kept
<1>5. DOMAIN seq = 1 .. Len(seq) /\ DOMAIN kept = 1 .. Len(kept) /\ Len(seq) \in Nat /\ Len(kept) \in Nat
  BY <1>1, <1>2
<1>6. \A i \in DOMAIN kept : e[i] \in DOMAIN seq /\ kept[i] = seq[e[i]]
  BY <1>3, <1>5 DEF PicksBy
<1>7. ASSUME NEW i \in DOMAIN kept, NEW j \in DOMAIN kept,
             kept[i].id = kept[j].id, kept[i].sender = kept[j].sender
      PROVE  i = j
  <2>1. e[i] = e[j]
    BY <1>4, <1>6, <1>7
  <2>2. i \in 1 .. Len(kept) /\ j \in 1 .. Len(kept) /\ e[i] \in Int
    BY <1>5, <1>6
  <2>3. i < j => e[i] < e[j]
    BY <1>3, <2>2 DEF PicksBy
  <2>4. j < i => e[j] < e[i]
    BY <1>3, <2>2 DEF PicksBy
  <2> QED
    BY <2>1, <2>2, <2>3, <2>4
<1>8. \A i \in DOMAIN kept : <<kept[i].id, kept[i].sender>> \in DOMAIN Answer'
  BY <1>4, <1>6
<1> QED
  BY <1>7, <1>8 DEF kept

LEMMA PushKeepsDistinct ==
  ASSUME HandlerInv, Typed, NoDuplicateMessages, StoredKeys,
         NEW c \in Conns, StorePush(c),
         Identity(req[c]) \notin DOMAIN Answer, Identity(req[c]) \in DOMAIN Answer',
         DOMAIN Answer \subseteq DOMAIN Answer'
  PROVE  NoDuplicateMessages' /\ StoredKeys'
<1> DEFINE r == req[c]
           m == [id |-> r.id, sender |-> r.tail, stamp |-> stamp[c]]
<1>1. /\ r.inbox \in Inboxes /\ m \in Msg!Message
      /\ messages' = [messages EXCEPT ![r.inbox] = Append(@, m)]
  BY PushedMessage
<1>2. messages \in [Inboxes -> Seq(Msg!Message)]
  BY DEF Typed, HandlerTypeOK
<1>3. <<m.id, m.sender>> = Identity(req[c])
  BY DEF Identity
<1> SUFFICES ASSUME NEW inbox \in Inboxes
             PROVE  LET new == messages'[inbox]
                    IN  /\ \A i, j \in DOMAIN new :
                              new[i].id = new[j].id /\ new[i].sender = new[j].sender => i = j
                        /\ \A i \in DOMAIN new : <<new[i].id, new[i].sender>> \in DOMAIN Answer'
  BY DEF NoDuplicateMessages, StoredKeys
<1> DEFINE seq == messages[inbox]
           new == messages'[inbox]
<1>4. /\ \A i, j \in DOMAIN seq :
           seq[i].id = seq[j].id /\ seq[i].sender = seq[j].sender => i = j
      /\ \A i \in DOMAIN seq : <<seq[i].id, seq[i].sender>> \in DOMAIN Answer
  BY DEF NoDuplicateMessages, StoredKeys
<1>5. new = seq \/ new = Append(seq, m)
  BY <1>1, <1>2
<1>6. seq \in Seq(Msg!Message)
  BY <1>2
<1> HIDE DEF seq, new, m
<1>7. CASE new = seq
  BY <1>4, <1>7 DEF new
<1>8. CASE new = Append(seq, m)
  <2>1. /\ DOMAIN new = 1 .. Len(seq) + 1 /\ DOMAIN seq = 1 .. Len(seq) /\ Len(seq) \in Nat
        /\ new[Len(seq) + 1] = m /\ \A i \in DOMAIN seq : new[i] = seq[i]
    BY <1>1, <1>6, <1>8
  <2>2. \A i \in DOMAIN new : i \in DOMAIN seq \/ i = Len(seq) + 1
    BY <2>1
  <2>3. \A i \in DOMAIN seq : ~(new[i].id = m.id /\ new[i].sender = m.sender)
    BY <1>3, <1>4, <2>1
  <2>4. ASSUME NEW i \in DOMAIN new, NEW j \in DOMAIN new,
               new[i].id = new[j].id, new[i].sender = new[j].sender
        PROVE  i = j
    BY <1>4, <2>1, <2>2, <2>3, <2>4
  <2>5. \A i \in DOMAIN new : <<new[i].id, new[i].sender>> \in DOMAIN Answer'
    BY <1>3, <1>4, <2>1, <2>2
  <2> QED
    BY <2>4, <2>5 DEF new
<1> QED
  BY <1>5, <1>7, <1>8

LEMMA StoredOnceStep ==
  ASSUME RoomForAll, HandlerInv, Typed, OnceInv, AnswerShape, AnswerShape',
         NoDuplicateMessages, StoredKeys, [HistoryNext]_historyVars
  PROVE  NoDuplicateMessages' /\ StoredKeys'
<1>1. [Once!OnceNext]_<<Answer, Sending>>
  BY OnceStep
<1>2. DOMAIN Answer \subseteq DOMAIN Answer'
  BY <1>1 DEF Once!OnceNext, Once!Execute, Once!Executed, Once!Send, Once!Sent
<1>3. CASE UNCHANGED messages
  BY <1>2, <1>3 DEF NoDuplicateMessages, StoredKeys
<1>4. CASE SweepMessages
  <2>1. Answer' = Answer
    <3>1. UNCHANGED <<entries, pc, req, reply>>
      BY <1>4 DEF SweepMessages, localVars, cacheVars
    <3> QED
      BY <3>1 DEF Answer, AnsweredKeys, Holding, Identity, Cache!Resident
  <2> QED
    BY <1>4, <2>1, SweepKeepsDistinct
<1>5. ASSUME NEW c \in Conns, StorePush(c)
      PROVE  NoDuplicateMessages' /\ StoredKeys'
  <2>1. Computing(c)
    <3>1. pc[c] = "store" /\ pc'[c] = "put" /\ req' = req /\ UNCHANGED cacheVars
      BY <1>5 DEF StorePush, At, Respond, Goto, HandlerInv, LocalsOK
    <3> QED
      BY <3>1 DEF Computing, Missed
  <2>2. Identity(req[c]) \notin DOMAIN Answer /\ Identity(req[c]) \in DOMAIN Answer'
    BY <2>1, ComputesFresh
  <2> QED
    BY <1>2, <1>5, <2>2, PushKeepsDistinct
<1>6. UNCHANGED messages \/ SweepMessages \/ \E c \in Conns : StorePush(c)
  <2>1. CASE SweepFiles \/ Tick \/ UNCHANGED historyVars
    BY <2>1 DEF SweepFiles, Tick, historyVars, vars
  <2>2. CASE \E c \in Conns : Moves(c)
    BY <2>2, SlicesLeftAlone
  <2> QED
    BY <2>1, <2>2 DEF HistoryNext, Next, Moves
<1> QED
  BY <1>3, <1>4, <1>5, <1>6

(* Under the same conditions no inbox gets a message twice, whatever       *)
(* Cleanup takes out of it in between: the store has only keys that were   *)
(* executed, and a key is executed once.                                   *)
THEOREM StoredOnce ==
  ASSUME RoomForAll
  PROVE  OneAtATimeSpec => []NoDuplicateMessages
<1>1. HistoryInit => NoDuplicateMessages /\ StoredKeys
  BY DEF HistoryInit, Init, Msg!MessageInit, NoDuplicateMessages, StoredKeys
<1>2. HandlerInv /\ Typed /\ OnceInv /\ AnswerShape /\ AnswerShape'
      /\ NoDuplicateMessages /\ StoredKeys /\ [HistoryNext /\ DistinctMessages']_historyVars
      => NoDuplicateMessages' /\ StoredKeys'
  BY StoredOnceStep
<1> QED
  BY <1>1, <1>2, OnceAlways, AnswerValues, PTL DEF OneAtATimeSpec

=============================================================================
