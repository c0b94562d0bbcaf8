----------------------------- MODULE MCHandler -----------------------------
(* Requests of two users and two token tails for the runs of the handlers. *)
EXTENDS HandlerHistory

CONSTANTS c1, c2, alice, bob, carol, board, t1, t2

MCUsers == {alice, bob}
ThreeUsers == {alice, bob, carol}
MCShared == {board}
MCTails == {t1, t2}

Symmetric == Permutations({c1, c2})

To(id, tail, route, inbox) == [id |-> id, tail |-> tail, route |-> route, inbox |-> inbox]
Asking(id, tail, inbox, limit, offset, after, before, find) ==
    [id |-> id, tail |-> tail, route |-> "_pull", inbox |-> inbox,
     limit |-> limit, offset |-> offset, after |-> after, before |-> before, find |-> find]
PullAll(id, tail, inbox) == Asking(id, tail, inbox, 10, 0, 0, 0, 0)
Named(id, tail, route, name) == [id |-> id, tail |-> tail, route |-> route, name |-> name]
Plain(id, tail, route) == [id |-> id, tail |-> tail, route |-> route]
Victim(id, tail, victim) ==
    [id |-> id, tail |-> tail, route |-> "_token_revoke", victim |-> victim]

(* Creating alice and bob; pushing to and pulling from alice's inbox with  *)
(* both tails, a shared identifier among them.  Alice may not list.        *)
MailRequests ==
    {Named(1, t1, "_create", alice), Named(2, t1, "_create", bob),
     To(3, t1, "push", alice), To(3, t2, "push", alice),
     PullAll(3, t2, alice), Asking(4, t1, alice, 1, 1, 1, 1, 3), Plain(2, t2, "_list")}

(* One user's inbox, with one message pushed under two tails.              *)
RetryRequests ==
    {Named(1, t1, "_create", alice), To(2, t1, "push", alice), PullAll(3, t1, alice),
     To(2, t2, "push", alice)}

(* Two clients create the same user.                                       *)
CreateRequests ==
    {Named(1, t1, "_create", alice), Named(2, t2, "_create", alice),
     Named(3, t1, "_create", bob), Named(3, t1, "_token_generate", alice)}

Up(id, tail, public, size, expire) ==
    [id |-> id, tail |-> tail, route |-> "_cfm_upload",
     public |-> public, size |-> size, expire |-> expire]
Down(id, tail, file) ==
    [id |-> id, tail |-> tail, route |-> "_cfm_download", file |-> file]

(* Two users whose uploads may have the same identifier (1 and 5 differ in *)
(* the top bit) and who ask for each other's file; alice is created twice. *)
FileRequests ==
    {Named(2, t1, "_create", alice), Named(3, t2, "_create", bob),
     Named(4, t2, "_create", alice),
     Up(1, t1, FALSE, 1, 1), Up(5, t2, TRUE, 1, 0),
     Down(3, t1, 5), Down(3, t2, 5)}

(* One request for every case of the switch and for every way to refuse.   *)
AllRoutes ==
    {Named(1, t1, "_create", alice), Named(2, t1, "_create", None),
     Named(3, t1, "_create", carol), Named(6, t1, "_create", bob),
     Named(2, t2, "_token_generate", bob),
     Plain(3, t1, "_watch"), Plain(3, t2, "_list"), Plain(4, t1, "_token_list"),
     Victim(4, t2, t1), Victim(7, t2, t2), To(5, t1, "push", board), Asking(5, t2, board, 10, -1, 0, 0, 0),
     Up(1, t2, FALSE, 1, 0), Up(6, t1, TRUE, 2, 1), Down(6, t2, 5)}

Routes == {r.route : r \in AllRoutes}

(* Patterns are named by the set of routes they match.                     *)
MCCovers == {<<p, r>> \in {Routes, {"_list"}} \X Routes : r \in p}

(* Everything is allowed, by both whitelists.                              *)
OpenConfig ==
    [ConfMode |-> "whitelist", BasePermission |-> {Routes}, SpecialPermission |-> <<>>,
     WhitelistEnabled |-> TRUE, Whitelist |-> {alice, bob},
     BlacklistEnabled |-> FALSE, Blacklist |-> {}]

(* Carol is turned away; alice may not run _list, bob may.                 *)
ClosedConfig ==
    [ConfMode |-> "", BasePermission |-> {}, SpecialPermission |-> alice :> {{"_list"}},
     WhitelistEnabled |-> FALSE, Whitelist |-> {},
     BlacklistEnabled |-> TRUE, Blacklist |-> {carol}]
=============================================================================
