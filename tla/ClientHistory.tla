--------------------------- MODULE ClientHistory ---------------------------
(***************************************************************************)
(* What the files of a home directory should be, and what went wrong:      *)
(*   intended   the configuration had the commands run one after another;  *)
(*   handled    the pushes the server handled;                             *)
(*   incidents  what happened so far of: two commands that write .smprc    *)
(*              ran at once ("overlap"), one of them was killed            *)
(*              ("killed"), could not read the file ("unread") or save it  *)
(*              ("unsaved"), or failed to over another's text ("mixed"),   *)
(*              its answer did not come ("failed") or the connection was   *)
(*              closed instead ("eof"); the answer to create came in two   *)
(*              segments ("cut"), or its token was saved in part ("torn"). *)
(***************************************************************************)
EXTENDS Client

VARIABLES intended, handled, incidents

historyVars == <<clientVars, intended, handled, incidents>>

(* The commands that write .smprc.                                         *)
Saves(c) ==
    \/ c.name = "push"
    \/ c.name = "pull" /\ c.upstream /\ c.user # None

Saving(p) == Running(p) /\ Saves(cmd[p])

HistoryInit ==
    /\ ClientInit
    /\ intended = Fresh /\ handled = {} /\ incidents = {}

Note(incident, happened) ==
    incidents' = incidents \union (IF happened THEN {incident} ELSE {})

Started(p, saved) ==
    /\ Start(p, saved)
    /\ intended' = IF Saves(cmd'[p]) THEN Tracked(cmd'[p], intended) ELSE intended
    /\ incidents' = incidents
          \union (IF Saves(cmd'[p]) /\ \E q \in Procs : Saving(q) THEN {"overlap"} ELSE {})
          \union (IF Saves(cmd'[p]) /\ saved # LoadConfig THEN {"unread"} ELSE {})
    /\ UNCHANGED handled

Served(p) ==
    /\ Serve(p)
    /\ IF cmd[p].name = "push"
         THEN /\ handled' = handled \union {id[p]}
              /\ intended' = [intended EXCEPT !.context = id[p]]
         ELSE UNCHANGED <<handled, intended>>
    /\ UNCHANGED incidents

Disturbed(p) ==
    /\ \/ Kill(p) /\ Note("killed", Saving(p))
       \/ ReadFails(p) /\ Note("failed", Saving(p))
       \/ ReadEOF(p) /\ Note("eof", Saving(p))
       \/ ReadCut(p) /\ Note("cut", TRUE)
       \/ OpenConfigFails(p) /\ Note("unsaved", TRUE)
       \/ WriteConfigFails(p)
          /\ incidents' = incidents \union {"unsaved"} \union (IF Readable THEN {"mixed"} ELSE {})
       \/ WriteTokenFails(p) /\ Note("torn", TRUE)
    /\ UNCHANGED <<intended, handled>>

Undisturbed(p) ==
    /\ \/ OpenConfig(p) \/ WriteConfig(p)
       \/ GetTokenTail(p) \/ SendFails(p) \/ Send(p) \/ ReadWhole(p)
       \/ OpenToken(p) \/ OpenTokenFails(p) \/ WriteToken(p)
    /\ UNCHANGED <<intended, handled, incidents>>

HistoryNext ==
    \E p \in Procs :
        \/ \E saved \in {LoadConfig, Fresh} : Started(p, saved)
        \/ Served(p) \/ Undisturbed(p) \/ Disturbed(p)

HistorySpec == HistoryInit /\ [][HistoryNext]_historyVars

-----------------------------------------------------------------------------

Interfered == {"overlap", "killed", "unread", "unsaved", "failed", "eof"}

(* When the commands that write .smprc neither overlapped nor were         *)
(* disturbed, the file has what running them one after another makes of    *)
(* it: the upstream of the last -u, and the last identifier the server     *)
(* handled, whatever else ran meanwhile.  Each of the incidents alone      *)
(* breaks this: the error of a failing save, for one, is not looked at.    *)
ConfigIsSerial ==
    \/ incidents \intersect Interfered # {}
    \/ \E p \in Procs : Saving(p)
    \/ LoadConfig = intended

(* Whatever happened, a readable .smprc has a server with the protocol     *)
(* that was chosen for it, and names no push but one that the server       *)
(* handled, unless a connection was closed instead of an answer.  Only a   *)
(* write that fails on top of another process's text leaves parts of both. *)
SavedConfigIsReal ==
    Readable /\ "mixed" \notin incidents =>
        /\ \/ rc.server = None /\ rc.protocol = "smp"
           \/ \E c \in Commands : /\ c.upstream
                                  /\ rc.server = c.server
                                  /\ rc.protocol = SelectProtocol(c.flags)
        /\ "eof" \in incidents \/ rc.context \in {0} \union handled

(* The token that later commands authenticate with is one that a server    *)
(* minted, or missing, through processes that write it at once or are      *)
(* killed between truncating and writing; only an answer that was cut, or  *)
(* a write that failed on the way, leaves another.                         *)
KeptTokenIsMinted ==
    {"cut", "torn"} \intersect incidents # {} \/ tokenFile \in {None, Empty} \union DOMAIN minted

=============================================================================
