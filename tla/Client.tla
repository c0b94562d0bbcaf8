------------------------------- MODULE Client -------------------------------
(***************************************************************************)
(* The command line client, src/client.  A process runs one command and    *)
(* ends.  The processes of one user share two files in the home directory, *)
(* without a lock: .smprc, the upstream and the last identifier pushed,    *)
(* and .smp-token, the token that create was given.                        *)
(*                                                                         *)
(* A process works on its own copy of .smprc, read when it starts.         *)
(* os.WriteFile truncates the file and then writes it, which are two steps *)
(* here: another process may read in between, or the process be killed, or *)
(* either step may fail, which the commands do not look at.                *)
(* The server is what answers requests: it may accept or refuse any of     *)
(* them, and each accepted create mints a token of its own.  Tokens and    *)
(* message identifiers are numbered in the order they come into being.     *)
(***************************************************************************)
EXTENDS Integers, Sequences, FiniteSets

CONSTANTS
    Procs,          \* the processes that may run at the same time
    Commands,       \* the command lines users type
    Addresses,      \* the well-formed addresses, smp@ and a name
    None,           \* an argument, or a file, that is not there
    Empty,          \* a file that was truncated
    Garbled,        \* half a text, or the texts of two processes in one file
    MaxStarted      \* bound on the number of commands started

Protocols == {"smp", "tcp", "ssh", "http"}

(* What .smprc may say: addresses as they were typed, or none.             *)
Configs ==
    [server : {c.server : c \in Commands} \union {None},
     user : {c.user : c \in Commands} \union {None},
     protocol : Protocols, context : Nat]

ASSUME ClientAssumption ==
    /\ None \notin Addresses
    /\ MaxStarted \in Nat
    /\ \A c \in Commands : c.upstream \in BOOLEAN
    /\ \A file \in {None, Empty, Garbled} : file \notin Configs

VARIABLES
    rc,             \* .smprc
    tokenFile,      \* .smp-token: the number of a token
    pc, cmd, cfg,   \* process -> its next step, command line, and copy of .smprc
    tail,           \* process -> the token it authenticates with
    id,             \* process -> the identifier of its message
    answer,         \* process -> the token in the answer, 0 when there is none
    minted,         \* the users that tokens were minted for, in their order
    sent,           \* the number of pushes sent
    started         \* the number of commands started

localVars == <<pc, cmd, cfg, tail, id, answer>>
clientVars == <<rc, tokenFile, localVars, minted, sent, started>>

Fresh == [server |-> None, user |-> None, protocol |-> "smp", context |-> 0]

Readable == rc \notin {None, Empty, Garbled}

(* A file that is missing, or is not JSON, leaves the defaults.            *)
LoadConfig == IF Readable THEN rc ELSE Fresh

(* The first flag in the order the commands collect them; force is http.   *)
SelectProtocol(flags) ==
    IF {"force", "http"} \intersect flags # {} THEN "http"
    ELSE IF "ssh" \in flags THEN "ssh"
    ELSE IF "tcp" \in flags THEN "tcp" ELSE "smp"

Argument(given, saved) == IF given = None THEN saved ELSE given

(* What -u makes of a configuration.                                       *)
Tracked(c, old) ==
    IF c.upstream /\ c.server # None
      THEN [old EXCEPT !.server = c.server, !.protocol = SelectProtocol(c.flags),
                       !.user = Argument(c.user, @)]
      ELSE old

Server(p) == Argument(cmd[p].server, cfg[p].server)
User(p) == Argument(cmd[p].user, cfg[p].user)

(* watch-context uses the saved protocol, which is never empty.            *)
Protocol(p) ==
    IF cmd[p].name = "watch" THEN cfg[p].protocol ELSE SelectProtocol(cmd[p].flags)

Running(p) == pc[p] # "idle"

-----------------------------------------------------------------------------

ClientInit ==
    /\ rc = None /\ tokenFile = None
    /\ pc = [p \in Procs |-> "idle"]
    /\ cmd = [p \in Procs |-> None]
    /\ cfg = [p \in Procs |-> Fresh]
    /\ tail = [p \in Procs |-> None]
    /\ id = [p \in Procs |-> 0]
    /\ answer = [p \in Procs |-> None]
    /\ minted = <<>> /\ sent = 0 /\ started = 0

Goto(p, step) == pc' = [pc EXCEPT ![p] = step]

(* The process ends; what it held is gone.                                 *)
Exit(p) ==
    /\ pc' = [pc EXCEPT ![p] = "idle"]
    /\ cmd' = [cmd EXCEPT ![p] = None]
    /\ cfg' = [cfg EXCEPT ![p] = Fresh]
    /\ tail' = [tail EXCEPT ![p] = None]
    /\ id' = [id EXCEPT ![p] = 0]
    /\ answer' = [answer EXCEPT ![p] = None]

Begin(p, c, copy, step) ==
    /\ ~Running(p)
    /\ started' = started + 1
    /\ cmd' = [cmd EXCEPT ![p] = c]
    /\ cfg' = [cfg EXCEPT ![p] = copy]
    /\ Goto(p, step)
    /\ UNCHANGED <<rc, tokenFile, tail, id, answer, minted, sent>>

Addressed(c, saved) ==
    Argument(c.server, saved.server) # None /\ Argument(c.user, saved.user) # None

(* The commands as they start: the arguments are parsed, .smprc is read,   *)
(* saved being what it said, and -u is noted in the process's copy.  A     *)
(* command that lacks an argument ends with its usage text and changes     *)
(* nothing.                                                                *)
Push(p, c, saved) ==
    /\ c.name = "push"
    /\ Addressed(c, saved)
    /\ Begin(p, c, Tracked(c, saved), IF c.upstream THEN "track" ELSE "token")

PullForgetful(p, c, saved) ==
    /\ c.name = "pull"
    /\ Addressed(c, saved)
    /\ Begin(p, c, Tracked(c, IF c.upstream THEN Fresh ELSE saved),
             IF c.upstream /\ c.user # None THEN "track" ELSE "token")

(* pull saves an upstream only when it was given both addresses.           *)
Pull(p, c, saved) ==
    /\ c.name = "pull"
    /\ Addressed(c, saved)
    /\ Begin(p, c, Tracked(c, saved),
             IF c.upstream /\ c.user # None THEN "track" ELSE "token")

List(p, c, saved) ==
    /\ c.name = "list"
    /\ Argument(c.server, saved.server) # None
    /\ Begin(p, c, saved, "token")

WatchContext(p, c, saved) ==
    /\ c.name = "watch"
    /\ saved.server # None
    /\ Begin(p, c, saved, "token")

(* create and cfm push want their arguments and do not look at .smprc.     *)
Create(p, c) ==
    /\ c.name = "create"
    /\ None \notin {c.server, c.user}
    /\ Begin(p, c, Fresh, "token")

CfmPush(p, c) ==
    /\ c.name = "cfm push"
    /\ c.server # None
    /\ Begin(p, c, Fresh, "token")

(* A command starts, whatever it read of .smprc.                           *)
Start(p, saved) ==
    /\ started < MaxStarted
    /\ \E c \in Commands :
          \/ Push(p, c, saved) \/ Pull(p, c, saved) \/ List(p, c, saved)
          \/ WatchContext(p, c, saved) \/ Create(p, c) \/ CfmPush(p, c)

-----------------------------------------------------------------------------
(* SaveConfig, for -u before the message is sent ("track") and for the     *)
(* identifier after push was answered ("record").                          *)

(* After it, whether it failed or not.                                     *)
Saved(p) ==
    \/ /\ pc[p] \in {"track", "tracking"}
       /\ Goto(p, "token")
       /\ UNCHANGED <<cmd, cfg, tail, id, answer>>
    \/ pc[p] \in {"record", "recording"} /\ Exit(p)

OpenConfig(p) ==
    /\ \/ pc[p] = "track" /\ Goto(p, "tracking")
       \/ pc[p] = "record" /\ Goto(p, "recording")
    /\ rc' = Empty
    /\ UNCHANGED <<tokenFile, cmd, cfg, tail, id, answer, minted, sent, started>>

(* The file cannot be opened, or there is no home directory.               *)
OpenConfigFails(p) ==
    /\ pc[p] \in {"track", "record"}
    /\ Saved(p)
    /\ UNCHANGED <<rc, tokenFile, minted, sent, started>>

(* What another process wrote since the file was truncated may be longer,  *)
(* and its end then stays behind this process's text.                      *)
WriteConfig(p) ==
    /\ pc[p] \in {"tracking", "recording"}
    /\ Saved(p)
    /\ rc' \in {cfg[p]} \union (IF rc \in {Empty, cfg[p]} THEN {} ELSE {Garbled})
    /\ UNCHANGED <<tokenFile, minted, sent, started>>

(* The beginning of a text over another of the same length, up to the end  *)
(* of one of its fields.                                                   *)
Mixed(new, old) ==
    {[old EXCEPT !.server = new.server],
     [old EXCEPT !.server = new.server, !.user = new.user],
     [new EXCEPT !.context = old.context]}

(* The write fails, perhaps when part of the text is in the file.          *)
WriteConfigFails(p) ==
    /\ pc[p] \in {"tracking", "recording"}
    /\ Saved(p)
    /\ rc' \in {rc, Garbled} \union (IF Readable THEN Mixed(cfg[p], rc) ELSE {})
    /\ UNCHANGED <<tokenFile, minted, sent, started>>

Parseable(p) ==
    /\ Server(p) \in Addresses
    /\ cmd[p].name \in {"push", "pull", "create"} => User(p) \in Addresses

(* SMP_TOKEN, or else .smp-token unless it is empty or cannot be read.     *)
TokenTails(p) ==
    IF cmd[p].env # None THEN {cmd[p].env}
    ELSE {None, IF tokenFile = Empty THEN None ELSE tokenFile}

(* The addresses are parsed and the token is read; without one of them the *)
(* command ends, after -u was saved.                                       *)
GetTokenTail(p) ==
    /\ pc[p] = "token"
    /\ \E token \in TokenTails(p) :
          IF Parseable(p) /\ token # None
            THEN /\ tail' = [tail EXCEPT ![p] = token]
                 /\ Goto(p, "send")
                 /\ UNCHANGED <<cmd, cfg, id, answer>>
            ELSE Exit(p)
    /\ UNCHANGED <<rc, tokenFile, minted, sent, started>>

(* Connect or Send fails and nothing arrives: no ssh transport exists, the *)
(* server does not speak http, or it cannot be reached.                    *)
SendFails(p) ==
    /\ pc[p] = "send"
    /\ Exit(p)
    /\ UNCHANGED <<rc, tokenFile, minted, sent, started>>

(* The message is on its way; a push has an identifier from now on.        *)
Send(p) ==
    /\ pc[p] = "send"
    /\ Protocol(p) \in {"smp", "tcp"}
    /\ IF cmd[p].name = "push"
         THEN sent' = sent + 1 /\ id' = [id EXCEPT ![p] = sent']
         ELSE UNCHANGED <<sent, id>>
    /\ Goto(p, "sent")
    /\ UNCHANGED <<rc, tokenFile, cmd, cfg, tail, answer, minted, started>>

(* The server handles the message and answers; a create may be refused.    *)
Serve(p) ==
    /\ pc[p] = "sent"
    /\ \/ /\ cmd[p].name = "create"
          /\ minted' = Append(minted, cmd[p].user)
          /\ answer' = [answer EXCEPT ![p] = Len(minted')]
       \/ /\ answer' = [answer EXCEPT ![p] = 0]
          /\ UNCHANGED minted
    /\ Goto(p, "served")
    /\ UNCHANGED <<rc, tokenFile, cmd, cfg, tail, id, sent, started>>

AnsweredKeepingAnything(p, text) ==
    IF cmd[p].name = "push"
      THEN /\ cfg' = [cfg EXCEPT ![p].context = id[p]]
           /\ Goto(p, "record")
           /\ UNCHANGED <<cmd, tail, id, answer>>
    ELSE IF cmd[p].name = "create"
      THEN /\ Goto(p, "keep")
           /\ answer' = [answer EXCEPT ![p] = IF text = 0 THEN Garbled ELSE text]
           /\ UNCHANGED <<cmd, cfg, tail, id>>
    ELSE Exit(p)

(* push notes the identifier without a look at the answer; create takes    *)
(* the token out of an answer that has one; the others are done.           *)
Answered(p, text) ==
    IF cmd[p].name = "push"
      THEN /\ cfg' = [cfg EXCEPT ![p].context = id[p]]
           /\ Goto(p, "record")
           /\ UNCHANGED <<cmd, tail, id, answer>>
    ELSE IF text # 0
      THEN /\ Goto(p, "keep")
           /\ answer' = [answer EXCEPT ![p] = text]
           /\ UNCHANGED <<cmd, cfg, tail, id>>
    ELSE Exit(p)

(* readResponse takes one Read for the whole answer.                       *)
ReadWhole(p) ==
    /\ pc[p] = "served"
    /\ Answered(p, answer[p])
    /\ UNCHANGED <<rc, tokenFile, minted, sent, started>>

(* The first segment of an answer, which may end before or in the token.   *)
ReadCut(p) ==
    /\ pc[p] = "served"
    /\ answer[p] # 0
    /\ \E text \in {0, Garbled} : Answered(p, text)
    /\ UNCHANGED <<rc, tokenFile, minted, sent, started>>

(* The connection is closed before an answer came, and perhaps before the  *)
(* message was handled: readResponse returns an empty answer, no error.    *)
ReadEOF(p) ==
    /\ pc[p] \in {"sent", "served"}
    /\ Answered(p, 0)
    /\ UNCHANGED <<rc, tokenFile, minted, sent, started>>

ReadFailsUnnoticed(p) ==
    /\ pc[p] \in {"sent", "served"}
    /\ Answered(p, 0)
    /\ UNCHANGED <<rc, tokenFile, minted, sent, started>>

(* The deadline passes, or the connection is reset.                        *)
ReadFails(p) ==
    /\ pc[p] \in {"sent", "served"}
    /\ Exit(p)
    /\ UNCHANGED <<rc, tokenFile, minted, sent, started>>

-----------------------------------------------------------------------------

OpenToken(p) ==
    /\ pc[p] = "keep"
    /\ tokenFile' = Empty
    /\ Goto(p, "keeping")
    /\ UNCHANGED <<rc, cmd, cfg, tail, id, answer, minted, sent, started>>

(* Whole tokens have one length, so the last writer's is what is left.     *)
WriteToken(p) ==
    /\ pc[p] = "keeping"
    /\ tokenFile' = IF tokenFile \in {Empty} \union DOMAIN minted THEN answer[p] ELSE Garbled
    /\ Exit(p)
    /\ UNCHANGED <<rc, minted, sent, started>>

(* The file cannot be opened, or there is no home directory and the token  *)
(* goes to the working directory, where nobody looks for it.               *)
OpenTokenFails(p) ==
    /\ pc[p] = "keep"
    /\ Exit(p)
    /\ UNCHANGED <<rc, tokenFile, minted, sent, started>>

WriteTokenFails(p) ==
    /\ pc[p] = "keeping"
    /\ tokenFile' \in {tokenFile, Garbled}
    /\ Exit(p)
    /\ UNCHANGED <<rc, minted, sent, started>>

Kill(p) ==
    /\ Running(p)
    /\ Exit(p)
    /\ UNCHANGED <<rc, tokenFile, minted, sent, started>>

Step(p) ==
    \/ OpenConfig(p) \/ OpenConfigFails(p) \/ WriteConfig(p) \/ WriteConfigFails(p)
    \/ GetTokenTail(p)
    \/ SendFails(p) \/ Send(p)
    \/ ReadWhole(p) \/ ReadCut(p) \/ ReadEOF(p) \/ ReadFails(p)
    \/ OpenToken(p) \/ OpenTokenFails(p) \/ WriteToken(p) \/ WriteTokenFails(p)

(* A file that is there and cannot be read is as good as missing.          *)
ClientNext ==
    \E p \in Procs :
        \/ \E saved \in {LoadConfig, Fresh} : Start(p, saved)
        \/ Step(p) \/ Serve(p) \/ Kill(p)

=============================================================================
