------------------------------- MODULE Server -------------------------------
(***************************************************************************)
(* The life of the server process: internal/server/server.go and           *)
(* internal/handler/connection.go, and main, which stops it on a signal.   *)
(* The goroutines are main, the accept loop, the cleanup loop and one per  *)
(* connection; wg counts all but main.                                     *)
(*                                                                         *)
(* A client sends its messages on a connection one after the other, each   *)
(* in Parts pieces.  Pieces are numbered from 1 on every connection, so a  *)
(* few numbers stand for the bytes: sent by the client, taken from the     *)
(* socket by Read, and base, the pieces that were fed before the parser    *)
(* was last reset.  Module Parser shows that a parser is done as soon as   *)
(* it was fed a whole message, however that was cut, and that the rest of  *)
(* its buffer plays no part; reset throws the rest away.                   *)
(*                                                                         *)
(* Only reads have a deadline: the write of an answer lasts as long as the *)
(* client lets it.  And no goroutine recovers from a panic, so one in a    *)
(* handler ends the process.                                               *)
(***************************************************************************)
EXTENDS Integers, Sequences, FiniteSets

CONSTANTS
    Conns,          \* connections
    Parts,          \* pieces of a message
    Window,         \* connection -> messages sent before an answer is waited for
    MaxMessages     \* bound on the messages of a connection

ASSUME ServerAssumption ==
    /\ IsFiniteSet(Conns)
    /\ Parts \in Nat \ {0} /\ MaxMessages \in Nat
    /\ Window \in [Conns -> Nat \ {0}]

VARIABLES
    main,       \* where main is: serving, or in Stop
    wg,         \* the wait group's counter
    accepting,  \* whether the accept loop runs
    cleaner,    \* the cleanup loop
    conn,       \* connection -> what its goroutine does, or what became of it
    sent, taken, base,
    handled,    \* connection -> the messages handled on it, by their numbers
    stray,      \* connection -> messages handled on it that nobody sent
    stalled     \* connections whose client does not read what is written

connVars == <<conn, sent, taken, base, handled, stray, stalled>>
serverVars == <<main, wg, accepting, cleaner, connVars>>

DoneClosed == main \in {"done closed", "waiting", "stopped"}
Listening  == main \in {"serving", "done closed"}

(* Start adds the accept loop and the cleanup loop to the wait group.      *)
ServerInit ==
    /\ main = "serving"
    /\ wg = 2
    /\ accepting = TRUE
    /\ cleaner = "waiting"
    /\ conn = [c \in Conns |-> "none"]
    /\ sent = [c \in Conns |-> 0]
    /\ taken = [c \in Conns |-> 0]
    /\ base = [c \in Conns |-> 0]
    /\ handled = [c \in Conns |-> <<>>]
    /\ stray = [c \in Conns |-> 0]
    /\ stalled = {}

-----------------------------------------------------------------------------
(* The clients.                                                            *)

Dial(c) ==
    /\ conn[c] = "none"
    /\ Listening
    /\ conn' = [conn EXCEPT ![c] = "backlog"]
    /\ UNCHANGED <<main, wg, accepting, cleaner, sent, taken, base, handled, stray, stalled>>

Begun(c) == sent[c] % Parts # 0

Outstanding(c) == sent[c] \div Parts - Len(handled[c]) - stray[c]

(* The client sends the next piece: of the message it has begun, or of a   *)
(* new one when it need not wait for an answer first.                      *)
Send(c) ==
    /\ conn[c] \in {"backlog", "reading", "handling", "answering", "reporting"}
    /\ Begun(c) \/ (Outstanding(c) < Window[c] /\ sent[c] < MaxMessages * Parts)
    /\ sent' = [sent EXCEPT ![c] = @ + 1]
    /\ UNCHANGED <<main, wg, accepting, cleaner, conn, taken, base, handled, stray, stalled>>

Writing(c) == conn[c] \in {"answering", "reporting"}

(* The buffers between the server and a client that does not read are full *)
(* until it reads on or its end of the connection is gone.                 *)
Stall(c) ==
    /\ Writing(c) /\ c \notin stalled
    /\ stalled' = stalled \union {c}
    /\ UNCHANGED <<main, wg, accepting, cleaner, conn, sent, taken, base, handled, stray>>

ReadOn(c) ==
    /\ c \in stalled
    /\ stalled' = stalled \ {c}
    /\ UNCHANGED <<main, wg, accepting, cleaner, conn, sent, taken, base, handled, stray>>

-----------------------------------------------------------------------------
(* The connections' goroutines.                                            *)

AcceptUncounted(c) ==
    /\ accepting /\ Listening
    /\ conn[c] = "backlog"
    /\ conn' = [conn EXCEPT ![c] = "reading"]
    /\ UNCHANGED <<main, wg, accepting, cleaner, sent, taken, base, handled, stray, stalled>>

(* Accept returns a connection: it is counted before its goroutine starts. *)
Accept(c) ==
    /\ accepting /\ Listening
    /\ conn[c] = "backlog"
    /\ conn' = [conn EXCEPT ![c] = "reading"]
    /\ wg' = wg + 1
    /\ UNCHANGED <<main, accepting, cleaner, sent, taken, base, handled, stray, stalled>>

Close(c) ==
    /\ conn' = [conn EXCEPT ![c] = "closed"]
    /\ wg' = wg - 1

(* What the parser is when the pieces up to n have been fed.  After a      *)
(* reset in the middle of a message it takes what follows for the start of *)
(* one: it finds an error, waits for more, or is done with a message that  *)
(* the client's data happens to spell.                                     *)
Fed(c, n) ==
    IF base[c] % Parts # 0 THEN {"reporting", "reading", "handling"}
    ELSE IF n - base[c] >= Parts THEN {"handling"} ELSE {"reading"}

(* Read returns some of the pieces that have arrived and feeds them.       *)
Read(c) ==
    /\ conn[c] = "reading"
    /\ \E n \in taken[c] + 1 .. sent[c] :
          /\ taken' = [taken EXCEPT ![c] = n]
          /\ \E state \in Fed(c, n) : conn' = [conn EXCEPT ![c] = state]
    /\ UNCHANGED <<main, wg, accepting, cleaner, sent, base, handled, stray, stalled>>

Process(c) ==
    IF base[c] % Parts = 0
      THEN /\ handled' = [handled EXCEPT ![c] = Append(@, base[c] \div Parts + 1)]
           /\ UNCHANGED stray
      ELSE /\ stray' = [stray EXCEPT ![c] = @ + 1]
           /\ UNCHANGED handled

HandleUnlessStopping(c) ==
    /\ conn[c] = "handling"
    /\ IF DoneClosed
         THEN Close(c) /\ UNCHANGED <<handled, stray>>
         ELSE /\ Process(c)
              /\ conn' = [conn EXCEPT ![c] = "answering"] /\ UNCHANGED wg
    /\ UNCHANGED <<main, accepting, cleaner, sent, taken, base, stalled>>

(* ProcessParsedMessage, up to where it writes the answer.                 *)
Handle(c) ==
    /\ conn[c] = "handling"
    /\ Process(c)
    /\ conn' = [conn EXCEPT ![c] = "answering"]
    /\ UNCHANGED <<main, wg, accepting, cleaner, sent, taken, base, stalled>>

AnswerWithoutReset(c) ==
    /\ Writing(c) /\ c \notin stalled
    /\ \/ conn[c] = "answering" /\ conn' = [conn EXCEPT ![c] = "reading"] /\ UNCHANGED wg
       \/ conn[c] = "reporting" /\ Close(c)
    /\ UNCHANGED <<main, accepting, cleaner, sent, taken, base, handled, stray, stalled>>

(* conn.Write returns, with or without an error.  After an answer, reset   *)
(* drops what else was fed; after the report of an error the connection is *)
(* closed.                                                                 *)
Answer(c) ==
    /\ Writing(c) /\ c \notin stalled
    /\ \/ /\ conn[c] = "answering"
          /\ base' = [base EXCEPT ![c] = taken[c]]
          /\ conn' = [conn EXCEPT ![c] = "reading"] /\ UNCHANGED wg
       \/ /\ conn[c] = "reporting"
          /\ Close(c) /\ UNCHANGED base
    /\ UNCHANGED <<main, accepting, cleaner, sent, taken, handled, stray, stalled>>

Served == {c \in Conns : conn[c] \in {"reading", "handling", "answering", "reporting"}}

(* A handler panics (module Handler: a pull with a negative offset does),  *)
(* and the process ends with every goroutine in it.                        *)
Panic(c) ==
    /\ conn[c] = "handling"
    /\ main' = "panicked"
    /\ wg' = 0 /\ accepting' = FALSE /\ cleaner' = "returned"
    /\ conn' = [d \in Conns |-> IF d \in Served THEN "lost"
                               ELSE IF conn[d] = "backlog" THEN "refused" ELSE conn[d]]
    /\ UNCHANGED <<sent, taken, base, handled, stray, stalled>>

(* Read fails when the deadline, 30 seconds, has passed, or the client has *)
(* closed the connection; what had arrived by then is not looked at.       *)
ReadFails(c) ==
    /\ conn[c] = "reading"
    /\ Close(c)
    /\ UNCHANGED <<main, accepting, cleaner, sent, taken, base, handled, stray, stalled>>

-----------------------------------------------------------------------------
(* The accept loop, the cleanup loop and Stop.                             *)

(* Accept fails after done was closed.  (While done is open the loop       *)
(* accepts again after an error, and nothing has changed.)                 *)
AcceptReturns ==
    /\ accepting /\ DoneClosed
    /\ accepting' = FALSE
    /\ wg' = wg - 1
    /\ UNCHANGED <<main, cleaner, connVars>>

SweepBegins ==
    /\ cleaner = "waiting"
    /\ cleaner' = "sweeping"
    /\ UNCHANGED <<main, wg, accepting, connVars>>

SweepEnds ==
    /\ cleaner = "sweeping"
    /\ cleaner' = "waiting"
    /\ UNCHANGED <<main, wg, accepting, connVars>>

CleanerIgnoresDone ==
    /\ cleaner = "waiting" /\ DoneClosed
    /\ UNCHANGED serverVars

(* select takes the closed done; it may take a tick first.                 *)
CleanerReturns ==
    /\ cleaner = "waiting" /\ DoneClosed
    /\ cleaner' = "returned"
    /\ wg' = wg - 1
    /\ UNCHANGED <<main, accepting, connVars>>

CloseDone ==
    /\ main = "serving"
    /\ main' = "done closed"
    /\ UNCHANGED <<wg, accepting, cleaner, connVars>>

(* The listener is closed; connections not accepted yet are reset.         *)
CloseListener ==
    /\ main = "done closed"
    /\ main' = "waiting"
    /\ conn' = [c \in Conns |-> IF conn[c] = "backlog" THEN "refused" ELSE conn[c]]
    /\ UNCHANGED <<wg, accepting, cleaner, sent, taken, base, handled, stray, stalled>>

WaitReturns ==
    /\ main = "waiting"
    /\ wg = 0
    /\ main' = "stopped"
    /\ UNCHANGED <<wg, accepting, cleaner, connVars>>

ServerNext ==
    \/ \E c \in Conns :
          \/ Dial(c) \/ Send(c) \/ Stall(c) \/ ReadOn(c)
          \/ Accept(c) \/ Read(c) \/ Handle(c) \/ Panic(c) \/ Answer(c) \/ ReadFails(c)
    \/ AcceptReturns \/ SweepBegins \/ SweepEnds \/ CleanerReturns
    \/ CloseDone \/ CloseListener \/ WaitReturns

(* Go runs every goroutine that can run; a read ends by its deadline, a    *)
(* write when the client reads again and again; the select of the cleanup  *)
(* loop chooses among what is ready at random, so it does not take the     *)
(* tick for ever.  Nobody need dial, send, read or stop.                   *)
ServerSpec ==
    /\ ServerInit /\ [][ServerNext]_serverVars
    /\ \A c \in Conns : WF_serverVars(Read(c) \/ Handle(c) \/ ReadFails(c))
    /\ \A c \in Conns : SF_serverVars(Answer(c))
    /\ WF_serverVars(AcceptReturns) /\ WF_serverVars(SweepEnds)
    /\ SF_serverVars(CleanerReturns)
    /\ WF_serverVars(CloseListener) /\ WF_serverVars(WaitReturns)

-----------------------------------------------------------------------------

ConnStates ==
    {"none", "backlog", "reading", "handling", "answering", "reporting",
     "closed", "refused", "lost"}

Loops == (IF accepting THEN 1 ELSE 0) + (IF cleaner # "returned" THEN 1 ELSE 0)

(* The state has its types, and wg counts the goroutines that run.         *)
ServerTypeOK ==
    /\ main \in {"serving", "done closed", "waiting", "stopped", "panicked"}
    /\ accepting \in BOOLEAN
    /\ cleaner \in {"waiting", "sweeping", "returned"}
    /\ conn \in [Conns -> ConnStates]
    /\ {sent, taken, base, stray} \subseteq [Conns -> Nat]
    /\ handled \in [Conns -> Seq(Nat)]
    /\ stalled \subseteq Conns
    /\ wg = Loops + Cardinality(Served)

(* When Stop returns nothing runs that could touch a store: neither loop,  *)
(* nor a connection accepted while Stop was under way.                     *)
StoppedIsQuiet ==
    main = "stopped" => ~accepting /\ cleaner = "returned" /\ Served = {}

(* On every connection the messages are handled in the order they were     *)
(* sent, none twice, and none before it was read entirely.                 *)
HandledInOrder ==
    \A c \in Conns :
        LET done == handled[c]
        IN  \A k \in DOMAIN done :
               /\ k > 1 => done[k - 1] < done[k]
               /\ done[k] * Parts <= taken[c]

(* A message that was read entirely is handled, whether the client then    *)
(* hangs up, falls silent, or the server is being stopped, and nothing is  *)
(* handled that was not sent.  (A client that does not wait for its        *)
(* answers may have a message thrown away by reset, or a part of one taken *)
(* for a message.)                                                         *)
ReadIsHandled ==
    \A c \in Conns :
        Window[c] = 1 /\ conn[c] \in {"reading", "closed"} =>
            Len(handled[c]) = taken[c] \div Parts /\ stray[c] = 0

(* Stop returns, unless a handler panics, once the clients have sent what  *)
(* they had to send and if no client leaves an answer unread for ever: a   *)
(* write has no deadline, so one that does holds Stop.                     *)
StopReturns ==
    (\A c \in Conns : []<>(c \notin stalled))
        => (DoneClosed ~> main \in {"stopped", "panicked"})

=============================================================================
