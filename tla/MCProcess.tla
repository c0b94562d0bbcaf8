----------------------------- MODULE MCProcess -----------------------------
(***************************************************************************)
(* The server process without its handlers: the four stores a handler      *)
(* calls by turns, the file store as the library that implements it, and   *)
(* the goroutines.  They share no state and no lock, so nothing one of     *)
(* them does can depend on another: each is explored by itself, part being *)
(* the one that moves.                                                     *)
(*   cache      three entries used with five keys: it fills, evicts, and   *)
(*              takes evicted keys back;                                   *)
(*   tokens     four tails: the slice fills with distinct tails, or with   *)
(*              collisions;                                                *)
(*   messages   two inboxes and three messages, stamped up to one tick     *)
(*              before they are stored; every message expires before the   *)
(*              clock's bound;                                             *)
(*   files      two identifiers, uploads and replacements by one user that *)
(*              differ in length and visibility, loads by that user and by *)
(*              nobody in particular; files expire before the clock's      *)
(*              bound; of the three lengths the last is too large;         *)
(*   server     two connections, so that one can be served while Stop      *)
(*              waits for the other; a client that waits for its answers,  *)
(*              as the repository's do, and one that does not; two         *)
(*              messages in two pieces each, so that a read can end within *)
(*              either.                                                    *)
(***************************************************************************)
EXTENDS CacheHistory, TokenHistory, MessageStore, CFMLibrary, Server, TLC

CONSTANTS
    k1, k2, k3, k4, k5, ok, denied,         \* keys and responses
    t1, t2, t3, t4, alice, bob, nobody,     \* tails and users
    shared, f1, f2,                         \* an inbox, file identifiers
    c1, c2                                  \* connections

MCKeys == {k1, k2, k3, k4, k5}
MCResponses == {ok, denied}
MCTails == {t1, t2, t3, t4}
MCUsers == {alice, bob}
MCRoutes == {alice, shared}
MCSenders == {t1}
MCUploaders == {alice}
MCRequesters == {alice, nobody}
MCCfmIds == {f1, f2}
MCExpiries == {1}
MCConns == {c1, c2}
OneWaits == [c \in MCConns |-> IF c = c1 THEN 1 ELSE 2]

VARIABLE part

processVars == <<part, recencyVars, clashVars, messageVars, libraryVars, serverVars>>

ProcessInit ==
    /\ part \in {"cache", "tokens", "messages", "files", "server"}
    /\ RecencyInit /\ ClashInit /\ MessageInit /\ LibraryInit /\ ServerInit

(* A step of the part that moves.                                          *)
ForCache(A) ==
    /\ part = "cache" /\ A
    /\ UNCHANGED <<part, clashVars, messageVars, libraryVars, serverVars>>

ForTokens(A) ==
    /\ part = "tokens" /\ A
    /\ UNCHANGED <<part, recencyVars, messageVars, libraryVars, serverVars>>

ForMessages(A) ==
    /\ part = "messages" /\ A
    /\ UNCHANGED <<part, recencyVars, clashVars, libraryVars, serverVars>>

ForFiles(A) ==
    /\ part = "files" /\ A
    /\ UNCHANGED <<part, recencyVars, clashVars, messageVars, serverVars>>

ForServer(A) ==
    /\ part = "server" /\ A
    /\ UNCHANGED <<part, recencyVars, clashVars, messageVars, libraryVars>>

(* The server may stop, which ends its part; the others never end.         *)
ProcessNext ==
    \/ ForCache(RecencyNext) \/ ForTokens(ClashNext) \/ ForMessages(MessageNext)
    \/ ForFiles(LibraryNext) \/ ForServer(ServerNext)
    \/ main \in {"stopped", "panicked"} /\ UNCHANGED processVars

(* The fairness of MessageFairSpec, LibrarySpec and ServerSpec.  As part   *)
(* stays, a condition on several parts' steps is one on each.              *)
ProcessSpec ==
    /\ ProcessInit /\ [][ProcessNext]_processVars
    /\ WF_processVars(\/ ForMessages(clock < MaxClock /\ Tick) \/ ForFiles(LibraryTick)
                      \/ ForServer(AcceptReturns))
    /\ WF_processVars(\/ ForMessages(Cleanup) \/ ForFiles(CleanupDrops)
                      \/ ForServer(CloseListener \/ WaitReturns))
    /\ WF_processVars(ForServer(SweepEnds)) /\ SF_processVars(ForServer(CleanerReturns))
    /\ \A c \in Conns : /\ WF_processVars(ForServer(Read(c) \/ Handle(c) \/ ReadFails(c)))
                        /\ SF_processVars(ForServer(Answer(c)))
=============================================================================
