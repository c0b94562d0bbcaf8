------------------------------- MODULE MCEnds -------------------------------
(***************************************************************************)
(* What is at the ends of the server: the parser of its configuration      *)
(* file, the parser of the messages it is sent, and the client.  They      *)
(* share no state: each is explored while the other two are as they        *)
(* started.                                                                *)
(***************************************************************************)
EXTENDS MCParser, MCConfig, MCClient

endsVars == <<parserVars, configVars, historyVars>>

EndsInit == ParserInit /\ ConfigInit /\ HistoryInit

(* Neither reads messages, whichever will be sent: one is enough.          *)
NoStream == parser = NewParser /\ received = <<>> /\ source = <<>>

ReadsFile ==
    /\ NoStream /\ HistoryInit
    /\ ConfigNext /\ UNCHANGED <<parserVars, historyVars>>

ReadsMessages ==
    /\ ConfigInit /\ HistoryInit
    /\ ParserNext /\ UNCHANGED <<configVars, historyVars>>

RunsCommands ==
    /\ NoStream /\ ConfigInit
    /\ HistoryNext /\ UNCHANGED <<parserVars, configVars>>

EndsNext == ReadsFile \/ ReadsMessages \/ RunsCommands

EndsSpec == EndsInit /\ [][EndsNext]_endsVars
=============================================================================
