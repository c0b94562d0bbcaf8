---------------------------- MODULE ClientProofs ----------------------------
(***************************************************************************)
(* What the client's processes keep in the two files of the home           *)
(* directory, for any number of processes, any command lines and any       *)
(* number of commands: the token is one a server minted, .smprc says what  *)
(* some command line and some handled push said, and commands that ran one *)
(* after another leave what running them that way should leave.            *)
(***************************************************************************)
EXTENDS ClientHistory, SequenceTheorems, TLAPS

Labels ==
    {"idle", "track", "tracking", "token", "send", "sent", "served", "record",
     "recording", "keep", "keeping"}

Names == {c.user : c \in Commands}

(* The types of a process's locals and of .smprc, and who may be where.    *)
TypesOK ==
    /\ DOMAIN pc = Procs /\ DOMAIN cmd = Procs /\ DOMAIN cfg = Procs
    /\ DOMAIN id = Procs /\ DOMAIN answer = Procs
    /\ \A p \in Procs : pc[p] \in Labels /\ cfg[p] \in Configs /\ id[p] \in Nat
    /\ \A p \in Procs : Running(p) => cmd[p] \in Commands
    /\ \A p \in Procs : pc[p] \in {"track", "tracking"} => Saves(cmd[p])
    /\ \A p \in Procs : pc[p] \in {"record", "recording"} => cmd[p].name = "push"
    /\ rc \in Configs \union {None, Empty, Garbled}
    /\ intended \in Configs
    /\ minted \in Seq(Names) /\ sent \in Nat

LEMMA FreshTyped == Fresh \in Configs
BY DEF Fresh, Configs, Protocols

LEMMA LoadConfigTyped ==
  ASSUME TypesOK
  PROVE  LoadConfig \in Configs
BY FreshTyped DEF TypesOK, LoadConfig, Readable

LEMMA MixedTyped ==
  ASSUME NEW new \in Configs, NEW old \in Configs
  PROVE  Mixed(new, old) \subseteq Configs
BY DEF Mixed, Configs

LEMMA TrackedTyped ==
  ASSUME NEW c \in Commands, NEW old \in Configs
  PROVE  Tracked(c, old) \in Configs
<1>1. SelectProtocol(c.flags) \in Protocols
  BY DEF SelectProtocol, Protocols
<1>2. Argument(c.user, old.user) \in {d.user : d \in Commands} \union {None}
  BY DEF Argument, Configs
<1> QED
  BY <1>1, <1>2 DEF Tracked, Configs

-----------------------------------------------------------------------------
(* The steps, by what they do to the process that takes them.              *)

(* Nothing changes of the other processes.                                 *)
Alone(p) ==
    /\ DOMAIN pc' = Procs /\ DOMAIN cmd' = Procs /\ DOMAIN cfg' = Procs
    /\ DOMAIN id' = Procs /\ DOMAIN answer' = Procs
    /\ \A q \in Procs \ {p} :
          /\ pc'[q] = pc[q] /\ cmd'[q] = cmd[q] /\ cfg'[q] = cfg[q]
          /\ id'[q] = id[q] /\ answer'[q] = answer[q]

Same(p) == cfg'[p] = cfg[p] /\ id'[p] = id[p] /\ answer'[p] = answer[p]

Moved(p, from, to) == pc[p] = from /\ pc'[p] = to /\ cmd'[p] = cmd[p]

Ended(p) == pc'[p] = "idle" /\ cfg'[p] = Fresh /\ id'[p] = 0

Begun(p) ==
    /\ pc[p] = "idle" /\ pc'[p] \in {"track", "token"}
    /\ cmd'[p] \in Commands
    /\ \/ cfg'[p] \in {Tracked(cmd'[p], LoadConfig), Tracked(cmd'[p], Fresh)}
       \/ cfg'[p] \in {LoadConfig, Fresh} /\ ~Saves(cmd'[p])
    /\ pc'[p] = "track" => Saves(cmd'[p])
    /\ pc'[p] = "token" => ~(Saves(cmd'[p]) /\ cmd'[p].upstream)
    /\ id'[p] = id[p]
    /\ UNCHANGED <<rc, tokenFile, minted, sent>>

Opened(p) ==
    /\ Moved(p, "track", "tracking") \/ Moved(p, "record", "recording")
    /\ Same(p) /\ rc' = Empty
    /\ UNCHANGED <<tokenFile, minted, sent>>

Wrote(p) ==
    /\ \/ Moved(p, "tracking", "token") /\ Same(p)
       \/ pc[p] = "recording" /\ Ended(p)
    /\ rc' \in {cfg[p]} \union (IF rc \in {Empty, cfg[p]} THEN {} ELSE {Garbled})
    /\ UNCHANGED <<tokenFile, minted, sent>>

(* The configuration is not opened, or not written, and nobody looks.      *)
Skipped(p) ==
    /\ \/ Moved(p, "track", "token") /\ Same(p)
       \/ pc[p] = "record" /\ Ended(p)
    /\ UNCHANGED <<rc, tokenFile, minted, sent>>

Spoiled(p) ==
    /\ \/ Moved(p, "tracking", "token") /\ Same(p)
       \/ pc[p] = "recording" /\ Ended(p)
    /\ rc' \in {rc, Garbled} \union (IF Readable THEN Mixed(cfg[p], rc) ELSE {})
    /\ UNCHANGED <<tokenFile, minted, sent>>

Quit(p) == pc[p] # "idle" /\ Ended(p) /\ UNCHANGED <<rc, tokenFile, minted, sent>>

Prepared(p) == Moved(p, "token", "send") /\ Same(p) /\ UNCHANGED <<rc, tokenFile, minted, sent>>

SentOff(p) ==
    /\ Moved(p, "send", "sent") /\ cfg'[p] = cfg[p] /\ answer'[p] = answer[p]
    /\ sent' \in {sent, sent + 1} /\ id'[p] \in {id[p], sent + 1}
    /\ UNCHANGED <<rc, tokenFile, minted>>

Handled(p) ==
    /\ Moved(p, "sent", "served") /\ cfg'[p] = cfg[p] /\ id'[p] = id[p]
    /\ \/ /\ cmd[p].name = "create" /\ minted' = Append(minted, cmd[p].user)
          /\ answer'[p] = Len(minted')
       \/ answer'[p] = 0 /\ minted' = minted
    /\ UNCHANGED <<rc, tokenFile, sent>>

Got(p, text) ==
    /\ pc[p] \in {"sent", "served"}
    /\ IF cmd[p].name = "push"
         THEN /\ pc'[p] = "record" /\ cmd'[p] = cmd[p]
              /\ cfg'[p] = [cfg[p] EXCEPT !.context = id[p]]
              /\ id'[p] = id[p] /\ answer'[p] = answer[p]
       ELSE IF text # 0
         THEN /\ pc'[p] = "keep" /\ cmd'[p] = cmd[p] /\ answer'[p] = text
              /\ cfg'[p] = cfg[p] /\ id'[p] = id[p]
       ELSE Ended(p)
    /\ UNCHANGED <<rc, tokenFile, minted, sent>>

TokenOpened(p) ==
    /\ Moved(p, "keep", "keeping") /\ Same(p)
    /\ tokenFile' = Empty
    /\ UNCHANGED <<rc, minted, sent>>

TokenWritten(p) ==
    /\ pc[p] = "keeping" /\ Ended(p)
    /\ tokenFile' = IF tokenFile \in {Empty} \union DOMAIN minted THEN answer[p] ELSE Garbled
    /\ UNCHANGED <<rc, minted, sent>>

TokenSpoiled(p) ==
    /\ pc[p] = "keeping" /\ Ended(p)
    /\ tokenFile' \in {tokenFile, Garbled}
    /\ UNCHANGED <<rc, minted, sent>>

(* A step of the history, with what it leaves in the history variables.    *)
StepOf(p) ==
    \/ /\ Begun(p)
       /\ intended' = IF Saves(cmd'[p]) THEN Tracked(cmd'[p], intended) ELSE intended
       /\ incidents \subseteq incidents'
       /\ Saves(cmd'[p]) =>
             /\ cfg'[p] = Tracked(cmd'[p], LoadConfig) \/ "unread" \in incidents'
             /\ (\E q \in Procs : Saving(q)) => "overlap" \in incidents'
       /\ handled' = handled
    \/ /\ Handled(p)
       /\ IF cmd[p].name = "push"
            THEN /\ handled' = handled \union {id[p]}
                 /\ intended' = [intended EXCEPT !.context = id[p]]
            ELSE handled' = handled /\ intended' = intended
       /\ incidents' = incidents
    \/ /\ \/ Quit(p) /\ Note("killed", Saving(p))
          \/ Quit(p) /\ Note("failed", Saving(p))
          \/ Got(p, 0) /\ Note("eof", Saving(p))
          \/ \E text : Got(p, text) /\ pc[p] = "served" /\ Note("cut", TRUE)
          \/ Skipped(p) /\ Note("unsaved", TRUE)
          \/ /\ Spoiled(p)
             /\ incidents' = incidents \union {"unsaved"} \union (IF Readable THEN {"mixed"} ELSE {})
          \/ TokenSpoiled(p) /\ Note("torn", TRUE)
       /\ handled' = handled /\ intended' = intended
    \/ /\ \/ Opened(p) \/ Wrote(p) \/ Prepared(p)
          \/ Quit(p) /\ pc[p] \in {"token", "send", "keep"}
          \/ SentOff(p) \/ (Got(p, answer[p]) /\ pc[p] = "served")
          \/ TokenOpened(p) \/ TokenWritten(p)
       /\ handled' = handled /\ intended' = intended /\ incidents' = incidents

LEMMA ExitEnds ==
  ASSUME TypesOK, NEW p \in Procs, Exit(p)
  PROVE  Ended(p) /\ Alone(p)
BY DEF TypesOK, Exit, Ended, Alone

LEMMA SavedGoesOn ==
  ASSUME TypesOK, NEW p \in Procs, Saved(p)
  PROVE  /\ Alone(p)
         /\ \/ /\ Moved(p, "track", "token") \/ Moved(p, "tracking", "token")
               /\ Same(p)
            \/ pc[p] \in {"record", "recording"} /\ Ended(p)
<1>1. CASE pc[p] \in {"record", "recording"} /\ Exit(p)
  BY <1>1, ExitEnds
<1>2. CASE /\ pc[p] \in {"track", "tracking"} /\ Goto(p, "token")
           /\ UNCHANGED <<cmd, cfg, tail, id, answer>>
  BY <1>2 DEF Goto, TypesOK, Moved, Same, Alone
<1> QED
  BY <1>1, <1>2 DEF Saved

LEMMA StartBegins ==
  ASSUME TypesOK, NEW p \in Procs, NEW saved \in {LoadConfig, Fresh}, Start(p, saved)
  PROVE  /\ Begun(p) /\ Alone(p)
         /\ Saves(cmd'[p]) => cfg'[p] = Tracked(cmd'[p], saved)
<1>1. PICK c, copy, step :
         /\ c \in Commands /\ Begin(p, c, copy, step)
         /\ step \in {"track", "token"}
         /\ copy = Tracked(c, saved) \/ (copy \in {saved, Fresh} /\ ~Saves(c))
         /\ step = "track" => Saves(c)
         /\ step = "token" => ~(Saves(c) /\ c.upstream)
  <2>1. PICK c \in Commands :
           \/ Push(p, c, saved) \/ Pull(p, c, saved) \/ List(p, c, saved)
           \/ WatchContext(p, c, saved) \/ Create(p, c) \/ CfmPush(p, c)
    BY DEF Start
  <2>2. CASE Push(p, c, saved)
    <3>1. PICK step : Begin(p, c, Tracked(c, saved), step)
                      /\ step = IF c.upstream THEN "track" ELSE "token"
      BY <2>2 DEF Push
    <3> QED
      BY <2>2, <3>1 DEF Push, Saves
  <2>3. CASE Pull(p, c, saved)
    <3>1. PICK step : Begin(p, c, Tracked(c, saved), step)
                      /\ step = IF c.upstream /\ c.user # None THEN "track" ELSE "token"
      BY <2>3 DEF Pull
    <3> QED
      BY <2>3, <3>1 DEF Pull, Saves
  <2>4. CASE List(p, c, saved) \/ WatchContext(p, c, saved)
    <3>1. Begin(p, c, saved, "token") /\ c.name \in {"list", "watch"}
      BY <2>4 DEF List, WatchContext
    <3> QED
      BY <3>1 DEF Saves
  <2>5. CASE Create(p, c) \/ CfmPush(p, c)
    <3>1. Begin(p, c, Fresh, "token") /\ c.name \in {"create", "cfm push"}
      BY <2>5 DEF Create, CfmPush
    <3> QED
      BY <3>1 DEF Saves
  <2> QED
    BY <2>1, <2>2, <2>3, <2>4, <2>5
<1>2. /\ pc[p] = "idle" /\ pc'[p] = step /\ cmd'[p] = c /\ cfg'[p] = copy
      /\ id' = id /\ UNCHANGED <<rc, tokenFile, minted, sent>>
  BY <1>1 DEF Begin, Running, Goto, TypesOK
<1>3. Alone(p)
  BY <1>1 DEF Begin, Goto, TypesOK, Alone
<1> QED
  BY <1>1, <1>2, <1>3 DEF Begun

LEMMA AnsweredGot ==
  ASSUME TypesOK, NEW p \in Procs, pc[p] \in {"sent", "served"}, NEW text, Answered(p, text),
         UNCHANGED <<rc, tokenFile, minted, sent>>
  PROVE  Got(p, text) /\ Alone(p)
<1>1. CASE cmd[p].name = "push"
  BY <1>1 DEF TypesOK, Answered, Goto, Got, Alone
<1>2. CASE cmd[p].name # "push" /\ text # 0
  BY <1>2 DEF TypesOK, Answered, Goto, Got, Alone
<1>3. CASE cmd[p].name # "push" /\ text = 0
  BY <1>3, ExitEnds DEF Answered, Got
<1> QED
  BY <1>1, <1>2, <1>3

LEMMA HistorySteps ==
  ASSUME TypesOK, HistoryNext
  PROVE  \E p \in Procs : StepOf(p) /\ Alone(p)
<1>1. PICK p \in Procs : \/ \E saved \in {LoadConfig, Fresh} : Started(p, saved)
                        \/ Served(p) \/ Undisturbed(p) \/ Disturbed(p)
  BY DEF HistoryNext
<1>2. ASSUME NEW saved \in {LoadConfig, Fresh}, Started(p, saved)
      PROVE  StepOf(p) /\ Alone(p)
  <2>1. /\ Begun(p) /\ Alone(p)
        /\ Saves(cmd'[p]) => cfg'[p] = Tracked(cmd'[p], saved)
    BY <1>2, StartBegins DEF Started
  <2> QED
    BY <1>2, <2>1 DEF Started, StepOf
<1>3. CASE Served(p)
  <2>1. Handled(p) /\ Alone(p)
    BY <1>3 DEF Served, Serve, Goto, TypesOK, Handled, Moved, Alone
  <2> QED
    BY <1>3, <2>1 DEF Served, StepOf
<1>4. CASE Disturbed(p)
  <2> USE DEF StepOf
  <2>1. handled' = handled /\ intended' = intended
    BY <1>4 DEF Disturbed
  <2>2. CASE Kill(p) /\ Note("killed", Saving(p))
    <3>1. Quit(p) /\ Alone(p)
      BY <2>2, ExitEnds DEF Kill, Quit, Running
    <3> QED
      BY <2>1, <2>2, <3>1
  <2>3. CASE ReadFails(p) /\ Note("failed", Saving(p))
    <3>1. Quit(p) /\ Alone(p)
      BY <2>3, ExitEnds DEF ReadFails, Quit
    <3> QED
      BY <2>1, <2>3, <3>1
  <2>4. CASE ReadEOF(p) /\ Note("eof", Saving(p))
    <3>1. Got(p, 0) /\ Alone(p)
      BY <2>4, AnsweredGot DEF ReadEOF
    <3> QED
      BY <2>1, <2>4, <3>1
  <2>5. CASE ReadCut(p) /\ Note("cut", TRUE)
    <3>1. PICK text \in {0, Garbled} : Answered(p, text)
      BY <2>5 DEF ReadCut
    <3>2. pc[p] = "served" /\ Got(p, text) /\ Alone(p)
      BY <2>5, <3>1, AnsweredGot DEF ReadCut
    <3> QED
      BY <2>1, <2>5, <3>2
  <2>6. CASE OpenConfigFails(p) /\ Note("unsaved", TRUE)
    <3>1. Skipped(p) /\ Alone(p)
      BY <2>6, SavedGoesOn DEF OpenConfigFails, Skipped, Moved
    <3> QED
      BY <2>1, <2>6, <3>1
  <2>7. CASE /\ WriteConfigFails(p)
             /\ incidents' = incidents \union {"unsaved"} \union (IF Readable THEN {"mixed"} ELSE {})
    <3>1. Spoiled(p) /\ Alone(p)
      BY <2>7, SavedGoesOn DEF WriteConfigFails, Spoiled, Moved
    <3> QED
      BY <2>1, <2>7, <3>1
  <2>8. CASE WriteTokenFails(p) /\ Note("torn", TRUE)
    <3>1. TokenSpoiled(p) /\ Alone(p)
      BY <2>8, ExitEnds DEF WriteTokenFails, TokenSpoiled
    <3> QED
      BY <2>1, <2>8, <3>1
  <2> QED
    BY <1>4, <2>2, <2>3, <2>4, <2>5, <2>6, <2>7, <2>8 DEF Disturbed
<1>5. CASE Undisturbed(p)
  <2> DEFINE Kinds == \/ Opened(p) \/ Wrote(p) \/ Prepared(p)
                      \/ Quit(p) /\ pc[p] \in {"token", "send", "keep"}
                      \/ SentOff(p) \/ (Got(p, answer[p]) /\ pc[p] = "served")
                      \/ TokenOpened(p) \/ TokenWritten(p)
  <2>1. SUFFICES Kinds /\ Alone(p)
    BY <1>5 DEF Undisturbed, StepOf
  <2>2. CASE OpenConfig(p)
    BY <2>2 DEF OpenConfig, Goto, TypesOK, Opened, Moved, Same, Alone
  <2>3. CASE WriteConfig(p)
    BY <2>3, SavedGoesOn DEF WriteConfig, Wrote, Moved
  <2>4. CASE GetTokenTail(p)
    <3>1. CASE Exit(p)
      BY <2>4, <3>1, ExitEnds DEF GetTokenTail, Quit
    <3>2. CASE Goto(p, "send") /\ UNCHANGED <<cmd, cfg, id, answer>>
      BY <2>4, <3>2 DEF GetTokenTail, Goto, TypesOK, Prepared, Moved, Same, Alone
    <3> QED
      BY <2>4, <3>1, <3>2 DEF GetTokenTail
  <2>5. CASE SendFails(p)
    BY <2>5, ExitEnds DEF SendFails, Quit
  <2>6. CASE Send(p)
    BY <2>6 DEF Send, Goto, TypesOK, SentOff, Moved, Alone
  <2>7. CASE ReadWhole(p)
    BY <2>7, AnsweredGot DEF ReadWhole
  <2>8. CASE OpenToken(p)
    BY <2>8 DEF OpenToken, Goto, TypesOK, TokenOpened, Moved, Same, Alone
  <2>9. CASE WriteToken(p)
    BY <2>9, ExitEnds DEF WriteToken, TokenWritten
  <2>10. CASE OpenTokenFails(p)
    BY <2>10, ExitEnds DEF OpenTokenFails, Quit
  <2> QED
    BY <1>5, <2>2, <2>3, <2>4, <2>5, <2>6, <2>7, <2>8, <2>9, <2>10 DEF Undisturbed
<1> QED
  BY <1>1, <1>2, <1>3, <1>4, <1>5

LEMMA TypesInit == HistoryInit => TypesOK
<1>1. <<>> \in Seq(Names)
  OBVIOUS
<1> QED
  BY <1>1, FreshTyped DEF HistoryInit, ClientInit, TypesOK, Labels, Running

LEMMA TypesStep == TypesOK /\ [HistoryNext]_historyVars => TypesOK'
<1> SUFFICES ASSUME TypesOK, [HistoryNext]_historyVars PROVE TypesOK'
  OBVIOUS
<1>1. CASE UNCHANGED historyVars
  BY <1>1 DEF historyVars, clientVars, localVars, TypesOK, Running, Saves
<1>2. CASE HistoryNext
  <2>1. PICK p \in Procs : StepOf(p) /\ Alone(p)
    BY <1>2, HistorySteps
  <2>2. DOMAIN pc' = Procs /\ DOMAIN cmd' = Procs /\ DOMAIN cfg' = Procs
        /\ DOMAIN id' = Procs /\ DOMAIN answer' = Procs
    BY <2>1 DEF Alone
  <2> DEFINE Typed(q) == /\ pc'[q] \in Labels /\ cfg'[q] \in Configs /\ id'[q] \in Nat
                         /\ pc'[q] # "idle" => cmd'[q] \in Commands
                         /\ pc'[q] \in {"track", "tracking"} => Saves(cmd'[q])
                         /\ pc'[q] \in {"record", "recording"} => cmd'[q].name = "push"
             Files == /\ rc' \in Configs \union {None, Empty, Garbled}
                      /\ intended' \in Configs /\ minted' \in Seq(Names) /\ sent' \in Nat
  <2>3. ASSUME Typed(p), Files
        PROVE  TypesOK'
    <3>1. \A q \in Procs \ {p} : Typed(q)
      BY <2>1 DEF Alone, TypesOK, Running
    <3> QED
      BY <2>2, <2>3, <3>1 DEF TypesOK, Running, Saves
  <2>4. /\ pc[p] \in Labels /\ cfg[p] \in Configs /\ id[p] \in Nat
        /\ pc[p] # "idle" => cmd[p] \in Commands
        /\ pc[p] \in {"track", "tracking"} => Saves(cmd[p])
        /\ pc[p] \in {"record", "recording"} => cmd[p].name = "push"
        /\ rc \in Configs \union {None, Empty, Garbled}
        /\ intended \in Configs /\ minted \in Seq(Names) /\ sent \in Nat
    BY DEF TypesOK, Running
  <2>5. ASSUME NEW f \in Configs PROVE [f EXCEPT !.context = id[p]] \in Configs
    BY <2>4 DEF Configs
  <2>6. intended' \in Configs
    <3>1. \/ intended' = intended \/ intended' = [intended EXCEPT !.context = id[p]]
          \/ cmd'[p] \in Commands /\ intended' = Tracked(cmd'[p], intended)
      BY <2>1 DEF StepOf, Begun
    <3> QED
      BY <2>4, <2>5, <3>1, TrackedTyped
  <2>13. Spoiled(p) => rc' \in Configs \union {None, Empty, Garbled}
    <3>1. Readable => rc \in Configs /\ Mixed(cfg[p], rc) \subseteq Configs
      BY <2>4, MixedTyped DEF Readable
    <3> QED
      BY <2>4, <3>1 DEF Spoiled
  <2>7. CASE Begun(p)
    <3>1. cfg'[p] \in Configs
      BY <2>7, LoadConfigTyped, TrackedTyped, FreshTyped DEF Begun
    <3>2. Typed(p) /\ Files
      BY <2>4, <2>6, <2>7, <3>1 DEF Begun, Labels
    <3> QED
      BY <2>3, <3>2
  <2>8. CASE Ended(p)
    <3>1. Typed(p)
      BY <2>8, FreshTyped DEF Ended, Labels
    <3>2. CASE Wrote(p) \/ Spoiled(p)
      BY <2>3, <2>4, <2>6, <2>13, <3>1, <3>2 DEF Wrote, Spoiled
    <3>3. CASE Quit(p) \/ TokenWritten(p) \/ Skipped(p) \/ TokenSpoiled(p) \/ \E text : Got(p, text)
      BY <2>3, <2>4, <2>6, <3>1, <3>3 DEF Quit, TokenWritten, Skipped, TokenSpoiled, Got
    <3> QED
      BY <2>1, <2>8, <3>2, <3>3
      DEF StepOf, Begun, Opened, Prepared, SentOff, Handled, TokenOpened, Moved, Ended
  <2>9. CASE \/ Opened(p) \/ Prepared(p) \/ TokenOpened(p)
             \/ (Wrote(p) \/ Spoiled(p) \/ Skipped(p)) /\ ~Ended(p)
    <3>1. Typed(p)
      BY <2>4, <2>9
      DEF Opened, Prepared, TokenOpened, Wrote, Spoiled, Skipped, Moved, Same, Labels
    <3>2. Files
      BY <2>4, <2>6, <2>9, <2>13 DEF Opened, Prepared, TokenOpened, Wrote, Spoiled, Skipped
    <3> QED
      BY <2>3, <3>1, <3>2
  <2>10. CASE SentOff(p)
    <3>1. Typed(p) /\ Files
      BY <2>4, <2>6, <2>10 DEF SentOff, Moved, Labels
    <3> QED
      BY <2>3, <3>1
  <2>11. CASE Handled(p)
    <3>1. Typed(p)
      BY <2>4, <2>11 DEF Handled, Moved, Labels
    <3>2. minted' \in Seq(Names)
      <4>1. cmd[p].user \in Names
        BY <2>4, <2>11 DEF Handled, Moved, Names
      <4> QED
        BY <2>4, <2>11, <4>1, AppendProperties DEF Handled
    <3> QED
      BY <2>3, <2>4, <2>6, <2>11, <3>1, <3>2 DEF Handled
  <2>12. ASSUME NEW text, Got(p, text), ~Ended(p)
         PROVE  TypesOK'
    <3>1. Typed(p)
      <4>1. CASE cmd[p].name = "push"
        BY <2>4, <2>5, <2>12, <4>1 DEF Got, Labels
      <4>2. CASE cmd[p].name # "push"
        BY <2>4, <2>12, <4>2 DEF Got, Labels
      <4> QED
        BY <4>1, <4>2
    <3> QED
      BY <2>3, <2>4, <2>6, <2>12, <3>1 DEF Got
  <2> QED
    BY <2>1, <2>7, <2>8, <2>9, <2>10, <2>11, <2>12 DEF StepOf, Quit, TokenWritten, TokenSpoiled
<1> QED
  BY <1>1, <1>2

LEMMA IncidentsStay ==
  ASSUME NEW p \in Procs, StepOf(p)
  PROVE  incidents \subseteq incidents'
BY DEF StepOf, Note

-----------------------------------------------------------------------------
(* The token.                                                              *)

(* The file is never missing again once a process has truncated it, so a   *)
(* process that writes finds nothing or a whole token there; and what it   *)
(* writes is an answer it read whole.                                      *)
TokenInv ==
    \/ {"cut", "torn"} \intersect incidents # {}
    \/ /\ tokenFile \in {None, Empty} \union DOMAIN minted
       /\ \A p \in Procs :
             /\ pc[p] = "keeping" => tokenFile \in {Empty} \union DOMAIN minted
             /\ pc[p] = "served" => answer[p] \in {0} \union DOMAIN minted
             /\ pc[p] \in {"keep", "keeping"} => answer[p] \in DOMAIN minted

LEMMA TokenStep == TypesOK /\ TokenInv /\ [HistoryNext]_historyVars => TokenInv'
<1> SUFFICES ASSUME TypesOK, TokenInv, [HistoryNext]_historyVars PROVE TokenInv'
  OBVIOUS
<1>1. CASE UNCHANGED historyVars
  BY <1>1 DEF historyVars, clientVars, localVars, TokenInv
<1>2. CASE HistoryNext
  <2>1. PICK p \in Procs : StepOf(p) /\ Alone(p)
    BY <1>2, HistorySteps
  <2>2. CASE {"cut", "torn"} \intersect incidents' # {}
    BY <2>2 DEF TokenInv
  <2>3. CASE {"cut", "torn"} \intersect incidents' = {}
    <3> DEFINE Good(q) ==
                 /\ pc'[q] = "keeping" => tokenFile' \in {Empty} \union DOMAIN minted'
                 /\ pc'[q] = "served" => answer'[q] \in {0} \union DOMAIN minted'
                 /\ pc'[q] \in {"keep", "keeping"} => answer'[q] \in DOMAIN minted'
    <3>1. /\ tokenFile \in {None, Empty} \union DOMAIN minted
          /\ \A q \in Procs :
                /\ pc[q] = "keeping" => tokenFile \in {Empty} \union DOMAIN minted
                /\ pc[q] = "served" => answer[q] \in {0} \union DOMAIN minted
                /\ pc[q] \in {"keep", "keeping"} => answer[q] \in DOMAIN minted
      BY <2>1, <2>3, IncidentsStay DEF TokenInv
    <3>2. ASSUME DOMAIN minted \subseteq DOMAIN minted',
                 tokenFile' \in {None, Empty} \union DOMAIN minted',
                 tokenFile \in {Empty} \union DOMAIN minted
                   => tokenFile' \in {Empty} \union DOMAIN minted',
                 Good(p)
          PROVE  TokenInv'
      <4>1. ASSUME NEW q \in Procs, q # p PROVE Good(q)
        BY <2>1, <3>1, <3>2, <4>1 DEF Alone
      <4> QED
        BY <3>2, <4>1 DEF TokenInv
    <3>3. CASE Handled(p)
      <4>1. minted \in Seq(Names) /\ cmd[p] \in Commands
        BY <3>3 DEF TypesOK, Handled, Moved, Running
      <4>2. CASE answer'[p] = 0 /\ minted' = minted
        BY <3>1, <3>2, <3>3, <4>2 DEF Handled, Moved
      <4>3. CASE minted' = Append(minted, cmd[p].user) /\ answer'[p] = Len(minted')
        <5>1. cmd[p].user \in Names
          BY <4>1 DEF Names
        <5>2. /\ Len(minted) \in Nat /\ Len(minted') = Len(minted) + 1
              /\ DOMAIN minted = 1 .. Len(minted) /\ DOMAIN minted' = 1 .. Len(minted')
          BY <4>1, <4>3, <5>1, AppendProperties, LenProperties
        <5>3. DOMAIN minted \subseteq DOMAIN minted' /\ answer'[p] \in DOMAIN minted'
          BY <4>3, <5>2
        <5> QED
          BY <3>1, <3>2, <3>3, <5>3 DEF Handled, Moved
      <4> QED
        BY <3>3, <4>2, <4>3 DEF Handled
    <3>4. CASE TokenOpened(p)
      BY <3>1, <3>2, <3>4 DEF TokenOpened, Moved, Same
    <3>5. CASE TokenWritten(p)
      <4>1. tokenFile' \in DOMAIN minted
        BY <3>1, <3>5 DEF TokenWritten
      <4> QED
        BY <3>2, <3>5, <4>1 DEF TokenWritten, Ended
    <3>6. ASSUME NEW text, Got(p, text), text # 0 => text \in DOMAIN minted
          PROVE  TokenInv'
      <4>1. Good(p)
        BY <3>6 DEF Got, Ended
      <4> QED
        BY <3>1, <3>2, <3>6, <4>1 DEF Got
    <3>7. Got(p, answer[p]) /\ pc[p] = "served" => TokenInv'
      BY <3>1, <3>6
    <3>8. Got(p, 0) => TokenInv'
      BY <3>6
    <3>9. ~Note("cut", TRUE) /\ ~Note("torn", TRUE)
      BY <2>3 DEF Note
    <3>10. CASE \/ Begun(p) \/ Quit(p) \/ Opened(p) \/ Wrote(p) \/ Prepared(p) \/ SentOff(p)
                \/ Skipped(p) \/ Spoiled(p)
      <4>1. UNCHANGED <<tokenFile, minted>> /\ pc'[p] \notin {"served", "keep", "keeping"}
        BY <3>10
        DEF Begun, Quit, Ended, Opened, Wrote, Prepared, SentOff, Skipped, Spoiled, Moved
      <4> QED
        BY <3>1, <3>2, <4>1
    <3> QED
      BY <2>1, <3>3, <3>4, <3>5, <3>7, <3>8, <3>9, <3>10 DEF StepOf
  <2> QED
    BY <2>2, <2>3
<1> QED
  BY <1>1, <1>2

(* .smp-token has a token a server minted, or nothing, whatever processes  *)
(* write it at once, are killed between truncating and writing it or       *)
(* cannot open it; only an answer that came in two segments, or a write    *)
(* that failed on the way, leaves another.                                 *)
THEOREM TokensAreMinted == HistorySpec => []KeptTokenIsMinted
<1>1. HistoryInit => TokenInv
  BY DEF HistoryInit, ClientInit, TokenInv
<1>2. TokenInv => KeptTokenIsMinted
  BY DEF TokenInv, KeptTokenIsMinted
<1> QED
  BY <1>1, <1>2, TypesInit, TypesStep, TokenStep, PTL DEF HistorySpec

-----------------------------------------------------------------------------
(* The configuration.                                                      *)

(* The server and the protocol of a configuration go together.             *)
Genuine(f) ==
    \/ f.server = None /\ f.protocol = "smp"
    \/ \E c \in Commands :
          c.upstream /\ f.server = c.server /\ f.protocol = SelectProtocol(c.flags)

(* Every copy is as real as the file, and what push notes was handled once *)
(* its answer is there to be read.  A file that a failed write left with   *)
(* parts of two texts is read into the copies, so nothing is said then.    *)
RealInv ==
    \/ "mixed" \in incidents
    \/ /\ \A p \in Procs : Genuine(cfg[p])
       /\ Readable => Genuine(rc)
       /\ \/ "eof" \in incidents
          \/ /\ \A p \in Procs : cfg[p].context \in {0} \union handled
             /\ Readable => rc.context \in {0} \union handled
             /\ \A p \in Procs : pc[p] = "served" /\ cmd[p].name = "push" => id[p] \in handled

LEMMA FreshReal == Genuine(Fresh) /\ Fresh.context = 0
BY DEF Genuine, Fresh

LEMMA TrackedReal ==
  ASSUME NEW c \in Commands, NEW f \in Configs, Genuine(f)
  PROVE  Genuine(Tracked(c, f)) /\ Tracked(c, f).context = f.context
<1>1. CASE c.upstream /\ c.server # None
  <2> DEFINE t == Tracked(c, f)
  <2>1. t.server = c.server /\ t.protocol = SelectProtocol(c.flags) /\ t.context = f.context
    BY <1>1 DEF Tracked, Configs
  <2> HIDE DEF t
  <2>2. Genuine(t)
    BY <1>1, <2>1 DEF Genuine
  <2> QED
    BY <2>1, <2>2 DEF t
<1>2. CASE ~(c.upstream /\ c.server # None)
  BY <1>2 DEF Tracked
<1> QED
  BY <1>1, <1>2

LEMMA ContextReal ==
  ASSUME NEW f \in Configs, Genuine(f), NEW n
  PROVE  Genuine([f EXCEPT !.context = n]) /\ [f EXCEPT !.context = n].context = n
<1> DEFINE t == [f EXCEPT !.context = n]
<1>1. t.server = f.server /\ t.protocol = f.protocol /\ t.context = n
  BY DEF Configs
<1> HIDE DEF t
<1>2. Genuine(t)
  BY <1>1 DEF Genuine
<1> QED
  BY <1>1, <1>2 DEF t

LEMMA RealStep == TypesOK /\ RealInv /\ [HistoryNext]_historyVars => RealInv'
<1> SUFFICES ASSUME TypesOK, RealInv, [HistoryNext]_historyVars PROVE RealInv'
  OBVIOUS
<1>1. CASE UNCHANGED historyVars
  BY <1>1 DEF historyVars, clientVars, localVars, RealInv, Readable
<1>2. CASE HistoryNext
  <2>1. PICK p \in Procs : StepOf(p) /\ Alone(p)
    BY <1>2, HistorySteps
  <2> DEFINE Sure == "eof" \notin incidents'
             Known(f) == Sure => f.context \in {0} \union handled'
             Answered1 == Sure /\ pc'[p] = "served" /\ cmd'[p].name = "push"
                            => id'[p] \in handled'
  <2>2. handled \subseteq handled' /\ incidents \subseteq incidents'
    BY <2>1, IncidentsStay DEF StepOf
  <2>15. CASE "mixed" \in incidents'
    BY <2>15 DEF RealInv
  <2> SUFFICES ASSUME "mixed" \notin incidents' PROVE RealInv'
    BY <2>15
  <2>3. /\ \A q \in Procs :
              /\ cfg[q] \in Configs /\ Genuine(cfg[q]) /\ Known(cfg[q])
              /\ Sure /\ pc[q] = "served" /\ cmd[q].name = "push" => id[q] \in handled
        /\ rc \notin {None, Empty, Garbled} => Genuine(rc) /\ Known(rc)
    BY <2>2 DEF RealInv, Readable, TypesOK
  <2>4. ASSUME Genuine(cfg'[p]), Known(cfg'[p]), Answered1,
               rc' \notin {None, Empty, Garbled} => Genuine(rc') /\ Known(rc')
        PROVE  RealInv'
    <3>1. \A q \in Procs \ {p} : cfg'[q] = cfg[q] /\ pc'[q] = pc[q] /\ cmd'[q] = cmd[q]
                                 /\ id'[q] = id[q]
      BY <2>1 DEF Alone
    <3>2. \A q \in Procs : Genuine(cfg'[q]) /\ Known(cfg'[q])
      BY <2>3, <2>4, <3>1
    <3>3. \A q \in Procs : Sure /\ pc'[q] = "served" /\ cmd'[q].name = "push"
                               => id'[q] \in handled'
      BY <2>2, <2>3, <2>4, <3>1
    <3> QED
      BY <2>4, <3>2, <3>3 DEF RealInv, Readable, Genuine
  <2>5. Genuine(LoadConfig) /\ Known(LoadConfig) /\ LoadConfig \in Configs
    BY <2>3, FreshReal, LoadConfigTyped DEF LoadConfig, Readable
  <2>6. Genuine(Fresh) /\ Known(Fresh)
    BY FreshReal
  <2> HIDE DEF Sure
  <2>7. CASE Begun(p)
    <3>1. /\ cmd'[p] \in Commands
          /\ \E f \in {LoadConfig, Fresh} : cfg'[p] \in {f, Tracked(cmd'[p], f)}
      BY <2>7 DEF Begun
    <3>2. Genuine(cfg'[p]) /\ Known(cfg'[p])
      BY <2>5, <2>6, <3>1, TrackedReal, FreshTyped
    <3> QED
      BY <2>3, <2>4, <2>7, <3>2 DEF Begun
  <2>8. CASE Quit(p) \/ TokenWritten(p) \/ TokenSpoiled(p)
    BY <2>3, <2>4, <2>6, <2>8 DEF Quit, TokenWritten, TokenSpoiled, Ended
  <2>9. CASE Opened(p) \/ Prepared(p) \/ SentOff(p) \/ TokenOpened(p)
    BY <2>3, <2>4, <2>9 DEF Opened, Prepared, SentOff, TokenOpened, Moved, Same
  <2>10. CASE Wrote(p)
    <3>1. rc' = cfg[p] \/ rc' = Garbled
      BY <2>10 DEF Wrote
    <3>2. rc' \notin {None, Empty, Garbled} => Genuine(rc') /\ Known(rc')
      BY <2>3, <3>1
    <3> QED
      BY <2>3, <2>4, <2>6, <2>10, <3>2 DEF Wrote, Moved, Same, Ended
  <2>16. ASSUME \/ Skipped(p)
                \/ /\ Spoiled(p)
                   /\ incidents' = incidents \union {"unsaved"}
                                     \union (IF Readable THEN {"mixed"} ELSE {})
         PROVE  RealInv'
    <3>1. rc' = rc \/ rc' = Garbled
      <4>1. Spoiled(p) => ~Readable
        BY <2>16 DEF Skipped, Spoiled, Moved, Ended
      <4> QED
        BY <2>16, <4>1 DEF Skipped, Spoiled
    <3>2. rc' \notin {None, Empty, Garbled} => Genuine(rc') /\ Known(rc')
      BY <2>3, <3>1
    <3> QED
      BY <2>3, <2>4, <2>6, <2>16, <3>2 DEF Skipped, Spoiled, Moved, Same, Ended
  <2>11. CASE Handled(p)
    <3>1. cmd[p].name = "push" => handled' = handled \union {id[p]}
      BY <2>1, <2>11
      DEF StepOf, Handled, Moved, Begun, Quit, Got, Opened, Wrote, Prepared, SentOff, Skipped,
          Spoiled, TokenOpened, TokenWritten, TokenSpoiled, Ended
    <3> QED
      BY <2>3, <2>4, <2>11, <3>1 DEF Handled, Moved
  <2>12. ASSUME NEW text, Got(p, text),
                Sure /\ cmd[p].name = "push" => id[p] \in handled'
         PROVE  RealInv'
    <3>1. CASE cmd[p].name = "push"
      <4>1. cfg'[p] = [cfg[p] EXCEPT !.context = id[p]]
        BY <2>12, <3>1 DEF Got
      <4>2. Genuine(cfg'[p]) /\ cfg'[p].context = id[p]
        BY <2>3, <4>1, ContextReal
      <4> QED
        BY <2>3, <2>4, <2>12, <3>1, <4>2 DEF Got
    <3>2. CASE cmd[p].name # "push"
      BY <2>3, <2>4, <2>6, <2>12, <3>2 DEF Got, Ended
    <3> QED
      BY <3>1, <3>2
  <2>13. ASSUME NEW text, Got(p, text), pc[p] = "served"
         PROVE  RealInv'
    BY <2>2, <2>3, <2>12, <2>13
  <2>14. CASE Got(p, 0) /\ Note("eof", Saving(p))
    <3>1. Sure => cmd[p].name # "push"
      BY <2>14 DEF Sure, Note, Saving, Saves, Running, Got
    <3> QED
      BY <2>12, <2>14, <3>1
  <2> QED
    BY <2>1, <2>7, <2>8, <2>9, <2>10, <2>11, <2>13, <2>14, <2>16 DEF StepOf
<1> QED
  BY <1>1, <1>2

(* A readable .smprc has a server with the protocol that was chosen for it *)
(* and names a push the server handled, whatever processes overlapped or   *)
(* were killed; a connection closed instead of an answer is the exception, *)
(* and a write that failed on top of another process's text.               *)
THEOREM ConfigIsReal == HistorySpec => []SavedConfigIsReal
<1>1. HistoryInit => RealInv
  BY FreshReal DEF HistoryInit, ClientInit, RealInv, Readable
<1>2. TypesOK /\ RealInv => SavedConfigIsReal
  BY DEF RealInv, Genuine, SavedConfigIsReal
<1> QED
  BY <1>1, <1>2, TypesInit, TypesStep, RealStep, PTL DEF HistorySpec

-----------------------------------------------------------------------------
(* Commands one after another.                                             *)

Troubled == incidents \intersect Interfered # {}

(* Where the process that writes .smprc is, and what that says of its copy *)
(* and of the file.                                                        *)
OnTrack(p) ==
    /\ pc[p] \in {"track", "tracking", "record", "recording"} => cfg[p] = intended
    /\ pc[p] \in {"tracking", "recording"} => rc = Empty
    /\ pc[p] \in {"token", "send", "sent"} => LoadConfig = intended
    /\ pc[p] \in {"token", "send", "sent"} /\ cmd[p].name = "push" => cfg[p] = intended
    /\ pc[p] = "served" /\ cmd[p].name = "push"
         => [cfg[p] EXCEPT !.context = id[p]] = intended
    /\ pc[p] = "served" /\ cmd[p].name # "push" => LoadConfig = intended
    /\ pc[p] \in {"keep", "keeping"} => LoadConfig = intended

SerialInv ==
    \/ Troubled
    \/ /\ \A p, q \in Procs : Saving(p) /\ Saving(q) => p = q
       /\ (\E p \in Procs : Saving(p)) \/ LoadConfig = intended
       /\ \A p \in Procs : Saving(p) => OnTrack(p)

(* A push that was handled, and nothing but that, is a push to come.       *)
LEMMA HandledPush ==
  ASSUME NEW p \in Procs, StepOf(p), Handled(p)
  PROVE  IF cmd[p].name = "push" THEN intended' = [intended EXCEPT !.context = id[p]]
         ELSE intended' = intended
BY DEF StepOf, Handled, Moved, Begun, Quit, Got, Opened, Wrote, Prepared, SentOff, Skipped, Spoiled,
       TokenOpened, TokenWritten, TokenSpoiled, Ended

(* The file and what it should be stay; another process than p, if any,    *)
(* is the one that writes .smprc.                                          *)
LEMMA OthersOnTrack ==
  ASSUME SerialInv, ~Troubled, NEW p \in Procs, Alone(p), ~Saving(p), ~Saving(p)',
         UNCHANGED <<rc, intended>>
  PROVE  SerialInv'
<1>1. \A q \in Procs \ {p} :
         pc'[q] = pc[q] /\ cmd'[q] = cmd[q] /\ cfg'[q] = cfg[q] /\ id'[q] = id[q]
  BY DEF Alone
<1>2. LoadConfig' = LoadConfig
  BY DEF LoadConfig, Readable
<1>3. \A q \in Procs : Saving(q)' = Saving(q)
  BY <1>1 DEF Saving, Running, Saves
<1>4. \A q \in Procs \ {p} : OnTrack(q)' = OnTrack(q)
  BY <1>1, <1>2 DEF OnTrack
<1> QED
  BY <1>2, <1>3, <1>4 DEF SerialInv

(* The one process that writes .smprc takes a step and goes on.            *)
LEMMA WriterOnTrack ==
  ASSUME SerialInv, ~Troubled, NEW p \in Procs, Alone(p), Saving(p)', OnTrack(p)',
         Saving(p) \/ ~ \E q \in Procs : Saving(q)
  PROVE  SerialInv'
<1>1. \A q \in Procs \ {p} : pc'[q] = pc[q] /\ cmd'[q] = cmd[q]
  BY DEF Alone
<1>2. \A q \in Procs \ {p} : ~Saving(q)'
  BY <1>1 DEF Saving, Running, Saves, SerialInv
<1> QED
  BY <1>2 DEF SerialInv

(* It is done.                                                             *)
LEMMA WriterDone ==
  ASSUME SerialInv, ~Troubled, NEW p \in Procs, Alone(p), Saving(p), ~Saving(p)',
         LoadConfig' = intended'
  PROVE  SerialInv'
<1>1. \A q \in Procs \ {p} : pc'[q] = pc[q] /\ cmd'[q] = cmd[q]
  BY DEF Alone
<1>2. \A q \in Procs : ~Saving(q)'
  BY <1>1 DEF Saving, Running, Saves, SerialInv
<1> QED
  BY <1>2 DEF SerialInv

LEMMA SerialStep == TypesOK /\ SerialInv /\ [HistoryNext]_historyVars => SerialInv'
<1> SUFFICES ASSUME TypesOK, SerialInv, [HistoryNext]_historyVars PROVE SerialInv'
  OBVIOUS
<1>1. CASE UNCHANGED historyVars
  BY <1>1 DEF historyVars, clientVars, localVars, SerialInv, Troubled, Saving, Running, Saves,
              OnTrack, LoadConfig, Readable
<1>2. CASE HistoryNext
  <2>1. PICK p \in Procs : StepOf(p) /\ Alone(p)
    BY <1>2, HistorySteps
  <2>2. CASE Troubled'
    BY <2>2 DEF SerialInv
  <2> SUFFICES ASSUME ~Troubled' PROVE SerialInv'
    BY <2>2
  <2>3. ~Troubled
    BY <2>1, IncidentsStay DEF Troubled
  <2>4. /\ ~Note("killed", TRUE) /\ ~Note("failed", TRUE) /\ ~Note("eof", TRUE)
        /\ {"overlap", "unread", "unsaved"} \intersect incidents' = {}
    BY DEF Note, Troubled, Interfered
  <2>5. (\E q \in Procs : Saving(q)) \/ LoadConfig = intended
    BY <2>3 DEF SerialInv
  <2>6. Saving(p) => OnTrack(p)
    BY <2>3 DEF SerialInv
  <2>7. /\ Saving(p) <=> pc[p] # "idle" /\ Saves(cmd[p])
        /\ Saving(p)' <=> pc'[p] # "idle" /\ Saves(cmd'[p])
    BY DEF Saving, Running, Saves
  <2>8. CASE Begun(p)
    <3>1. ~Saving(p)
      BY <2>7, <2>8 DEF Begun
    <3>2. CASE ~Saves(cmd'[p])
      <4>1. UNCHANGED <<rc, intended>>
        BY <2>1, <2>8, <3>2
        DEF StepOf, Begun, Handled, Quit, Got, Opened, Wrote, Prepared, SentOff, Skipped,
            Spoiled, TokenOpened, TokenWritten, TokenSpoiled, Moved, Ended
      <4> QED
        BY <2>1, <2>3, <2>7, <3>1, <3>2, <4>1, OthersOnTrack
    <3>3. CASE Saves(cmd'[p])
      <4>1. /\ cfg'[p] = Tracked(cmd'[p], LoadConfig) /\ ~ \E q \in Procs : Saving(q)
            /\ intended' = Tracked(cmd'[p], intended)
        BY <2>1, <2>4, <2>8, <3>3
        DEF StepOf, Begun, Handled, Quit, Got, Opened, Wrote, Prepared, SentOff, Skipped,
            Spoiled, TokenOpened, TokenWritten, TokenSpoiled, Moved, Ended
      <4>2. ~ \E q \in Procs : Saving(q)
        BY <4>1
      <4>3. LoadConfig = intended /\ LoadConfig' = LoadConfig /\ cfg'[p] = intended'
        BY <2>5, <2>8, <3>3, <4>1, <4>2 DEF Begun, LoadConfig, Readable
      <4>4. pc'[p] = "token" => intended' = intended
        BY <2>8, <3>3, <4>1 DEF Begun, Tracked
      <4>5. OnTrack(p)'
        BY <2>8, <4>3, <4>4 DEF OnTrack, Begun
      <4> QED
        BY <2>1, <2>3, <2>7, <2>8, <3>3, <4>2, <4>5, WriterOnTrack DEF Begun
    <3> QED
      BY <3>2, <3>3
  <2>9. ASSUME Quit(p),
               \/ Note("killed", Saving(p)) \/ Note("failed", Saving(p))
               \/ pc[p] \in {"token", "send", "keep"}
        PROVE  SerialInv'
    <3>1. ~Saving(p)' /\ LoadConfig' = LoadConfig
      BY <2>7, <2>9 DEF Quit, Ended, LoadConfig, Readable
    <3>2. UNCHANGED <<rc, intended>>
      BY <2>1, <2>9 DEF StepOf, Quit, Ended, Begun, Handled, Moved
    <3>3. ~Saving(p) => SerialInv'
      BY <2>1, <2>3, <3>1, <3>2, OthersOnTrack
    <3>4. CASE Saving(p) /\ pc[p] \in {"token", "send", "keep"}
      <4>1. LoadConfig' = intended'
        BY <2>6, <3>1, <3>2, <3>4 DEF OnTrack
      <4> QED
        BY <2>1, <2>3, <3>1, <3>4, <4>1, WriterDone
    <3>5. CASE Note("killed", Saving(p)) \/ Note("failed", Saving(p))
      BY <2>4, <3>3, <3>5 DEF Note
    <3> QED
      BY <2>9, <3>3, <3>4, <3>5
  <2>10. ASSUME NEW text, Got(p, text), (pc[p] = "served") \/ Note("eof", Saving(p))
         PROVE  SerialInv'
    <3>1. UNCHANGED <<rc, intended>> /\ LoadConfig' = LoadConfig
      BY <2>1, <2>10 DEF StepOf, Got, Begun, Handled, Moved, LoadConfig, Readable
    <3>2. CASE ~Saving(p)
      <4>1. ~Saving(p)'
        BY <2>7, <2>10, <3>2 DEF Got, Ended
      <4> QED
        BY <2>1, <2>3, <3>1, <3>2, <4>1, OthersOnTrack
    <3>3. CASE Saving(p) /\ cmd[p].name = "push"
      <4>1. pc[p] = "served"
        BY <2>4, <2>10, <3>3 DEF Note
      <4>2. /\ pc'[p] = "record" /\ cmd'[p] = cmd[p]
            /\ cfg'[p] = [cfg[p] EXCEPT !.context = id[p]]
        BY <2>10, <3>3 DEF Got
      <4>3. OnTrack(p)'
        BY <2>6, <3>1, <3>3, <4>1, <4>2 DEF OnTrack
      <4>4. Saving(p)'
        BY <2>7, <3>3, <4>2
      <4> QED
        BY <2>1, <2>3, <3>3, <4>3, <4>4, WriterOnTrack
    <3>4. CASE Saving(p) /\ cmd[p].name # "push"
      <4>1. pc[p] = "served"
        BY <2>4, <2>10, <3>4 DEF Note
      <4>2. LoadConfig' = intended'
        BY <2>6, <3>1, <3>4, <4>1 DEF OnTrack
      <4>3. CASE Saving(p)'
        <5>1. pc'[p] = "keep"
          BY <2>7, <2>10, <3>4, <4>3 DEF Got, Ended
        <5>2. OnTrack(p)'
          BY <4>2, <5>1 DEF OnTrack
        <5> QED
          BY <2>1, <2>3, <3>4, <4>3, <5>2, WriterOnTrack
      <4>4. CASE ~Saving(p)'
        BY <2>1, <2>3, <3>4, <4>2, <4>4, WriterDone
      <4> QED
        BY <4>3, <4>4
    <3> QED
      BY <3>2, <3>3, <3>4
  <2>11. CASE Handled(p)
    <3>1. rc' = rc /\ LoadConfig' = LoadConfig /\ cmd'[p] = cmd[p]
      BY <2>11 DEF Handled, Moved, LoadConfig, Readable
    <3>2. CASE ~Saving(p)
      <4>1. cmd[p].name # "push" /\ ~Saving(p)'
        BY <2>7, <2>11, <3>1, <3>2 DEF Handled, Moved, Saves
      <4>2. intended' = intended
        BY <2>1, <2>11, <4>1, HandledPush
      <4> QED
        BY <2>1, <2>3, <3>1, <3>2, <4>1, <4>2, OthersOnTrack
    <3>3. CASE Saving(p)
      <4>1. Saving(p)' /\ pc'[p] = "served" /\ cfg'[p] = cfg[p] /\ id'[p] = id[p]
        BY <2>7, <2>11, <3>1, <3>3 DEF Handled, Moved
      <4>2. LoadConfig = intended /\ (cmd[p].name = "push" => cfg[p] = intended)
        BY <2>6, <2>11, <3>3 DEF OnTrack, Handled, Moved
      <4>3. IF cmd[p].name = "push" THEN intended' = [intended EXCEPT !.context = id[p]]
            ELSE intended' = intended
        BY <2>1, <2>11, HandledPush
      <4>4. OnTrack(p)'
        BY <3>1, <4>1, <4>2, <4>3 DEF OnTrack
      <4> QED
        BY <2>1, <2>3, <3>3, <4>1, <4>4, WriterOnTrack
    <3> QED
      BY <3>2, <3>3
  <2>12. CASE Prepared(p) \/ SentOff(p) \/ TokenOpened(p)
    <3>1. /\ UNCHANGED <<rc, intended>> /\ LoadConfig' = LoadConfig
          /\ cmd'[p] = cmd[p] /\ cfg'[p] = cfg[p] /\ pc[p] # "idle" /\ pc'[p] # "idle"
      BY <2>1, <2>12
      DEF StepOf, Prepared, SentOff, TokenOpened, Moved, Same, Begun, Handled, LoadConfig, Readable
    <3>2. CASE ~Saving(p)
      BY <2>1, <2>3, <2>7, <3>1, <3>2, OthersOnTrack
    <3>3. CASE Saving(p)
      <4>1. OnTrack(p)'
        BY <2>6, <2>12, <3>1, <3>3 DEF OnTrack, Prepared, SentOff, TokenOpened, Moved
      <4> QED
        BY <2>1, <2>3, <2>7, <3>1, <3>3, <4>1, WriterOnTrack
    <3> QED
      BY <3>2, <3>3
  <2>13. CASE TokenWritten(p) \/ TokenSpoiled(p)
    <3>1. UNCHANGED <<rc, intended>> /\ LoadConfig' = LoadConfig /\ ~Saving(p)'
      BY <2>1, <2>7, <2>13
      DEF StepOf, TokenWritten, TokenSpoiled, Ended, Moved, Begun, Handled, LoadConfig, Readable
    <3>2. CASE ~Saving(p)
      BY <2>1, <2>3, <3>1, <3>2, OthersOnTrack
    <3>3. CASE Saving(p)
      <4>1. LoadConfig' = intended'
        BY <2>6, <2>13, <3>1, <3>3 DEF OnTrack, TokenWritten, TokenSpoiled
      <4> QED
        BY <2>1, <2>3, <3>1, <3>3, <4>1, WriterDone
    <3> QED
      BY <3>2, <3>3
  <2>14. CASE Opened(p)
    <3>1. /\ intended' = intended /\ cmd'[p] = cmd[p] /\ cfg'[p] = cfg[p] /\ rc' = Empty
          /\ \/ pc[p] = "track" /\ pc'[p] = "tracking"
             \/ pc[p] = "record" /\ pc'[p] = "recording"
      BY <2>1, <2>14 DEF StepOf, Opened, Moved, Same, Begun, Handled
    <3>2. Saving(p) /\ Saving(p)'
      BY <2>7, <3>1 DEF TypesOK, Saves
    <3>3. OnTrack(p)'
      BY <2>6, <3>1, <3>2 DEF OnTrack
    <3> QED
      BY <2>1, <2>3, <3>2, <3>3, WriterOnTrack
  <2>15. CASE Wrote(p)
    <3>1. Saving(p)
      BY <2>7, <2>15 DEF Wrote, Moved, TypesOK, Saves
    <3>2. rc = Empty /\ cfg[p] = intended
      BY <2>6, <2>15, <3>1 DEF OnTrack, Wrote, Moved
    <3>3. rc' = cfg[p] /\ intended' = intended
      BY <2>1, <2>15, <3>2 DEF Wrote, StepOf, Begun, Handled, Moved
    <3>4. LoadConfig' = intended'
      BY <3>2, <3>3, ClientAssumption DEF LoadConfig, Readable, TypesOK
    <3>5. CASE pc[p] = "tracking" /\ pc'[p] = "token" /\ cmd'[p] = cmd[p] /\ cfg'[p] = cfg[p]
      <4>1. OnTrack(p)' /\ Saving(p)'
        BY <2>7, <3>1, <3>2, <3>3, <3>4, <3>5 DEF OnTrack
      <4> QED
        BY <2>1, <2>3, <3>1, <4>1, WriterOnTrack
    <3>6. CASE pc[p] = "recording" /\ pc'[p] = "idle"
      BY <2>1, <2>3, <2>7, <3>1, <3>4, <3>6, WriterDone
    <3> QED
      BY <2>15, <3>5, <3>6 DEF Wrote, Moved, Same, Ended
  <2>16. /\ Note("killed", Saving(p)) \/ Note("failed", Saving(p)) \/ pc[p] \in {"token", "send", "keep"}
            => (Quit(p) => SerialInv')
         /\ Got(p, 0) /\ Note("eof", Saving(p)) => SerialInv'
         /\ \A text : Got(p, text) /\ pc[p] = "served" => SerialInv'
         /\ "unsaved" \notin incidents' /\ ~Note("unsaved", TRUE)
    BY <2>4, <2>9, <2>10 DEF Note
  <2> QED
    BY <2>1, <2>8, <2>11, <2>12, <2>13, <2>14, <2>15, <2>16 DEF StepOf
<1> QED
  BY <1>1, <1>2

(* Commands that write .smprc one after another, with nothing in between   *)
(* going wrong - none of them killed, or unable to read or save the file,  *)
(* no answer lost - leave in it what running them that way should leave,   *)
(* whatever commands that only read it ran meanwhile.                      *)
THEOREM SerialConfig == HistorySpec => []ConfigIsSerial
<1>1. HistoryInit => SerialInv
  BY DEF HistoryInit, ClientInit, SerialInv, Saving, Running, LoadConfig, Readable
<1>2. SerialInv => ConfigIsSerial
  BY DEF SerialInv, Troubled, ConfigIsSerial
<1> QED
  BY <1>1, <1>2, TypesInit, TypesStep, SerialStep, PTL DEF HistorySpec

=============================================================================
