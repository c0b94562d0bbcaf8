---------------------------- MODULE ServerProofs ----------------------------
(***************************************************************************)
(* The wait group counts what runs, so that Stop returns only when nothing *)
(* runs, and messages are handled in order and, for a client that waits,   *)
(* without loss, for any finite number of connections and any lengths.     *)
(***************************************************************************)
EXTENDS Server, FiniteSetTheorems, TLAPS

(* The goroutines as far as the wait group is concerned.                   *)
RunTypes ==
    /\ main \in {"serving", "done closed", "waiting", "stopped", "panicked"}
    /\ accepting \in BOOLEAN
    /\ cleaner \in {"waiting", "sweeping", "returned"}
    /\ conn \in [Conns -> ConnStates]

Counted == wg = Loops + Cardinality(Served)

(* StoppedIsQuiet is not inductive by itself: that wg is zero says that    *)
(* nothing runs only because wg counts what runs.                          *)
QuietInv == RunTypes /\ Counted /\ StoppedIsQuiet

-----------------------------------------------------------------------------

LEMMA ServedFinite ==
    /\ IsFiniteSet(Served) /\ Cardinality(Served) \in Nat
    /\ Cardinality(Served) = 0 <=> Served = {}
BY ServerAssumption, FS_Subset, FS_CardinalityType, FS_EmptySet DEF Served

LEMMA LoopsCount ==
  ASSUME RunTypes
  PROVE  /\ Loops \in Nat
         /\ Loops = 0 <=> ~accepting /\ cleaner = "returned"
<1> DEFINE a == IF accepting THEN 1 ELSE 0
           d == IF cleaner # "returned" THEN 1 ELSE 0
<1>1. a \in {0, 1} /\ (a = 0 <=> ~accepting)
  OBVIOUS
<1>2. d \in {0, 1} /\ (d = 0 <=> cleaner = "returned")
  OBVIOUS
<1>3. Loops = a + d
  BY DEF Loops
<1> HIDE DEF a, d
<1>4. Loops \in Nat /\ (Loops = 0 <=> a = 0 /\ d = 0)
  BY <1>1, <1>2, <1>3
<1> QED
  BY <1>1, <1>2, <1>4, Zenon

LEMMA QuietInit == ServerInit => QuietInv
<1> SUFFICES ASSUME ServerInit PROVE QuietInv
  OBVIOUS
<1>1. Served = {} /\ Cardinality(Served) = 0
  BY FS_EmptySet DEF ServerInit, Served
<1> QED
  BY <1>1 DEF ServerInit, QuietInv, RunTypes, ConnStates, Counted, Loops, StoppedIsQuiet

(* A step that starts and ends no goroutine, and does not end Stop.        *)
LEMMA NothingRunsOrEnds ==
  ASSUME QuietInv, RunTypes', Served' = Served, wg' = wg, accepting' = accepting,
         (cleaner' = "returned") <=> (cleaner = "returned"),
         main' = "stopped" => main = "stopped"
  PROVE  QuietInv'
<1>1. Loops' = Loops
  BY DEF Loops
<1>2. Counted'
  BY <1>1 DEF QuietInv, Counted
<1>3. StoppedIsQuiet'
  BY DEF QuietInv, StoppedIsQuiet
<1> QED
  BY <1>2, <1>3 DEF QuietInv

(* A goroutine for a connection is started, which takes the accept loop.   *)
LEMMA AcceptPreserves ==
  ASSUME QuietInv, NEW c \in Conns, Accept(c)
  PROVE  QuietInv'
<1>1. RunTypes'
  BY DEF QuietInv, RunTypes, ConnStates, Accept
<1>2. Served' = Served \union {c} /\ c \notin Served
  BY DEF QuietInv, RunTypes, Accept, Served
<1>3. Cardinality(Served') = Cardinality(Served) + 1
  BY <1>2, ServedFinite, FS_AddElement
<1>4. Loops' = Loops /\ wg' = wg + 1 /\ Loops \in Nat
  BY LoopsCount DEF QuietInv, Accept, Loops
<1>5. Counted'
  BY <1>3, <1>4, ServedFinite DEF QuietInv, Counted
<1>6. StoppedIsQuiet'
  BY DEF QuietInv, StoppedIsQuiet, Accept, Listening
<1> QED
  BY <1>1, <1>5, <1>6 DEF QuietInv

(* A connection's goroutine returns.                                       *)
LEMMA ClosePreserves ==
  ASSUME QuietInv, NEW c \in Conns, c \in Served, Close(c),
         UNCHANGED <<main, accepting, cleaner>>
  PROVE  QuietInv'
<1>1. RunTypes'
  BY DEF QuietInv, RunTypes, ConnStates, Close
<1>2. Served' = Served \ {c} /\ c \in Served
  BY DEF QuietInv, RunTypes, Close, Served
<1>3. Cardinality(Served') = Cardinality(Served) - 1
  BY <1>2, ServedFinite, FS_RemoveElement
<1>4. Loops' = Loops /\ wg' = wg - 1 /\ Loops \in Nat
  BY LoopsCount DEF QuietInv, Close, Loops
<1>5. Counted'
  BY <1>3, <1>4, ServedFinite DEF QuietInv, Counted
<1>6. StoppedIsQuiet'
  BY <1>2 DEF QuietInv, StoppedIsQuiet
<1> QED
  BY <1>1, <1>5, <1>6 DEF QuietInv

LEMMA AcceptReturnsPreserves ==
  ASSUME QuietInv, AcceptReturns
  PROVE  QuietInv'
<1>1. RunTypes' /\ Served' = Served /\ wg' = wg - 1
  BY DEF QuietInv, RunTypes, AcceptReturns, connVars, Served
<1>2. Loops' = Loops - 1 /\ Loops \in Nat
  BY LoopsCount DEF QuietInv, AcceptReturns, Loops
<1>3. Counted'
  BY <1>1, <1>2, ServedFinite DEF QuietInv, Counted
<1>4. StoppedIsQuiet'
  BY DEF QuietInv, StoppedIsQuiet, AcceptReturns
<1> QED
  BY <1>1, <1>3, <1>4 DEF QuietInv

LEMMA CleanerReturnsPreserves ==
  ASSUME QuietInv, CleanerReturns
  PROVE  QuietInv'
<1>1. RunTypes' /\ Served' = Served /\ wg' = wg - 1
  BY DEF QuietInv, RunTypes, CleanerReturns, connVars, Served
<1>2. Loops' = Loops - 1 /\ Loops \in Nat
  BY LoopsCount DEF QuietInv, CleanerReturns, Loops
<1>3. Counted'
  BY <1>1, <1>2, ServedFinite DEF QuietInv, Counted
<1>4. StoppedIsQuiet'
  BY DEF QuietInv, StoppedIsQuiet, CleanerReturns
<1> QED
  BY <1>1, <1>3, <1>4 DEF QuietInv

(* Stop returns: the count is zero, so both of its parts are.              *)
LEMMA WaitReturnsPreserves ==
  ASSUME QuietInv, WaitReturns
  PROVE  QuietInv'
<1>1. RunTypes' /\ Served' = Served /\ Loops' = Loops /\ wg' = wg
  BY DEF QuietInv, RunTypes, WaitReturns, connVars, Served, Loops
<1>2. Loops = 0 /\ Cardinality(Served) = 0
  <2>1. Loops + Cardinality(Served) = 0
    BY DEF QuietInv, Counted, WaitReturns
  <2>2. Loops \in Nat /\ Cardinality(Served) \in Nat
    BY LoopsCount, ServedFinite DEF QuietInv
  <2> QED
    BY <2>1, <2>2
<1>3. ~accepting /\ cleaner = "returned" /\ Served = {}
  BY <1>2, LoopsCount, ServedFinite DEF QuietInv
<1>4. StoppedIsQuiet'
  BY <1>1, <1>3 DEF StoppedIsQuiet, WaitReturns, connVars
<1>5. Counted'
  BY <1>1 DEF QuietInv, Counted
<1> QED
  BY <1>1, <1>4, <1>5 DEF QuietInv

(* A connection's goroutine goes from one of its states to another.        *)
LEMMA GoesOn ==
  ASSUME QuietInv, NEW c \in Conns, c \in Served, UNCHANGED <<main, wg, accepting, cleaner>>,
         NEW state \in {"reading", "handling", "answering", "reporting"},
         conn' = [conn EXCEPT ![c] = state]
  PROVE  QuietInv'
<1>1. RunTypes' /\ Served' = Served
  BY DEF QuietInv, RunTypes, ConnStates, Served
<1> QED
  BY <1>1, NothingRunsOrEnds

(* The process ends: nothing is counted, and nothing runs.                 *)
LEMMA PanicPreserves ==
  ASSUME QuietInv, NEW c \in Conns, Panic(c)
  PROVE  QuietInv'
<1>1. RunTypes'
  BY DEF QuietInv, RunTypes, ConnStates, Panic
<1>2. Served' = {}
  BY DEF QuietInv, RunTypes, Panic, Served
<1>3. Cardinality(Served') = 0
  BY <1>2, FS_EmptySet
<1>4. Counted'
  BY <1>3 DEF Counted, Panic, Loops
<1> QED
  BY <1>1, <1>4 DEF QuietInv, StoppedIsQuiet, Panic

LEMMA QuietStep == QuietInv /\ [ServerNext]_serverVars => QuietInv'
<1> SUFFICES ASSUME QuietInv, [ServerNext]_serverVars
             PROVE  QuietInv'
  OBVIOUS
<1>1. ASSUME NEW c \in Conns, Dial(c)
      PROVE  QuietInv'
  <2>1. RunTypes' /\ Served' = Served
    BY <1>1 DEF QuietInv, RunTypes, ConnStates, Dial, Served
  <2> QED
    BY <1>1, <2>1, NothingRunsOrEnds DEF Dial
<1>2. ASSUME NEW c \in Conns, Send(c)
      PROVE  QuietInv'
  <2>1. RunTypes' /\ Served' = Served
    BY <1>2 DEF QuietInv, RunTypes, Send, Served
  <2> QED
    BY <1>2, <2>1, NothingRunsOrEnds DEF Send
<1>3. ASSUME NEW c \in Conns, Accept(c)
      PROVE  QuietInv'
  BY <1>3, AcceptPreserves
<1>4. ASSUME NEW c \in Conns, Read(c)
      PROVE  QuietInv'
  <2>1. PICK n \in taken[c] + 1 .. sent[c] :
           \E state \in Fed(c, n) : conn' = [conn EXCEPT ![c] = state]
    BY <1>4 DEF Read
  <2>2. PICK state \in Fed(c, n) : conn' = [conn EXCEPT ![c] = state]
    BY <2>1
  <2>3. state \in {"reading", "handling", "answering", "reporting"}
    BY <2>2 DEF Fed
  <2> QED
    BY <1>4, <2>2, <2>3, GoesOn DEF Read, Served
<1>5. ASSUME NEW c \in Conns, Handle(c)
      PROVE  QuietInv'
  BY <1>5, GoesOn DEF Handle, Served
<1>6. ASSUME NEW c \in Conns, ReadFails(c)
      PROVE  QuietInv'
  BY <1>6, ClosePreserves DEF ReadFails, Served
<1>14. ASSUME NEW c \in Conns, Answer(c)
       PROVE  QuietInv'
  <2>1. CASE conn[c] = "answering"
    BY <1>14, <2>1, GoesOn DEF Answer, Served
  <2>2. CASE conn[c] = "reporting"
    BY <1>14, <2>2, ClosePreserves DEF Answer, Served
  <2> QED
    BY <1>14, <2>1, <2>2 DEF Answer
<1>15. ASSUME NEW c \in Conns, Panic(c)
       PROVE  QuietInv'
  BY <1>15, PanicPreserves
<1>16. ASSUME NEW c \in Conns, Stall(c) \/ ReadOn(c)
       PROVE  QuietInv'
  <2>1. RunTypes' /\ Served' = Served
    BY <1>16 DEF QuietInv, RunTypes, Stall, ReadOn, Served
  <2> QED
    BY <1>16, <2>1, NothingRunsOrEnds DEF Stall, ReadOn
<1>7. CASE AcceptReturns
  BY <1>7, AcceptReturnsPreserves
<1>8. CASE SweepBegins \/ SweepEnds
  <2>1. RunTypes' /\ Served' = Served
    BY <1>8 DEF QuietInv, RunTypes, SweepBegins, SweepEnds, connVars, Served
  <2> QED
    BY <1>8, <2>1, NothingRunsOrEnds DEF SweepBegins, SweepEnds
<1>9. CASE CleanerReturns
  BY <1>9, CleanerReturnsPreserves
<1>10. CASE CloseDone
  <2>1. RunTypes' /\ Served' = Served
    BY <1>10 DEF QuietInv, RunTypes, CloseDone, connVars, Served
  <2> QED
    BY <1>10, <2>1, NothingRunsOrEnds DEF CloseDone
<1>11. CASE CloseListener
  <2>1. RunTypes' /\ Served' = Served
    BY <1>11 DEF QuietInv, RunTypes, ConnStates, CloseListener, Served
  <2> QED
    BY <1>11, <2>1, NothingRunsOrEnds DEF CloseListener
<1>12. CASE WaitReturns
  BY <1>12, WaitReturnsPreserves
<1>13. CASE UNCHANGED serverVars
  <2>1. RunTypes' /\ Served' = Served
    BY <1>13 DEF QuietInv, RunTypes, serverVars, connVars, Served
  <2> QED
    BY <1>13, <2>1, NothingRunsOrEnds DEF serverVars
<1> QED
  BY <1>1, <1>2, <1>3, <1>4, <1>5, <1>6, <1>7, <1>8, <1>9, <1>10, <1>11, <1>12, <1>13,
     <1>14, <1>15, <1>16
     DEF ServerNext

(* When Server.Stop returns, the loops and every connection's goroutine    *)
(* have returned: server.go adds to the wait group before each "go", and   *)
(* only the accept loop, itself counted, adds for a connection.            *)
THEOREM StopLeavesNothing == ServerSpec => []StoppedIsQuiet
<1>1. QuietInv => StoppedIsQuiet
  BY DEF QuietInv
<1> QED
  BY QuietInit, QuietStep, <1>1, PTL DEF ServerSpec

-----------------------------------------------------------------------------
(* The messages of a connection.                                           *)

StreamTypes ==
    /\ conn \in [Conns -> ConnStates]
    /\ sent \in [Conns -> Nat] /\ taken \in [Conns -> Nat] /\ base \in [Conns -> Nat]
    /\ handled \in [Conns -> Seq(Nat)] /\ stray \in [Conns -> Nat] /\ stalled \subseteq Conns

(* Where the parser starts, or will once the answer is written: nothing    *)
(* that was fed by now is looked at again.                                 *)
Place(state, t, b) == IF state \in {"answering", "lost"} THEN t ELSE b

(* What was handled lies before the place where the parser started; it is  *)
(* handled only when a whole message follows that place.                   *)
InOrder(state, s, t, b, done) ==
    /\ b <= t /\ t <= s
    /\ \A k \in 1 .. Len(done) : done[k] * Parts <= Place(state, t, b)
    /\ \A k \in 2 .. Len(done) : done[k - 1] < done[k]
    /\ state = "handling" /\ b % Parts = 0 => b + Parts <= t

(* A client that waits for each answer is at most one message ahead, so    *)
(* reset never drops a piece: n messages handled are n * Parts pieces, and *)
(* nothing else is ever handled.                                           *)
InStep(state, s, t, b, n, others) ==
    /\ others = 0
    /\ state # "lost" =>
          /\ Place(state, t, b) = n * Parts
          /\ s <= Place(state, t, b) + Parts
          /\ state # "handling" => t < Place(state, t, b) + Parts

InStepAt(c) ==
    InStep(conn[c], sent[c], taken[c], base[c], Len(handled[c]), stray[c])

StreamInv ==
    /\ StreamTypes
    /\ \A c \in Conns :
          /\ InOrder(conn[c], sent[c], taken[c], base[c], handled[c])
          /\ Window[c] = 1 => InStepAt(c)

LEMMA Quotient ==
  ASSUME NEW n \in Nat
  PROVE  /\ n \div Parts \in Nat /\ n % Parts \in 0 .. Parts - 1
         /\ n = (n \div Parts) * Parts + (n % Parts)
BY ServerAssumption

(* Where the quotient of a number of pieces lies.                          *)
LEMMA QuotientBetween ==
  ASSUME NEW n \in Nat, NEW q \in Nat, q * Parts <= n
  PROVE  /\ q <= n \div Parts
         /\ n < q * Parts + Parts => n \div Parts = q
         /\ n \div Parts <= q => n < q * Parts + Parts
<1>1. q <= n \div Parts
  BY ServerAssumption
<1>2. n < q * Parts + Parts => n \div Parts = q
  BY ServerAssumption
<1>3. n \div Parts <= q => n < q * Parts + Parts
  BY <1>1, Quotient, ServerAssumption
<1> QED
  BY <1>1, <1>2, <1>3

LEMMA WholeMessages ==
  ASSUME NEW n \in Nat, n % Parts = 0
  PROVE  (n \div Parts + 1) * Parts = n + Parts
BY ServerAssumption

LEMMA NextMultiple ==
  ASSUME NEW q \in Nat
  PROVE  (q + 1) * Parts = q * Parts + Parts
BY ServerAssumption

LEMMA Multiples ==
  ASSUME NEW q \in Nat
  PROVE  q * Parts \in Nat /\ (q * Parts) % Parts = 0 /\ (q * Parts) \div Parts = q
<1>1. q * Parts \in Nat
  BY ServerAssumption
<1>2. (q * Parts) \div Parts = q
  BY <1>1, QuotientBetween, ServerAssumption
<1> QED
  BY <1>1, <1>2, Quotient, ServerAssumption

LEMMA NextWhole ==
  ASSUME NEW q \in Nat, NEW s, s = q * Parts + Parts
  PROVE  s % Parts = 0 /\ s \div Parts = q + 1
<1> DEFINE next == q + 1
<1>1. next \in Nat /\ s = next * Parts
  BY NextMultiple
<1> HIDE DEF next
<1>2. s % Parts = 0 /\ s \div Parts = next
  BY <1>1, Multiples
<1> QED
  BY <1>2 DEF next

(* Whatever the state of its goroutine, what was handled on a connection   *)
(* lies before what was taken.                                             *)
LEMMA HandledWasTaken ==
  ASSUME NEW state, NEW s, NEW t \in Nat, NEW b \in Nat, NEW done \in Seq(Nat),
         InOrder(state, s, t, b, done), NEW k \in 1 .. Len(done)
  PROVE  done[k] \in Nat /\ done[k] * Parts \in Nat /\ done[k] * Parts <= t
<1>1. done[k] \in Nat
  OBVIOUS
<1>2. done[k] * Parts \in Nat
  <2> HIDE DEF InOrder
  <2> QED
    BY <1>1, Multiples
<1>3. b <= t /\ (done[k] * Parts <= b \/ done[k] * Parts <= t)
  BY Zenon DEF InOrder, Place
<1> DEFINE x == done[k] * Parts
<1> HIDE DEF x
<1>4. x \in Nat /\ b <= t /\ (x <= b \/ x <= t)
  BY <1>2, <1>3 DEF x
<1>5. x <= t
  BY <1>4
<1> QED
  BY <1>1, <1>4, <1>5 DEF x

LEMMA StreamInit == ServerInit => StreamInv
<1> SUFFICES ASSUME ServerInit PROVE StreamInv
  OBVIOUS
<1>1. StreamTypes
  BY DEF ServerInit, StreamTypes, ConnStates
<1>2. 0 * Parts = 0 /\ Parts > 0
  BY ServerAssumption
<1> QED
  BY <1>1, <1>2, ServerAssumption
     DEF ServerInit, StreamInv, InOrder, InStep, InStepAt, Place

(* A step at one connection, which keeps what the invariant says of it.    *)
LEMMA OneStream ==
  ASSUME StreamInv, StreamTypes', NEW c \in Conns,
         \A d \in Conns \ {c} :
            /\ conn'[d] = conn[d] /\ sent'[d] = sent[d] /\ taken'[d] = taken[d]
            /\ base'[d] = base[d] /\ handled'[d] = handled[d] /\ stray'[d] = stray[d],
         InOrder(conn'[c], sent'[c], taken'[c], base'[c], handled'[c]),
         Window[c] = 1 =>
            InStep(conn'[c], sent'[c], taken'[c], base'[c], Len(handled'[c]), stray'[c])
  PROVE  StreamInv'
BY DEF StreamInv, InStepAt

LEMMA SendStream ==
  ASSUME StreamInv, NEW c \in Conns, Send(c)
  PROVE  StreamInv'
<1> DEFINE s == sent[c]
           n == Len(handled[c])
           r == Place(conn[c], taken[c], base[c])
<1>1. s \in Nat /\ n \in Nat /\ r \in Nat /\ stray[c] \in Nat
  BY DEF StreamInv, StreamTypes, Place
<1>2. /\ StreamTypes' /\ sent'[c] = s + 1
      /\ UNCHANGED <<conn, taken, base, handled, stray>>
      /\ \A d \in Conns \ {c} : sent'[d] = sent[d]
  BY DEF Send, StreamInv, StreamTypes
<1>3. InOrder(conn[c], s + 1, taken[c], base[c], handled[c])
  BY <1>1 DEF StreamInv, StreamTypes, InOrder
<1>4. ASSUME Window[c] = 1
      PROVE  InStep(conn[c], s + 1, taken[c], base[c], n, stray[c])
  <2>1. /\ r = n * Parts /\ s <= r + Parts /\ stray[c] = 0
        /\ conn[c] # "handling" => taken[c] < r + Parts
    BY <1>4 DEF StreamInv, InStep, InStepAt, Send
  <2>2. s # r + Parts
    <3> SUFFICES ASSUME s = r + Parts PROVE FALSE
      OBVIOUS
    <3>1. n \in Nat /\ r = n * Parts /\ stray[c] = 0
      BY <1>1, <2>1
    <3>2. s % Parts = 0 /\ s \div Parts = n + 1
      <4> HIDE DEF s, r, n
      <4> QED
        BY <3>1, NextWhole
    <3>3. ~Begun(c)
      BY <3>2 DEF Begun
    <3>4. Outstanding(c) = (s \div Parts) - n - stray[c]
      BY DEF Outstanding
    <3>5. Outstanding(c) < 1
      BY <1>4, <3>3 DEF Send
    <3> HIDE DEF s, n
    <3> QED
      BY <3>1, <3>2, <3>4, <3>5
  <2>3. s + 1 <= r + Parts
    <3>1. s \in Nat /\ r \in Nat /\ Parts \in Nat /\ s <= r + Parts /\ s # r + Parts
      BY <1>1, <2>1, <2>2, ServerAssumption
    <3> HIDE DEF s, r
    <3> QED
      BY <3>1
  <2> QED
    BY <2>1, <2>3 DEF InStep
<1> QED
  BY <1>2, <1>3, <1>4, OneStream

LEMMA ReadStream ==
  ASSUME StreamInv, NEW c \in Conns, Read(c)
  PROVE  StreamInv'
<1>1. PICK m \in taken[c] + 1 .. sent[c] :
         /\ taken' = [taken EXCEPT ![c] = m]
         /\ \E state \in Fed(c, m) : conn' = [conn EXCEPT ![c] = state]
  BY DEF Read
<1>2. PICK state \in Fed(c, m) : conn' = [conn EXCEPT ![c] = state]
  BY <1>1
<1>3. taken[c] \in Nat /\ sent[c] \in Nat /\ base[c] \in Nat /\ m \in Nat /\ Parts \in Nat
  BY <1>1, ServerAssumption DEF StreamInv, StreamTypes
<1>4. /\ state \in {"reading", "handling", "reporting"}
      /\ base[c] % Parts = 0 =>
            /\ m - base[c] >= Parts => state = "handling"
            /\ ~(m - base[c] >= Parts) => state = "reading"
      /\ state = "handling" /\ base[c] % Parts = 0 => m - base[c] >= Parts
  BY <1>2, Zenon DEF Fed
<1>5. /\ StreamTypes' /\ taken'[c] = m /\ conn'[c] = state /\ conn[c] = "reading"
      /\ UNCHANGED <<sent, base, handled, stray>>
      /\ \A d \in Conns \ {c} : conn'[d] = conn[d] /\ taken'[d] = taken[d]
  BY <1>1, <1>2, <1>3, <1>4 DEF Read, StreamInv, StreamTypes, ConnStates
<1>6. InOrder(state, sent[c], m, base[c], handled[c])
  <2>1. /\ base[c] <= taken[c]
        /\ \A k \in 1 .. Len(handled[c]) : handled[c][k] * Parts <= base[c]
        /\ \A k \in 2 .. Len(handled[c]) : handled[c][k - 1] < handled[c][k]
    BY <1>5 DEF StreamInv, InOrder, Place
  <2>2. base[c] <= m /\ m <= sent[c]
    BY <1>1, <1>3, <2>1
  <2>3. state = "handling" /\ base[c] % Parts = 0 => base[c] + Parts <= m
    BY <1>3, <1>4
  <2> QED
    BY <1>4, <2>1, <2>2, <2>3 DEF InOrder, Place
<1>7. ASSUME Window[c] = 1
      PROVE  InStep(state, sent[c], m, base[c], Len(handled[c]), stray[c])
  <2>1. Len(handled[c]) \in Nat /\ InStepAt(c)
    BY <1>7 DEF StreamInv, StreamTypes
  <2>2. /\ base[c] = Len(handled[c]) * Parts /\ stray[c] = 0
        /\ sent[c] <= base[c] + Parts
    BY <1>5, <2>1 DEF InStep, InStepAt, Place
  <2>3. base[c] % Parts = 0
    BY <2>1, <2>2, Multiples
  <2>4. Place(state, m, base[c]) = base[c]
    BY <1>4 DEF Place
  <2>5. state # "handling" => m < base[c] + Parts
    BY <1>3, <1>4, <2>3
  <2> QED
    BY <2>2, <2>4, <2>5 DEF InStep
<1> QED
  BY <1>5, <1>6, <1>7, OneStream

(* A message that was sent is handled: the one at the parser's place.      *)
LEMMA HandleStream ==
  ASSUME StreamInv, NEW c \in Conns, Handle(c), base[c] % Parts = 0
  PROVE  StreamInv'
<1> DEFINE b == base[c]
           t == taken[c]
           s == sent[c]
           q == b \div Parts
           done == handled[c]
<1>1. /\ b \in Nat /\ t \in Nat /\ s \in Nat /\ done \in Seq(Nat) /\ Len(done) \in Nat
      /\ Parts \in Nat \ {0}
  BY ServerAssumption DEF StreamInv, StreamTypes
<1>2. /\ b <= t /\ t <= s /\ b % Parts = 0 /\ b + Parts <= t
      /\ \A k \in 1 .. Len(done) : done[k] * Parts <= b
      /\ \A k \in 2 .. Len(done) : done[k - 1] < done[k]
  BY DEF Handle, StreamInv, InOrder, Place
<1>3. q \in Nat /\ (q + 1) * Parts = b + Parts
  BY <1>1, <1>2, Quotient, WholeMessages
<1>4. ASSUME NEW k \in 1 .. Len(done) PROVE done[k] \in Nat /\ done[k] <= q
  <2>1. done[k] \in Nat /\ done[k] * Parts <= b
    BY <1>1, <1>2
  <2> HIDE DEF b, done
  <2> QED
    BY <1>1, <2>1, QuotientBetween
<1> DEFINE more == Append(done, q + 1)
<1>5. /\ more \in Seq(Nat) /\ Len(more) = Len(done) + 1 /\ more[Len(done) + 1] = q + 1
      /\ \A k \in 1 .. Len(done) : more[k] = done[k]
  BY <1>1, <1>3, SMTT(30)
<1>6. /\ handled'[c] = more /\ conn'[c] = "answering"
      /\ UNCHANGED <<sent, taken, base, stray>>
      /\ \A d \in Conns \ {c} : conn'[d] = conn[d] /\ handled'[d] = handled[d]
  BY DEF Handle, Process, StreamInv, StreamTypes
<1>7. StreamTypes'
  BY <1>1, <1>5 DEF Handle, Process, StreamInv, StreamTypes, ConnStates
<1> HIDE DEF b, t, s, q, done, more
<1>8. InOrder("answering", s, t, b, more)
  <2>1. ASSUME NEW k \in 1 .. Len(more) PROVE more[k] * Parts <= t
    <3>1. CASE k \in 1 .. Len(done)
      <4>1. done[k] * Parts <= b /\ done[k] * Parts \in Int
        BY <1>1, <1>2, <1>4, <3>1
      <4> QED
        BY <1>1, <1>2, <1>5, <3>1, <4>1, SMTT(30)
    <3>2. CASE k = Len(done) + 1
      BY <1>1, <1>2, <1>3, <1>5, <3>2
    <3> QED
      BY <1>1, <1>5, <3>1, <3>2
  <2>2. ASSUME NEW k \in 2 .. Len(more) PROVE more[k - 1] < more[k]
    <3>1. CASE k \in 2 .. Len(done)
      <4>1. k \in 1 .. Len(done) /\ k - 1 \in 1 .. Len(done)
        BY <1>1, <3>1
      <4>2. more[k] = done[k] /\ more[k - 1] = done[k - 1]
        BY <1>5, <4>1
      <4> QED
        BY <1>2, <3>1, <4>2
    <3>2. CASE k = Len(done) + 1
      <4>1. CASE Len(done) = 0
        BY <1>1, <3>2, <4>1
      <4>2. CASE Len(done) # 0
        <5>1. k - 1 \in 1 .. Len(done)
          BY <1>1, <3>2, <4>2
        <5>2. more[k - 1] <= q /\ more[k - 1] \in Nat /\ more[k] = q + 1
          BY <1>4, <1>5, <3>2, <5>1
        <5> QED
          BY <1>3, <5>2
      <4> QED
        BY <4>1, <4>2
    <3> QED
      BY <1>1, <1>5, <3>1, <3>2
  <2> QED
    BY <1>1, <1>2, <2>1, <2>2 DEF InOrder, Place
<1>9. ASSUME Window[c] = 1
      PROVE  InStep("answering", s, t, b, Len(more), stray[c])
  <2>1. b = Len(done) * Parts /\ s <= b + Parts /\ stray[c] = 0
    BY <1>9 DEF StreamInv, InStep, InStepAt, Place, Handle, b, s, t, done
  <2>2. t = b + Parts /\ s = t
    BY <1>1, <1>2, <2>1
  <2>3. (Len(done) + 1) * Parts = b + Parts
    BY <1>1, <2>1
  <2> QED
    BY <1>1, <1>5, <2>1, <2>2, <2>3 DEF InStep, Place
<1> QED
  BY <1>6, <1>7, <1>8, <1>9, OneStream DEF s, t, b

(* What nobody sent is handled on the connection of a client that did not  *)
(* wait: of one that waits, the parser's place is the end of a message.    *)
LEMMA StrayStream ==
  ASSUME StreamInv, NEW c \in Conns, Handle(c), base[c] % Parts # 0
  PROVE  StreamInv'
<1>1. /\ StreamTypes' /\ conn'[c] = "answering" /\ conn[c] = "handling"
      /\ UNCHANGED <<sent, taken, base, handled>>
      /\ \A d \in Conns \ {c} : conn'[d] = conn[d] /\ stray'[d] = stray[d]
  <2>1. /\ handled' = handled /\ stray' = [stray EXCEPT ![c] = @ + 1]
        /\ conn[c] = "handling" /\ conn' = [conn EXCEPT ![c] = "answering"]
        /\ UNCHANGED <<sent, taken, base, stalled>>
    BY DEF Handle, Process
  <2> QED
    BY <2>1 DEF StreamInv, StreamTypes, ConnStates
<1>2. Window[c] # 1
  <2> SUFFICES ASSUME Window[c] = 1 PROVE FALSE
    OBVIOUS
  <2>1. Len(handled[c]) \in Nat /\ InStepAt(c)
    BY DEF StreamInv, StreamTypes
  <2>2. base[c] = Len(handled[c]) * Parts
    BY <1>1, <2>1 DEF InStep, InStepAt, Place
  <2> QED
    BY <2>1, <2>2, Multiples
<1>3. /\ taken[c] \in Nat /\ base[c] \in Nat /\ handled[c] \in Seq(Nat) /\ Parts \in Nat
      /\ InOrder(conn[c], sent[c], taken[c], base[c], handled[c])
  BY ServerAssumption DEF StreamInv, StreamTypes
<1>4. ASSUME NEW k \in 1 .. Len(handled[c])
      PROVE  handled[c][k] * Parts <= taken[c]
  BY <1>3, HandledWasTaken
<1>5. InOrder("answering", sent[c], taken[c], base[c], handled[c])
  BY <1>3, <1>4 DEF InOrder, Place
<1> QED
  BY <1>1, <1>2, <1>5, OneStream

(* The answer is written, and the parser's place becomes what it was taken *)
(* to be; or the connection is closed after an error.                      *)
LEMMA AnswerStream ==
  ASSUME StreamInv, NEW c \in Conns, Answer(c)
  PROVE  StreamInv'
<1>1. /\ StreamTypes' /\ UNCHANGED <<sent, taken, handled, stray>>
      /\ \A d \in Conns \ {c} : conn'[d] = conn[d] /\ base'[d] = base[d]
      /\ \/ conn[c] = "answering" /\ conn'[c] = "reading" /\ base'[c] = taken[c]
         \/ conn[c] = "reporting" /\ conn'[c] = "closed" /\ base'[c] = base[c]
  BY DEF Answer, Close, StreamInv, StreamTypes, ConnStates
<1>2. InOrder(conn'[c], sent[c], taken[c], base'[c], handled[c])
  <2>1. taken[c] \in Nat /\ InOrder(conn[c], sent[c], taken[c], base[c], handled[c])
    BY DEF StreamInv, StreamTypes
  <2> QED
    BY <1>1, <2>1 DEF InOrder, Place
<1>3. Window[c] = 1 =>
         InStep(conn'[c], sent[c], taken[c], base'[c], Len(handled[c]), stray[c])
  BY <1>1 DEF StreamInv, InStep, InStepAt, Place
<1> QED
  BY <1>1, <1>2, <1>3, OneStream

(* A connection goes on to a state in which nothing is being handled or    *)
(* answered.                                                               *)
LEMMA MovedStream ==
  ASSUME StreamInv, conn' \in [Conns -> ConnStates], stalled' \subseteq Conns,
         UNCHANGED <<sent, taken, base, handled, stray>>,
         \A c \in Conns :
            \/ conn'[c] = conn[c]
            \/ {conn[c], conn'[c]} \intersect {"handling", "answering", "lost"} = {}
  PROVE  StreamInv'
BY DEF StreamInv, StreamTypes, InOrder, InStep, InStepAt, Place

(* The process ends.  Of what was being handled nothing is said any more.  *)
LEMMA PanicStream ==
  ASSUME StreamInv, NEW c \in Conns, Panic(c)
  PROVE  StreamInv'
<1>1. StreamTypes' /\ UNCHANGED <<sent, taken, base, handled, stray>>
  BY DEF Panic, StreamInv, StreamTypes, ConnStates
<1>2. ASSUME NEW d \in Conns
      PROVE  /\ InOrder(conn'[d], sent[d], taken[d], base[d], handled[d])
             /\ Window[d] = 1 =>
                   InStep(conn'[d], sent[d], taken[d], base[d], Len(handled[d]), stray[d])
  <2>1. CASE conn'[d] = "lost"
    <3>1. /\ taken[d] \in Nat /\ base[d] \in Nat /\ handled[d] \in Seq(Nat) /\ Parts \in Nat
          /\ InOrder(conn[d], sent[d], taken[d], base[d], handled[d])
      BY ServerAssumption DEF StreamInv, StreamTypes
    <3>2. ASSUME NEW k \in 1 .. Len(handled[d])
          PROVE  handled[d][k] * Parts <= taken[d]
      BY <3>1, HandledWasTaken
    <3>3. Window[d] = 1 => stray[d] = 0
      BY DEF StreamInv, InStep, InStepAt
    <3> QED
      BY <2>1, <3>1, <3>2, <3>3 DEF InOrder, InStep, Place
  <2>2. CASE conn'[d] # "lost"
    <3>1. \/ conn'[d] = conn[d]
          \/ conn[d] = "backlog" /\ conn'[d] = "refused"
      BY <2>2 DEF Panic, Served, StreamInv, StreamTypes
    <3> QED
      BY <3>1 DEF StreamInv, InOrder, InStep, InStepAt, Place
  <2> QED
    BY <2>1, <2>2
<1> QED
  BY <1>1, <1>2 DEF StreamInv, InStepAt

LEMMA StreamStep == StreamInv /\ [ServerNext]_serverVars => StreamInv'
<1> SUFFICES ASSUME StreamInv, [ServerNext]_serverVars
             PROVE  StreamInv'
  OBVIOUS
<1>1. ASSUME NEW c \in Conns, Dial(c) \/ Accept(c) \/ ReadFails(c) \/ Stall(c) \/ ReadOn(c)
      PROVE  StreamInv'
  BY <1>1, MovedStream
     DEF Dial, Accept, ReadFails, Stall, ReadOn, Close, StreamInv, StreamTypes, ConnStates
<1>2. ASSUME NEW c \in Conns, Send(c) \/ Read(c) \/ Handle(c) \/ Answer(c) \/ Panic(c)
      PROVE  StreamInv'
  BY <1>2, SendStream, ReadStream, HandleStream, StrayStream, AnswerStream, PanicStream
<1>3. CASE CloseListener
  BY <1>3, MovedStream DEF CloseListener, StreamInv, StreamTypes, ConnStates
<1>4. CASE UNCHANGED connVars
  BY <1>4, MovedStream DEF connVars, StreamInv, StreamTypes
<1> QED
  BY <1>1, <1>2, <1>3, <1>4
     DEF ServerNext, AcceptReturns, SweepBegins, SweepEnds, CleanerReturns, CloseDone,
         WaitReturns, serverVars

LEMMA StreamAlways == ServerSpec => []StreamInv
BY StreamInit, StreamStep, PTL DEF ServerSpec

(* On every connection messages are handled in the order they were sent,   *)
(* none twice and none before it was read entirely, however many pieces a  *)
(* message has, however far the client sends ahead and whatever reset      *)
(* drops (connection.go's loop of read, parse, process and reset).         *)
THEOREM InOrderAlways == ServerSpec => []HandledInOrder
<1>1. StreamInv => HandledInOrder
  <2> SUFFICES ASSUME StreamInv, NEW c \in Conns, NEW k \in DOMAIN handled[c]
               PROVE  /\ k > 1 => handled[c][k - 1] < handled[c][k]
                      /\ handled[c][k] * Parts <= taken[c]
    BY DEF HandledInOrder
  <2>1. /\ handled[c] \in Seq(Nat) /\ base[c] \in Nat /\ taken[c] \in Nat /\ Parts \in Nat
        /\ InOrder(conn[c], sent[c], taken[c], base[c], handled[c])
    BY ServerAssumption DEF StreamInv, StreamTypes
  <2>2. k \in 1 .. Len(handled[c])
    BY <2>1
  <2>3. handled[c][k] * Parts <= taken[c]
    BY <2>1, <2>2, HandledWasTaken
  <2>4. k > 1 => k \in 2 .. Len(handled[c])
    BY <2>1, <2>2
  <2> QED
    BY <2>1, <2>3, <2>4 DEF InOrder
<1> QED
  BY <1>1, StreamAlways, PTL

(* Of a client that waits for its answers every message that was read      *)
(* entirely is handled, whatever its length, also when the client hangs up *)
(* or the server is being stopped, and nothing else is (connection.go,     *)
(* Server.Stop).                                                           *)
THEOREM WaitingClientsServed == ServerSpec => []ReadIsHandled
<1>1. StreamInv => ReadIsHandled
  <2> SUFFICES ASSUME StreamInv, NEW c \in Conns, Window[c] = 1,
                      conn[c] \in {"reading", "closed"}
               PROVE  Len(handled[c]) = taken[c] \div Parts /\ stray[c] = 0
    BY DEF ReadIsHandled
  <2> DEFINE n == Len(handled[c])
  <2>1. n \in Nat /\ taken[c] \in Nat /\ base[c] \in Nat
    BY DEF StreamInv, StreamTypes
  <2>2. /\ base[c] = n * Parts /\ base[c] <= taken[c] /\ taken[c] < base[c] + Parts
        /\ stray[c] = 0
    BY DEF StreamInv, InOrder, InStep, InStepAt, Place
  <2> HIDE DEF n
  <2> QED
    BY <2>1, <2>2, QuotientBetween DEF n
<1> QED
  BY <1>1, StreamAlways, PTL

(* The state keeps its types and the wait group's counter equals the       *)
(* number of goroutines that run (server.go's wg.Add and wg.Done).         *)
THEOREM ServerTypes == ServerSpec => []ServerTypeOK
<1>1. QuietInv /\ StreamInv => ServerTypeOK
  BY DEF QuietInv, RunTypes, Counted, StreamInv, StreamTypes, ConnStates, ServerTypeOK
<1>2. ServerSpec => []QuietInv
  BY QuietInit, QuietStep, PTL DEF ServerSpec
<1> QED
  BY <1>1, <1>2, StreamAlways, PTL

=============================================================================
