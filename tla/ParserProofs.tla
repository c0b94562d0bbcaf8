---------------------------- MODULE ParserProofs ----------------------------
(***************************************************************************)
(* The parser does not see how a stream is cut into chunks, whatever the   *)
(* limits, the version and the digest are.  A stage that gets on, or finds *)
(* an error, has all it looks at in the buffer; more bytes behind that     *)
(* change nothing.  A stage that waits has changed nothing.  So to feed    *)
(* two chunks one after the other is to feed them together.                *)
(*                                                                         *)
(* And the parser is the inverse of the assembler.  Each stage that gets   *)
(* on has found in the buffer, behind what the stages before it found, the *)
(* bytes the assembler writes for the fields it extracts; so the fields of *)
(* a parser that is done assemble to the bytes it was fed.  The other way, *)
(* each stage finds in the encoding of a message the fields of the message *)
(* and fails on none of them; and it decides the same way before the whole *)
(* encoding has arrived.                                                   *)
(* What the getters then cut off is what does not fit the handler's        *)
(* buffers.                                                                *)
(***************************************************************************)
EXTENDS Getters, SequenceTheorems, SequenceLemmas, TLAPS

Stages == {"head", "subhead", "context", "user data", "check", "done", "error"}

Heads    == [tail : Seq(Cell), size : Nat, id : Nat, end : Nat]
SubHeads == [addr : Seq(Cell), route : Seq(Cell), extensions : Seq(Cell), end : Nat]
Contexts == [pairs : Seq(Seq(Cell)), end : Nat]

(* The types of the Rust struct's fields.                                  *)
ParserState ==
    [stage : Stages, buffer : Seq(Cell), head : Heads, subhead : SubHeads,
     context : Contexts, data : Seq(Cell), error : Int]

(* The parser with more bytes in its buffer.                               *)
Extend(p, bytes) == [p EXCEPT !.buffer = @ \o bytes]

-----------------------------------------------------------------------------

(* A slice is the same slice when the sequence grows.                      *)
LEMMA SliceStays ==
  ASSUME NEW S, NEW s \in Seq(S), NEW t \in Seq(S),
         NEW m \in Nat \ {0}, NEW n \in Nat, n <= Len(s)
  PROVE  /\ SubSeq(s \o t, m, n) = SubSeq(s, m, n)
         /\ SubSeq(s, m, n) \in Seq(S)
<1>1. CASE n < m
  BY <1>1, SubSeqEmpty, EmptySeq
<1>2. CASE m <= n
  <2>1. m \in 1 .. Len(s) /\ n \in 1 .. Len(s)
    BY <1>2
  <2>2. \A i \in m .. n : s[i] \in S
    BY <1>2
  <2> QED
    BY <2>1, <2>2, SubSeqOfConcat1, SubSeqProperties
<1> QED
  BY <1>1, <1>2

(* More bytes leave the fields and the bytes that were there.              *)
LEMMA ExtendKeeps ==
  ASSUME NEW p \in ParserState, NEW b \in Seq(Cell)
  PROVE  /\ Extend(p, b) \in ParserState
         /\ Extend(p, b).buffer = p.buffer \o b
         /\ Extend(p, b).buffer \in Seq(Cell)
         /\ Extend(p, b).stage = p.stage
         /\ Extend(p, b).head = p.head
         /\ Extend(p, b).subhead = p.subhead
         /\ Extend(p, b).context = p.context
         /\ Len(p.buffer) \in Nat
         /\ Len(Extend(p, b).buffer) \in Nat
         /\ Len(Extend(p, b).buffer) >= Len(p.buffer)
         /\ \A i \in Nat \ {0} : i <= Len(p.buffer) =>
               /\ Extend(p, b).buffer[i] = p.buffer[i]
               /\ p.buffer[i] \in Cell /\ p.buffer[i] \in Nat
         /\ \A m \in Nat \ {0}, n \in Nat : n <= Len(p.buffer) =>
               /\ SubSeq(Extend(p, b).buffer, m, n) = SubSeq(p.buffer, m, n)
               /\ SubSeq(p.buffer, m, n) \in Seq(Cell)
<1> DEFINE q == Extend(p, b)
<1>1. /\ p.buffer \in Seq(Cell)
      /\ p \in ParserState
  BY DEF ParserState
<1>2. /\ p.buffer \o b \in Seq(Cell)
      /\ Len(p.buffer) \in Nat /\ Len(b) \in Nat
      /\ Len(p.buffer \o b) = Len(p.buffer) + Len(b)
      /\ \A i \in 1 .. Len(p.buffer) : (p.buffer \o b)[i] = p.buffer[i]
  BY <1>1, ConcatProperties
<1>3. \A i \in 1 .. Len(p.buffer) : p.buffer[i] \in Cell /\ p.buffer[i] \in Nat
  BY <1>1, ElementOfSeq, WireAssumption DEF Cell
<1>4. /\ q \in ParserState
      /\ q.buffer = p.buffer \o b
      /\ q.stage = p.stage /\ q.head = p.head
      /\ q.subhead = p.subhead /\ q.context = p.context
  BY <1>2 DEF Extend, ParserState
<1>5. ASSUME NEW m \in Nat \ {0}, NEW n \in Nat, n <= Len(p.buffer)
      PROVE  /\ SubSeq(p.buffer \o b, m, n) = SubSeq(p.buffer, m, n)
             /\ SubSeq(p.buffer, m, n) \in Seq(Cell)
  BY <1>1, <1>5, SliceStays
<1>6. ASSUME NEW i \in Nat \ {0}, i <= Len(p.buffer)
      PROVE  /\ (p.buffer \o b)[i] = p.buffer[i]
             /\ p.buffer[i] \in Cell /\ p.buffer[i] \in Nat
  <2>1. i \in 1 .. Len(p.buffer)
    BY <1>2, <1>6
  <2> QED
    BY <2>1, <1>2, <1>3
<1> HIDE DEF q
<1>7. /\ Len(q.buffer) \in Nat /\ Len(q.buffer) >= Len(p.buffer)
      /\ q.buffer \in Seq(Cell)
  BY <1>2, <1>4
<1> QED
  BY <1>2, <1>4, <1>5, <1>6, <1>7 DEF q

(* A failure does not depend on the bytes that follow.                     *)
LEMMA FailureExtends ==
  ASSUME NEW p \in ParserState, NEW b \in Seq(Cell), NEW code \in Int
  PROVE  /\ Failed(Extend(p, b), code) = Extend(Failed(p, code), b)
         /\ Failed(p, code) \in ParserState
         /\ Failed(p, code).stage = "error"
BY DEF Failed, Extend, ParserState, Stages

LEMMA HeadExtends ==
  ASSUME NEW p \in ParserState, NEW b \in Seq(Cell),
         p.stage = "head", ParseHead(p).stage # "head"
  PROVE  /\ ParseHead(Extend(p, b)) = Extend(ParseHead(p), b)
         /\ ParseHead(p) \in ParserState
         /\ ParseHead(p).stage \in {"subhead", "error"}
<1> DEFINE q     == Extend(p, b)
           buf   == p.buffer
           end   == buf[1] + 3
           size  == end - 1
           last  == 1 + buf[1]
           Block(bytes) == [tail |-> SubSeq(bytes, 2, last),
                            size |-> bytes[size], id |-> bytes[end], end |-> end]
           Blocks(r, bytes, result) ==
              IF bytes[1] = 0 THEN Failed(r, -1001)
              ELSE IF bytes[1] > TailMax THEN Failed(r, -1003)
              ELSE IF Len(bytes) < end THEN r
              ELSE IF bytes[size] > DataMax THEN Failed(r, -1003)
              ELSE IF bytes[end] = 0 THEN Failed(r, -1004)
              ELSE [r EXCEPT !.stage = "subhead", !.head = result]
<1>1. Len(buf) >= 1
  BY DEF ParseHead
<1>2. /\ q.stage = "head"
      /\ Len(buf) \in Nat /\ Len(q.buffer) \in Nat /\ Len(q.buffer) >= Len(buf)
      /\ \A i \in Nat \ {0} : i <= Len(buf) => q.buffer[i] = buf[i] /\ buf[i] \in Nat
      /\ \A m \in Nat \ {0}, n \in Nat : n <= Len(buf) =>
            /\ SubSeq(q.buffer, m, n) = SubSeq(buf, m, n)
            /\ SubSeq(buf, m, n) \in Seq(Cell)
  BY ExtendKeeps
<1>3. \A code \in Int : /\ Failed(q, code) = Extend(Failed(p, code), b)
                        /\ Failed(p, code) \in ParserState
                        /\ Failed(p, code).stage = "error"
  BY FailureExtends
<1>4. \A r \in Heads : /\ [q EXCEPT !.stage = "subhead", !.head = r]
                            = Extend([p EXCEPT !.stage = "subhead", !.head = r], b)
                       /\ [p EXCEPT !.stage = "subhead", !.head = r] \in ParserState
                       /\ [p EXCEPT !.stage = "subhead", !.head = r].stage = "subhead"
  BY DEF Extend, ParserState, Stages
<1> SUFFICES /\ ParseHead(q) = Extend(ParseHead(p), b)
             /\ ParseHead(p) \in ParserState
             /\ ParseHead(p).stage \in {"subhead", "error"}
  OBVIOUS
<1> HIDE DEF q, buf
<1>5. /\ q.buffer[1] = buf[1] /\ Len(q.buffer) >= 1
      /\ end \in Nat \ {0} /\ size \in Nat \ {0} /\ last \in Nat
      /\ size <= end /\ last <= end
  BY <1>1, <1>2
<1>6. ParseHead(p) = Blocks(p, buf, Block(buf))
  BY <1>1 DEF ParseHead, buf
<1>7. ParseHead(q) = Blocks(q, q.buffer, Block(q.buffer))
  BY <1>2, <1>5 DEF ParseHead
<1> HIDE DEF end, size, last
<1>8. CASE buf[1] = 0
  BY <1>3, <1>5, <1>6, <1>7, <1>8
<1>9. CASE buf[1] # 0 /\ buf[1] > TailMax
  BY <1>3, <1>5, <1>6, <1>7, <1>9
<1>10. CASE buf[1] # 0 /\ ~(buf[1] > TailMax)
  <2>1. Len(buf) >= end
    BY <1>2, <1>5, <1>6, <1>10
  <2>2. /\ size <= Len(buf) /\ last <= Len(buf)
        /\ ~(Len(buf) < end) /\ ~(Len(q.buffer) < end)
    BY <2>1, <1>2, <1>5
  <2>3. /\ q.buffer[end] = buf[end] /\ q.buffer[size] = buf[size]
        /\ buf[end] \in Nat /\ buf[size] \in Nat
    BY <2>1, <2>2, <1>2, <1>5
  <2>4. /\ SubSeq(q.buffer, 2, last) = SubSeq(buf, 2, last)
        /\ SubSeq(buf, 2, last) \in Seq(Cell)
    BY <2>2, <1>2, <1>5, 2 \in Nat \ {0}
  <2>5. CASE buf[size] > DataMax
    BY <1>3, <1>5, <1>6, <1>7, <1>10, <2>2, <2>3, <2>5
  <2>6. CASE ~(buf[size] > DataMax) /\ buf[end] = 0
    BY <1>3, <1>5, <1>6, <1>7, <1>10, <2>2, <2>3, <2>6
  <2>7. CASE ~(buf[size] > DataMax) /\ buf[end] # 0
    <3>1. Block(q.buffer) = Block(buf)
      BY <2>3, <2>4
    <3>2. Block(buf) \in Heads
      BY <1>5, <2>3, <2>4 DEF Heads
    <3> HIDE DEF Block
    <3>3. ParseHead(p) = [p EXCEPT !.stage = "subhead", !.head = Block(buf)]
      BY <1>6, <1>10, <2>2, <2>7
    <3>4. ParseHead(q) = [q EXCEPT !.stage = "subhead", !.head = Block(buf)]
      BY <1>5, <1>7, <1>10, <2>2, <2>3, <2>7, <3>1
    <3> QED
      BY <3>2, <3>3, <3>4, <1>4
  <2> QED
    BY <2>5, <2>6, <2>7
<1> QED
  BY <1>8, <1>9, <1>10

(* A text that is there stays what it is.                                  *)
LEMMA TextStays ==
  ASSUME NEW p \in ParserState, NEW b \in Seq(Cell), NEW at \in Nat,
         HasText(p.buffer, at)
  PROVE  /\ HasText(Extend(p, b).buffer, at)
         /\ TextEnd(Extend(p, b).buffer, at) = TextEnd(p.buffer, at)
         /\ Text(Extend(p, b).buffer, at) = Text(p.buffer, at)
         /\ TextEnd(p.buffer, at) \in Nat
         /\ Text(p.buffer, at) \in Seq(Cell)
<1> DEFINE long == Extend(p, b).buffer
           buf  == p.buffer
           end  == TextEnd(buf, at)
<1>1. /\ Len(buf) \in Nat /\ Len(long) \in Nat /\ Len(long) >= Len(buf)
      /\ \A i \in Nat \ {0} : i <= Len(buf) => long[i] = buf[i] /\ buf[i] \in Nat
      /\ \A m \in Nat \ {0}, n \in Nat : n <= Len(buf) =>
            /\ SubSeq(long, m, n) = SubSeq(buf, m, n)
            /\ SubSeq(buf, m, n) \in Seq(Cell)
  BY ExtendKeeps
<1>2. Len(buf) > at /\ Len(buf) >= end
  BY DEF HasText
<1> HIDE DEF long, buf
<1>3. /\ at + 1 \in Nat \ {0} /\ at + 1 <= Len(buf) /\ at + 2 \in Nat \ {0}
  BY <1>1, <1>2
<1>4. long[at + 1] = buf[at + 1] /\ buf[at + 1] \in Nat
  BY <1>1, <1>3
<1>5. TextEnd(long, at) = end /\ end \in Nat
  BY <1>4 DEF TextEnd
<1> HIDE DEF end
<1>6. /\ SubSeq(long, at + 2, end) = SubSeq(buf, at + 2, end)
      /\ SubSeq(buf, at + 2, end) \in Seq(Cell)
  BY <1>1, <1>2, <1>3, <1>5
<1>7. HasText(long, at)
  BY <1>1, <1>2, <1>5 DEF HasText
<1>8. Text(long, at) = Text(buf, at) /\ Text(buf, at) \in Seq(Cell)
  BY <1>5, <1>6, Zenon DEF Text, end
<1> QED
  BY <1>5, <1>7, <1>8 DEF long, buf, end

LEMMA SubHeadExtends ==
  ASSUME NEW p \in ParserState, NEW b \in Seq(Cell),
         p.stage = "subhead", ParseSubHead(p).stage # "subhead"
  PROVE  /\ ParseSubHead(Extend(p, b)) = Extend(ParseSubHead(p), b)
         /\ ParseSubHead(p) \in ParserState
         /\ ParseSubHead(p).stage \in {"context", "error"}
<1> DEFINE q     == Extend(p, b)
           buf   == p.buffer
           long  == q.buffer
           start == p.head.end
           addr  == TextEnd(buf, start)
           route == TextEnd(buf, addr)
           ext   == TextEnd(buf, route)
           end   == TextEnd(buf, ext)
           block == [addr |-> Text(buf, addr), route |-> Text(buf, route),
                     extensions |-> Text(buf, ext), end |-> end]
           start2 == q.head.end
           addr2  == TextEnd(long, start2)
           route2 == TextEnd(long, addr2)
           ext2   == TextEnd(long, route2)
           end2   == TextEnd(long, ext2)
           block2 == [addr |-> Text(long, addr2), route |-> Text(long, route2),
                      extensions |-> Text(long, ext2), end |-> end2]
           Judge(r, length, version, path, result) ==
              IF length > SubHeadMax THEN Failed(r, -2003)
              ELSE IF version # Version THEN Failed(r, -2001)
              ELSE IF path = <<>> THEN Failed(r, -2002)
              ELSE [r EXCEPT !.stage = "context", !.subhead = result]
<1>1. /\ HasText(buf, start) /\ HasText(buf, addr)
      /\ HasText(buf, route) /\ HasText(buf, ext)
  BY DEF ParseSubHead
<1>2. start \in Nat /\ q.stage = "subhead" /\ q.head = p.head
  BY ExtendKeeps DEF ParserState, Heads
<1>3. /\ HasText(long, start) /\ Text(long, start) = Text(buf, start)
      /\ TextEnd(long, start) = addr /\ addr \in Nat
  BY <1>1, <1>2, TextStays
<1>4. /\ HasText(long, addr) /\ Text(long, addr) = Text(buf, addr)
      /\ TextEnd(long, addr) = route /\ route \in Nat
      /\ Text(buf, addr) \in Seq(Cell)
  BY <1>1, <1>3, TextStays
<1>5. /\ HasText(long, route) /\ Text(long, route) = Text(buf, route)
      /\ TextEnd(long, route) = ext /\ ext \in Nat
      /\ Text(buf, route) \in Seq(Cell)
  BY <1>1, <1>4, TextStays
<1>6. /\ HasText(long, ext) /\ Text(long, ext) = Text(buf, ext)
      /\ TextEnd(long, ext) = end /\ end \in Nat
      /\ Text(buf, ext) \in Seq(Cell)
  BY <1>1, <1>5, TextStays
<1>7. \A code \in Int : /\ Failed(q, code) = Extend(Failed(p, code), b)
                        /\ Failed(p, code) \in ParserState
                        /\ Failed(p, code).stage = "error"
  BY FailureExtends
<1>8. \A r \in SubHeads :
         /\ [q EXCEPT !.stage = "context", !.subhead = r]
              = Extend([p EXCEPT !.stage = "context", !.subhead = r], b)
         /\ [p EXCEPT !.stage = "context", !.subhead = r] \in ParserState
         /\ [p EXCEPT !.stage = "context", !.subhead = r].stage = "context"
  BY DEF Extend, ParserState, Stages
<1>9. ParseSubHead(p)
        = Judge(p, end - start, Text(buf, start), Text(buf, route), block)
  BY <1>1 DEF ParseSubHead
<1>10. start2 = start /\ addr2 = addr /\ route2 = route /\ ext2 = ext /\ end2 = end
  BY <1>2, <1>3, <1>4, <1>5, <1>6
<1>11. /\ HasText(long, start2) /\ HasText(long, addr2)
       /\ HasText(long, route2) /\ HasText(long, ext2)
  BY <1>3, <1>4, <1>5, <1>6, <1>10
<1>12. ParseSubHead(q)
         = Judge(q, end2 - start2, Text(long, start2), Text(long, route2), block2)
  BY <1>2, <1>11 DEF ParseSubHead
<1>13. block \in SubHeads
  BY <1>4, <1>5, <1>6 DEF SubHeads
<1> SUFFICES /\ ParseSubHead(q) = Extend(ParseSubHead(p), b)
             /\ ParseSubHead(p) \in ParserState
             /\ ParseSubHead(p).stage \in {"context", "error"}
  OBVIOUS
<1> HIDE DEF q, buf, long, start, addr, route, ext, end, start2, addr2, route2, ext2, end2
<1>14. block2 = block
  BY <1>4, <1>5, <1>6, <1>10
<1> HIDE DEF block, block2
<1>15. ParseSubHead(q)
         = Judge(q, end - start, Text(buf, start), Text(buf, route), block)
  BY <1>3, <1>5, <1>10, <1>12, <1>14
<1>16. CASE end - start > SubHeadMax
  BY <1>7, <1>9, <1>15, <1>16
<1>17. CASE ~(end - start > SubHeadMax) /\ Text(buf, start) # Version
  BY <1>7, <1>9, <1>15, <1>17
<1>18. CASE /\ ~(end - start > SubHeadMax) /\ Text(buf, start) = Version
            /\ Text(buf, route) = <<>>
  BY <1>7, <1>9, <1>15, <1>18
<1>19. CASE /\ ~(end - start > SubHeadMax) /\ Text(buf, start) = Version
            /\ Text(buf, route) # <<>>
  <2>1. /\ ParseSubHead(p) = [p EXCEPT !.stage = "context", !.subhead = block]
        /\ ParseSubHead(q) = [q EXCEPT !.stage = "context", !.subhead = block]
    BY <1>9, <1>15, <1>19
  <2> QED
    BY <2>1, <1>8, <1>13
<1> QED
  BY <1>16, <1>17, <1>18, <1>19

LEMMA ContextExtends ==
  ASSUME NEW p \in ParserState, NEW b \in Seq(Cell),
         p.stage = "context", ParseContext(p).stage # "context"
  PROVE  /\ ParseContext(Extend(p, b)) = Extend(ParseContext(p), b)
         /\ ParseContext(p) \in ParserState
         /\ ParseContext(p).stage = "user data"
<1> DEFINE q     == Extend(p, b)
           buf   == p.buffer
           long  == q.buffer
           start == p.subhead.end
           count == buf[start + 1]
           end   == start + 1 + 2 * count
           Pairs(bytes) == [i \in 1 .. count |->
                               <<bytes[start + 2 * i], bytes[start + 2 * i + 1]>>]
           Moved(r, result) ==
              [r EXCEPT !.stage = "user data", !.context = [end |-> end, pairs |-> result]]
<1>1. ~(Len(buf) <= start) /\ ~(Len(buf) < end)
  BY DEF ParseContext
<1>2. /\ start \in Nat
      /\ q.stage = "context" /\ q.subhead = p.subhead
      /\ Len(buf) \in Nat /\ Len(long) \in Nat /\ Len(long) >= Len(buf)
      /\ \A i \in Nat \ {0} : i <= Len(buf) =>
            long[i] = buf[i] /\ buf[i] \in Cell /\ buf[i] \in Nat
  <2>1. start \in Nat
    BY DEF ParserState, SubHeads
  <2> QED
    BY <2>1, ExtendKeeps
<1>3. \A result \in Seq(Seq(Cell)) : end \in Nat =>
         /\ Moved(q, result) = Extend(Moved(p, result), b)
         /\ Moved(p, result) \in ParserState
         /\ Moved(p, result).stage = "user data"
  <2> HIDE DEF end
  <2> QED
    BY DEF Extend, ParserState, Stages, Contexts
<1>4. ParseContext(p) = Moved(p, Pairs(buf))
  BY <1>1 DEF ParseContext
<1> SUFFICES /\ ParseContext(q) = Extend(ParseContext(p), b)
             /\ ParseContext(p) \in ParserState
             /\ ParseContext(p).stage = "user data"
  OBVIOUS
<1> HIDE DEF buf, long, start
<1>5. start + 1 \in Nat \ {0} /\ start + 1 <= Len(buf)
  BY <1>1, <1>2
<1>6. long[start + 1] = count /\ count \in Nat
  BY <1>2, <1>5
<1> HIDE DEF count
<1>7. end \in Nat /\ ~(Len(long) <= start) /\ ~(Len(long) < end)
  BY <1>1, <1>2, <1>6
<1>8. ASSUME NEW i \in 1 .. count
      PROVE  /\ long[start + 2 * i] = buf[start + 2 * i]
             /\ long[start + 2 * i + 1] = buf[start + 2 * i + 1]
             /\ buf[start + 2 * i] \in Cell
             /\ buf[start + 2 * i + 1] \in Cell
  <2>1. /\ start + 2 * i \in Nat \ {0} /\ start + 2 * i <= Len(buf)
        /\ start + 2 * i + 1 \in Nat \ {0} /\ start + 2 * i + 1 <= Len(buf)
    BY <1>1, <1>2, <1>6
  <2> QED
    BY <2>1, <1>2
<1>9. Pairs(long) = Pairs(buf)
  BY <1>8
<1>10. Pairs(buf) \in Seq(Seq(Cell))
  <2>1. \A i \in 1 .. count :
           <<buf[start + 2 * i], buf[start + 2 * i + 1]>> \in Seq(Cell)
    BY <1>8
  <2> QED
    BY <2>1, <1>6, IsASeq
<1>11. ParseContext(q) = Moved(q, Pairs(long))
  BY <1>2, <1>6, <1>7 DEF ParseContext, long, start
<1> HIDE DEF end, Pairs, Moved
<1> QED
  BY <1>3, <1>4, <1>7, <1>9, <1>10, <1>11

LEMMA Sums == \A i, n \in Nat : i + 1 \in Nat \ {0} /\ i + n \in Nat
OBVIOUS

(* What is long enough stays long enough.                                  *)
LEMMA Longer ==
  ASSUME NEW short \in Nat, NEW long \in Nat, NEW n \in Nat,
         long >= short, ~(short < n)
  PROVE  ~(long < n) /\ n <= short
OBVIOUS

LEMMA UserDataExtends ==
  ASSUME NEW p \in ParserState, NEW b \in Seq(Cell),
         p.stage = "user data", ParseUserData(p).stage # "user data"
  PROVE  /\ ParseUserData(Extend(p, b)) = Extend(ParseUserData(p), b)
         /\ ParseUserData(p) \in ParserState
         /\ ParseUserData(p).stage = "check"
<1> DEFINE q     == Extend(p, b)
           start == p.context.end
           end   == start + p.head.size
           first == start + 1
           Moved(r, bytes) == [r EXCEPT !.stage = "check", !.data = bytes]
<1>0. ~(Len(p.buffer) < end)
  BY DEF ParseUserData
<1>1. ParseUserData(p) = Moved(p, SubSeq(p.buffer, first, end))
  BY <1>0 DEF ParseUserData
<1>2. first \in Nat \ {0} /\ end \in Nat
  <2>1. p.context \in Contexts /\ p.head \in Heads
    BY DEF ParserState
  <2>2. p.context.end \in Nat /\ p.head.size \in Nat
    BY <2>1 DEF Contexts, Heads
  <2> QED
    BY <2>2, Sums
<1>3. /\ q.stage = "user data" /\ q.context = p.context /\ q.head = p.head
      /\ Len(p.buffer) \in Nat /\ Len(q.buffer) \in Nat
      /\ Len(q.buffer) >= Len(p.buffer)
      /\ \A m \in Nat \ {0}, n \in Nat : n <= Len(p.buffer) =>
            /\ SubSeq(q.buffer, m, n) = SubSeq(p.buffer, m, n)
            /\ SubSeq(p.buffer, m, n) \in Seq(Cell)
  BY ExtendKeeps
<1>4. \A bytes \in Seq(Cell) : /\ Moved(q, bytes) = Extend(Moved(p, bytes), b)
                               /\ Moved(p, bytes) \in ParserState
                               /\ Moved(p, bytes).stage = "check"
  BY DEF Extend, ParserState, Stages
<1> SUFFICES /\ ParseUserData(q) = Extend(ParseUserData(p), b)
             /\ ParseUserData(p) \in ParserState
             /\ ParseUserData(p).stage = "check"
  OBVIOUS
<1> HIDE DEF q, start, end, first
<1>5. ~(Len(q.buffer) < end) /\ end <= Len(p.buffer)
  BY <1>0, <1>2, <1>3, Longer
<1>6. ParseUserData(q) = Moved(q, SubSeq(q.buffer, first, end))
  BY <1>3, <1>5 DEF ParseUserData, start, end, first
<1>7. /\ SubSeq(q.buffer, first, end) = SubSeq(p.buffer, first, end)
      /\ SubSeq(p.buffer, first, end) \in Seq(Cell)
  BY <1>2, <1>3, <1>5
<1> HIDE DEF Moved
<1> QED
  BY <1>1, <1>4, <1>6, <1>7

-----------------------------------------------------------------------------
(* The stages from one of them on.                                         *)

FromCheck(p)    == ParseCheck(p)
FromUserData(p) == FromCheck(ParseUserData(p))
FromContext(p)  == FromUserData(ParseContext(p))
FromSubHead(p)  == FromContext(ParseSubHead(p))
FromHead(p)     == FromSubHead(ParseHead(p))

Over == {"done", "error"}

(* Every stage leaves a parser alone that is at another stage.             *)
LEMMA StagesIdle ==
  ASSUME NEW p
  PROVE  /\ p.stage # "head" => ParseHead(p) = p
         /\ p.stage # "subhead" => ParseSubHead(p) = p
         /\ p.stage # "context" => ParseContext(p) = p
         /\ p.stage # "user data" => ParseUserData(p) = p
         /\ p.stage # "check" => ParseCheck(p) = p
<1>1. p.stage # "head" => ParseHead(p) = p
  BY DEF ParseHead
<1>2. p.stage # "subhead" => ParseSubHead(p) = p
  BY DEF ParseSubHead
<1>3. p.stage # "context" => ParseContext(p) = p
  BY DEF ParseContext
<1>4. p.stage # "user data" => ParseUserData(p) = p
  BY DEF ParseUserData
<1>5. p.stage # "check" => ParseCheck(p) = p
  BY DEF ParseCheck
<1> QED
  BY <1>1, <1>2, <1>3, <1>4, <1>5

(* A stage that waits has changed nothing.                                 *)
LEMMA StagesWait ==
  ASSUME NEW p \in ParserState
  PROVE  /\ ParseHead(p).stage = "head" => ParseHead(p) = p
         /\ ParseSubHead(p).stage = "subhead" => ParseSubHead(p) = p
         /\ ParseContext(p).stage = "context" => ParseContext(p) = p
         /\ ParseUserData(p).stage = "user data" => ParseUserData(p) = p
         /\ ParseCheck(p).stage = "check" => ParseCheck(p) = p
<1>1. ParseHead(p).stage = "head" => ParseHead(p) = p
  BY DEF ParseHead, Failed, ParserState
<1>2. ParseSubHead(p).stage = "subhead" => ParseSubHead(p) = p
  BY DEF ParseSubHead, Failed, ParserState
<1>3. ParseContext(p).stage = "context" => ParseContext(p) = p
  BY DEF ParseContext, ParserState
<1>4. ParseUserData(p).stage = "user data" => ParseUserData(p) = p
  BY DEF ParseUserData, ParserState
<1>5. ParseCheck(p).stage = "check" => ParseCheck(p) = p
  BY DEF ParseCheck, Failed, ParserState
<1> QED
  BY <1>1, <1>2, <1>3, <1>4, <1>5

(* To go on from a stage, get more bytes and go on is to get them before.  *)
LEMMA CheckResumes ==
  ASSUME NEW p \in ParserState, NEW b \in Seq(Cell),
         p.stage \in {"check"} \union Over, FromCheck(p).stage \notin Over
  PROVE  /\ FromCheck(Extend(FromCheck(p), b)) = FromCheck(Extend(p, b))
         /\ FromCheck(p).stage = "check"
         /\ FromCheck(p) \in ParserState
<1>1. CASE p.stage \in Over
  BY <1>1, StagesIdle DEF FromCheck, Over
<1>2. CASE p.stage = "check"
  <2>1. ParseCheck(p).stage \in {"check"} \union Over
    BY <1>2 DEF ParseCheck, Failed, ParserState, Over
  <2> QED
    BY <1>2, <2>1, StagesWait DEF FromCheck
<1> QED
  BY <1>1, <1>2

LEMMA UserDataResumes ==
  ASSUME NEW p \in ParserState, NEW b \in Seq(Cell),
         p.stage \in {"user data"} \union Over, FromUserData(p).stage \notin Over
  PROVE  /\ FromUserData(Extend(FromUserData(p), b)) = FromUserData(Extend(p, b))
         /\ FromUserData(p).stage \in {"user data", "check"}
         /\ FromUserData(p) \in ParserState
<1> DEFINE r == ParseUserData(p)
<1>1. CASE p.stage \in Over
  BY <1>1, StagesIdle DEF FromUserData, FromCheck, Over
<1>2. CASE p.stage = "user data" /\ r.stage = "user data"
  <2>1. r = p
    BY <1>2, StagesWait
  <2>2. FromUserData(p) = p
    BY <1>2, <2>1, StagesIdle DEF FromUserData, FromCheck
  <2> QED
    BY <1>2, <2>2
<1>3. CASE p.stage = "user data" /\ r.stage # "user data"
  <2>1. /\ ParseUserData(Extend(p, b)) = Extend(r, b)
        /\ r \in ParserState /\ r.stage = "check"
    BY <1>3, UserDataExtends
  <2>2. FromUserData(p) = FromCheck(r)
    BY DEF FromUserData
  <2>3. /\ FromCheck(Extend(FromCheck(r), b)) = FromCheck(Extend(r, b))
        /\ FromCheck(r).stage = "check" /\ FromCheck(r) \in ParserState
    BY <2>1, <2>2, CheckResumes
  <2>4. Extend(FromCheck(r), b).stage = "check"
    BY <2>3, ExtendKeeps
  <2>5. ParseUserData(Extend(FromCheck(r), b)) = Extend(FromCheck(r), b)
    BY <2>4, StagesIdle
  <2> HIDE DEF r
  <2> QED
    BY <2>1, <2>2, <2>3, <2>5 DEF FromUserData
<1> QED
  BY <1>1, <1>2, <1>3 DEF Over

LEMMA ContextResumes ==
  ASSUME NEW p \in ParserState, NEW b \in Seq(Cell),
         p.stage \in {"context"} \union Over, FromContext(p).stage \notin Over
  PROVE  /\ FromContext(Extend(FromContext(p), b)) = FromContext(Extend(p, b))
         /\ FromContext(p).stage \in {"context", "user data", "check"}
         /\ FromContext(p) \in ParserState
<1> DEFINE r == ParseContext(p)
<1>1. CASE p.stage \in Over
  BY <1>1, StagesIdle DEF FromContext, FromUserData, FromCheck, Over
<1>2. CASE p.stage = "context" /\ r.stage = "context"
  <2>1. r = p
    BY <1>2, StagesWait
  <2>2. FromContext(p) = p
    BY <1>2, <2>1, StagesIdle DEF FromContext, FromUserData, FromCheck
  <2> QED
    BY <1>2, <2>2
<1>3. CASE p.stage = "context" /\ r.stage # "context"
  <2>1. /\ ParseContext(Extend(p, b)) = Extend(r, b)
        /\ r \in ParserState /\ r.stage \in {"user data"} \union Over
    BY <1>3, ContextExtends DEF Over
  <2>2. FromContext(p) = FromUserData(r)
    BY DEF FromContext
  <2>3. /\ FromUserData(Extend(FromUserData(r), b)) = FromUserData(Extend(r, b))
        /\ FromUserData(r).stage \in {"user data", "check"}
        /\ FromUserData(r) \in ParserState
    BY <2>1, <2>2, UserDataResumes
  <2>4. Extend(FromUserData(r), b).stage # "context"
    BY <2>3, ExtendKeeps
  <2>5. ParseContext(Extend(FromUserData(r), b)) = Extend(FromUserData(r), b)
    BY <2>4, StagesIdle
  <2> HIDE DEF r
  <2> QED
    BY <2>1, <2>2, <2>3, <2>5 DEF FromContext
<1> QED
  BY <1>1, <1>2, <1>3 DEF Over

LEMMA SubHeadResumes ==
  ASSUME NEW p \in ParserState, NEW b \in Seq(Cell),
         p.stage \in {"subhead"} \union Over, FromSubHead(p).stage \notin Over
  PROVE  /\ FromSubHead(Extend(FromSubHead(p), b)) = FromSubHead(Extend(p, b))
         /\ FromSubHead(p).stage \in {"subhead", "context", "user data", "check"}
         /\ FromSubHead(p) \in ParserState
<1> DEFINE r == ParseSubHead(p)
<1>1. CASE p.stage \in Over
  BY <1>1, StagesIdle DEF FromSubHead, FromContext, FromUserData, FromCheck, Over
<1>2. CASE p.stage = "subhead" /\ r.stage = "subhead"
  <2>1. r = p
    BY <1>2, StagesWait
  <2>2. FromSubHead(p) = p
    BY <1>2, <2>1, StagesIdle DEF FromSubHead, FromContext, FromUserData, FromCheck
  <2> QED
    BY <1>2, <2>2
<1>3. CASE p.stage = "subhead" /\ r.stage # "subhead"
  <2>1. /\ ParseSubHead(Extend(p, b)) = Extend(r, b)
        /\ r \in ParserState /\ r.stage \in {"context"} \union Over
    BY <1>3, SubHeadExtends DEF Over
  <2>2. FromSubHead(p) = FromContext(r)
    BY DEF FromSubHead
  <2>3. /\ FromContext(Extend(FromContext(r), b)) = FromContext(Extend(r, b))
        /\ FromContext(r).stage \in {"context", "user data", "check"}
        /\ FromContext(r) \in ParserState
    BY <2>1, <2>2, ContextResumes
  <2>4. Extend(FromContext(r), b).stage # "subhead"
    BY <2>3, ExtendKeeps
  <2>5. ParseSubHead(Extend(FromContext(r), b)) = Extend(FromContext(r), b)
    BY <2>4, StagesIdle
  <2> HIDE DEF r
  <2> QED
    BY <2>1, <2>2, <2>3, <2>5 DEF FromSubHead
<1> QED
  BY <1>1, <1>2, <1>3 DEF Over

LEMMA HeadResumes ==
  ASSUME NEW p \in ParserState, NEW b \in Seq(Cell),
         p.stage \in {"head"} \union Over, FromHead(p).stage \notin Over
  PROVE  /\ FromHead(Extend(FromHead(p), b)) = FromHead(Extend(p, b))
         /\ FromHead(p).stage \in {"head", "subhead", "context", "user data", "check"}
         /\ FromHead(p) \in ParserState
<1> DEFINE r == ParseHead(p)
<1>1. CASE p.stage \in Over
  BY <1>1, StagesIdle DEF FromHead, FromSubHead, FromContext, FromUserData, FromCheck, Over
<1>2. CASE p.stage = "head" /\ r.stage = "head"
  <2>1. r = p
    BY <1>2, StagesWait
  <2>2. FromHead(p) = p
    BY <1>2, <2>1, StagesIdle DEF FromHead, FromSubHead, FromContext, FromUserData, FromCheck
  <2> QED
    BY <1>2, <2>2
<1>3. CASE p.stage = "head" /\ r.stage # "head"
  <2>1. /\ ParseHead(Extend(p, b)) = Extend(r, b)
        /\ r \in ParserState /\ r.stage \in {"subhead"} \union Over
    BY <1>3, HeadExtends DEF Over
  <2>2. FromHead(p) = FromSubHead(r)
    BY DEF FromHead
  <2>3. /\ FromSubHead(Extend(FromSubHead(r), b)) = FromSubHead(Extend(r, b))
        /\ FromSubHead(r).stage \in {"subhead", "context", "user data", "check"}
        /\ FromSubHead(r) \in ParserState
    BY <2>1, <2>2, SubHeadResumes
  <2>4. Extend(FromSubHead(r), b).stage # "head"
    BY <2>3, ExtendKeeps
  <2>5. ParseHead(Extend(FromSubHead(r), b)) = Extend(FromSubHead(r), b)
    BY <2>4, StagesIdle
  <2> HIDE DEF r
  <2> QED
    BY <2>1, <2>2, <2>3, <2>5 DEF FromHead
<1> QED
  BY <1>1, <1>2, <1>3 DEF Over

-----------------------------------------------------------------------------

LEMMA FeedExtends ==
  ASSUME NEW p \in ParserState, NEW b, p.stage \notin Over
  PROVE  Feed(p, b) = FromHead(Extend(p, b))
BY DEF Feed, TryParse, Extend, Over, FromHead, FromSubHead, FromContext,
       FromUserData, FromCheck

LEMMA NewParserTyped == NewParser \in ParserState /\ NewParser.stage = "head"
<1>1. <<>> \in Seq(Cell) /\ <<>> \in Seq(Seq(Cell))
  BY EmptySeq
<1>2. NoHead \in Heads /\ NoSubHead \in SubHeads /\ NoContext \in Contexts
  BY <1>1 DEF NoHead, NoSubHead, NoContext, Heads, SubHeads, Contexts
<1> QED
  BY <1>1, <1>2 DEF NewParser, ParserState, Stages

(* Fed in two chunks or in one, the parser comes out the same.             *)
LEMMA FeedTwice ==
  ASSUME NEW first \in Seq(Cell), NEW second \in Seq(Cell),
         Feed(NewParser, first).stage \notin Over
  PROVE  Feed(Feed(NewParser, first), second) = Feed(NewParser, first \o second)
<1> DEFINE p == Extend(NewParser, first)
           r == FromHead(p)
<1>1. NewParser \in ParserState /\ NewParser.stage = "head" /\ NewParser.stage \notin Over
  BY NewParserTyped DEF Over
<1>2. p \in ParserState /\ p.stage = "head"
  BY <1>1, ExtendKeeps
<1>3. Feed(NewParser, first) = r
  BY <1>1, FeedExtends
<1>4. FromHead(Extend(r, second)) = FromHead(Extend(p, second)) /\ r \in ParserState
  BY <1>2, <1>3, HeadResumes
<1>5. Feed(r, second) = FromHead(Extend(r, second))
  BY <1>3, <1>4, FeedExtends
<1>6. Extend(p, second) = Extend(NewParser, first \o second)
  <2>1. NewParser.buffer = <<>>
    BY DEF NewParser
  <2>2. (<<>> \o first) \o second = <<>> \o (first \o second)
    BY ConcatAssociative, EmptySeq
  <2> QED
    BY <2>1, <2>2 DEF Extend, NewParser
<1>7. Feed(NewParser, first \o second) = FromHead(Extend(NewParser, first \o second))
  BY <1>1, FeedExtends
<1> QED
  BY <1>3, <1>4, <1>5, <1>6, <1>7

LEMMA FeedNothing == Feed(NewParser, <<>>) = NewParser
<1>1. <<>> \o <<>> = <<>> /\ Len(<<>>) = 0
  BY ConcatEmptySeq, EmptySeq
<1>2. Extend(NewParser, <<>>) = NewParser /\ NewParser.buffer = <<>>
  BY <1>1 DEF Extend, NewParser
<1>3. ParseHead(NewParser) = NewParser
  BY <1>1, <1>2 DEF ParseHead
<1>4. FromHead(NewParser) = NewParser
  BY <1>3, StagesIdle, NewParserTyped
     DEF FromHead, FromSubHead, FromContext, FromUserData, FromCheck
<1> QED
  BY <1>2, <1>4, FeedExtends, NewParserTyped DEF Over

(* What is fed is a byte string.                                           *)
LEMMA ChunksAreCells ==
  ASSUME received \in Seq(Cell), source \in {<<>>} \union {<<m>> : m \in Messages},
         NEW bytes \in IF source = <<>> THEN AnyChunk ELSE ChunkOf(Assemble(source[1]))
  PROVE  bytes \in Seq(Cell)
<1>1. CASE source = <<>>
  <2>1. bytes \in AnyChunk
    BY <1>1
  <2>2. PICK n \in 1 .. MaxChunk : bytes \in [1 .. n -> Cell]
    BY <2>1 DEF AnyChunk
  <2> QED
    BY <2>2, ParserAssumption, IsASeq
<1>2. CASE source # <<>>
  <2>1. PICK m \in Messages : source = <<m>>
    BY <1>2
  <2> DEFINE all == Assemble(m)
  <2>2. all \in Seq(Cell)
    BY ParserAssumption
  <2>3. PICK last \in Len(received) + 1 .. Len(all) :
           bytes = SubSeq(all, Len(received) + 1, last)
    BY <1>2, <2>1 DEF ChunkOf
  <2>4. Len(received) \in Nat /\ Len(all) \in Nat
    BY <2>2, LenProperties
  <2> HIDE DEF all
  <2>5. Len(received) + 1 \in Nat \ {0} /\ last \in Nat /\ last <= Len(all)
    BY <2>3, <2>4
  <2> QED
    BY <2>2, <2>3, <2>5, SliceStays, EmptySeq
<1> QED
  BY <1>1, <1>2

(* The invariant; source is only where the bytes come from.                *)
ChunkingInv ==
    /\ received \in Seq(Cell)
    /\ source \in {<<>>} \union {<<m>> : m \in Messages}
    /\ ChunkingInvisible

LEMMA ChunkingInit == ParserInit => ChunkingInv
BY FeedNothing, EmptySeq DEF ParserInit, ChunkingInv, ChunkingInvisible

LEMMA ChunkingStep == ChunkingInv /\ [ParserNext]_parserVars => ChunkingInv'
<1> SUFFICES ASSUME ChunkingInv, [ParserNext]_parserVars
             PROVE  ChunkingInv'
  OBVIOUS
<1> USE DEF ChunkingInv
<1>1. CASE FeedChunk
  <2>1. PICK bytes \in IF source = <<>> THEN AnyChunk ELSE ChunkOf(Assemble(source[1])) :
           parser' = Feed(parser, bytes) /\ received' = received \o bytes
    BY <1>1 DEF FeedChunk
  <2>2. source' = source /\ parser.stage \notin Over
    BY <1>1 DEF FeedChunk, Over
  <2>3. bytes \in Seq(Cell)
    BY ChunksAreCells
  <2>4. received' \in Seq(Cell)
    BY <2>1, <2>3, ConcatProperties
  <2>5. parser' = Feed(NewParser, received')
    BY <2>1, <2>2, <2>3, FeedTwice DEF ChunkingInvisible
  <2> QED
    BY <2>2, <2>4, <2>5 DEF ChunkingInvisible
<1>2. CASE Reset
  BY <1>2, FeedNothing, EmptySeq DEF Reset, ChunkingInvisible
<1>3. CASE UNCHANGED parserVars
  BY <1>3 DEF parserVars, ChunkingInvisible
<1> QED
  BY <1>1, <1>2, <1>3 DEF ParserNext

(* However a stream is cut into chunks (conn.Read returns what has arrived *)
(* so far), SmpParser.feed leaves the parser where the bytes in one piece  *)
(* would have left it: it never matters where a field is torn apart.       *)
THEOREM ChunksInvisible == ParserSpec => []ChunkingInvisible
<1>1. ChunkingInv => ChunkingInvisible
  BY DEF ChunkingInv
<1> QED
  BY ChunkingInit, ChunkingStep, <1>1, PTL DEF ParserSpec

-----------------------------------------------------------------------------
(* The parser and the assembler.                                           *)

(* s stands in buf behind the first at cells.                              *)
Stands(buf, at, s) ==
    /\ at + Len(s) <= Len(buf)
    /\ \A i \in 1 .. Len(s) : buf[at + i] = s[i]

-----------------------------------------------------------------------------

LEMMA StandsNothing ==
  ASSUME NEW S, NEW buf \in Seq(S), NEW at \in Nat, at <= Len(buf)
  PROVE  Stands(buf, at, <<>>)
BY EmptySeq DEF Stands

(* Two strings stand one behind the other.                                 *)
LEMMA StandsConcat ==
  ASSUME NEW S, NEW buf \in Seq(S), NEW s \in Seq(S), NEW t \in Seq(S), NEW at \in Nat
  PROVE  Stands(buf, at, s \o t) <=> Stands(buf, at, s) /\ Stands(buf, at + Len(s), t)
<1>1. /\ Len(buf) \in Nat /\ Len(s) \in Nat /\ Len(t) \in Nat
      /\ Len(s \o t) = Len(s) + Len(t)
      /\ \A i \in 1 .. Len(s) + Len(t) :
            (s \o t)[i] = IF i <= Len(s) THEN s[i] ELSE t[i - Len(s)]
  BY ConcatProperties
<1>2. \A i \in 1 .. Len(s) : i \in 1 .. Len(s) + Len(t) /\ (s \o t)[i] = s[i]
  BY <1>1
<1>3. \A i \in 1 .. Len(t) : /\ Len(s) + i \in 1 .. Len(s) + Len(t)
                             /\ (s \o t)[Len(s) + i] = t[i]
                             /\ at + (Len(s) + i) = (at + Len(s)) + i
  BY <1>1
<1>4. \A i \in 1 .. Len(s) + Len(t) :
         \/ i \in 1 .. Len(s)
         \/ \E j \in 1 .. Len(t) : i = Len(s) + j
  <2>1. ASSUME NEW i \in 1 .. Len(s) + Len(t), i \notin 1 .. Len(s)
        PROVE  i - Len(s) \in 1 .. Len(t) /\ i = Len(s) + (i - Len(s))
    BY <1>1, <2>1
  <2> QED
    BY <2>1
<1>5. at + (Len(s) + Len(t)) = (at + Len(s)) + Len(t) /\ at + Len(s) <= (at + Len(s)) + Len(t)
  BY <1>1
<1> DEFINE u == s \o t
<1> HIDE DEF u
<1>6. ASSUME Stands(buf, at, u)
      PROVE  Stands(buf, at, s) /\ Stands(buf, at + Len(s), t)
  <2>1. /\ at + (Len(s) + Len(t)) <= Len(buf)
        /\ \A i \in 1 .. Len(s) + Len(t) : buf[at + i] = u[i]
    BY <1>1, <1>6 DEF Stands, u
  <2>2. Stands(buf, at, s)
    <3>1. at + Len(s) <= Len(buf)
      BY <1>1, <2>1
    <3> QED
      BY <1>2, <2>1, <3>1 DEF Stands, u
  <2>3. Stands(buf, at + Len(s), t)
    <3>1. \A i \in 1 .. Len(t) : buf[at + (Len(s) + i)] = t[i]
      BY <1>3, <2>1 DEF u
    <3> QED
      BY <1>3, <1>5, <2>1, <3>1 DEF Stands
  <2> QED
    BY <2>2, <2>3
<1>7. ASSUME Stands(buf, at, s), Stands(buf, at + Len(s), t)
      PROVE  Stands(buf, at, u)
  <2>1. at + Len(u) <= Len(buf)
    BY <1>1, <1>5, <1>7 DEF Stands, u
  <2>2. ASSUME NEW i \in 1 .. Len(s) + Len(t)
        PROVE  buf[at + i] = u[i]
    <3>1. CASE i \in 1 .. Len(s)
      BY <1>2, <1>7, <3>1 DEF Stands, u
    <3>2. CASE \E j \in 1 .. Len(t) : i = Len(s) + j
      BY <1>3, <1>7, <3>2 DEF Stands, u
    <3> QED
      BY <1>4, <3>1, <3>2
  <2> QED
    BY <1>1, <2>1, <2>2 DEF Stands, u
<1> QED
  BY <1>6, <1>7 DEF u

(* What stands somewhere is the slice there.                               *)
LEMMA StandsSlice ==
  ASSUME NEW S, NEW buf \in Seq(S), NEW s \in Seq(S), NEW at \in Nat
  PROVE  Stands(buf, at, s) <=> /\ at + Len(s) <= Len(buf)
                                /\ SubSeq(buf, at + 1, at + Len(s)) = s
<1>1. Len(buf) \in Nat /\ Len(s) \in Nat
  OBVIOUS
<1> SUFFICES ASSUME at + Len(s) <= Len(buf)
             PROVE  (\A i \in 1 .. Len(s) : buf[at + i] = s[i])
                       <=> SubSeq(buf, at + 1, at + Len(s)) = s
  BY DEF Stands
<1> DEFINE u == SubSeq(buf, at + 1, at + Len(s))
<1>2. \A i \in at + 1 .. at + Len(s) : buf[i] \in S
  BY <1>1
<1>3. /\ u \in Seq(S)
      /\ Len(u) = IF at + 1 <= at + Len(s) THEN at + Len(s) - (at + 1) + 1 ELSE 0
      /\ \A i \in 1 .. at + Len(s) - (at + 1) + 1 : u[i] = buf[at + 1 + i - 1]
  BY <1>1, <1>2, SubSeqProperties
<1> HIDE DEF u
<1>4. Len(u) = Len(s) /\ \A i \in 1 .. Len(s) : u[i] = buf[at + i]
  BY <1>1, <1>3
<1>5. ASSUME \A i \in 1 .. Len(s) : buf[at + i] = s[i]
      PROVE  u = s
  BY <1>3, <1>4, <1>5, SeqEqual
<1> QED
  BY <1>4, <1>5 DEF u

LEMMA StandsOne ==
  ASSUME NEW buf \in Seq(Cell), NEW c, NEW at \in Nat
  PROVE  Stands(buf, at, <<c>>) <=> at + 1 <= Len(buf) /\ buf[at + 1] = c
BY Len(<<c>>) = 1, <<c>>[1] = c DEF Stands

(* A prefix stands at the beginning.                                       *)
LEMMA StandsFirst ==
  ASSUME NEW S, NEW buf \in Seq(S), NEW s \in Seq(S)
  PROVE  IsPrefix(s, buf) <=> Stands(buf, 0, s)
<1>1. 0 + 1 = 1 /\ 0 + Len(s) = Len(s) /\ SubSeq(s, 1, Len(s)) = s
  BY SubSeqFull
<1> QED
  BY <1>1, StandsSlice DEF IsPrefix

LEMMA SmallRemainder ==
  ASSUME NEW n \in Nat, NEW c \in Nat, n <= c
  PROVE  n % (c + 1) = n /\ n \in 0 .. c
OBVIOUS

(* What the assembler writes for a text is what the parser reads as one.   *)
LEMMA StandsText ==
  ASSUME NEW buf \in Seq(Cell), NEW text \in Seq(Cell), Len(text) <= CellMax, NEW at \in Nat
  PROVE  /\ Sized(text) \in Seq(Cell) /\ Len(Sized(text)) = Len(text) + 1
         /\ Stands(buf, at, Sized(text)) <=>
               /\ HasText(buf, at) /\ Text(buf, at) = text
               /\ TextEnd(buf, at) = at + 1 + Len(text)
<1>1. Len(text) \in Nat /\ Len(buf) \in Nat
  OBVIOUS
<1>2. Length(text) = Len(text) /\ Len(text) \in Cell
  <2>1. Len(text) \in Nat /\ CellMax \in Nat
    BY WireAssumption
  <2> QED
    BY <2>1, SmallRemainder DEF Length, Cell
<1>3. <<Len(text)>> \in Seq(Cell) /\ Len(<<Len(text)>>) = 1
  BY <1>2
<1>4. Sized(text) = <<Len(text)>> \o text
  BY <1>2 DEF Sized
<1>5. Sized(text) \in Seq(Cell) /\ Len(Sized(text)) = Len(text) + 1
  BY <1>1, <1>3, <1>4, ConcatProperties
<1>6. Stands(buf, at, Sized(text)) <=>
         /\ at + 1 <= Len(buf) /\ buf[at + 1] = Len(text)
         /\ Stands(buf, at + 1, text)
  <2>1. Stands(buf, at, Sized(text)) <=>
           Stands(buf, at, <<Len(text)>>) /\ Stands(buf, at + Len(<<Len(text)>>), text)
    <3> DEFINE size == <<Len(text)>>
    <3>1. size \in Seq(Cell) /\ Sized(text) = size \o text
      BY <1>3, <1>4
    <3> HIDE DEF size
    <3>2. Stands(buf, at, size \o text) <=>
             Stands(buf, at, size) /\ Stands(buf, at + Len(size), text)
      BY <3>1, StandsConcat
    <3> QED
      BY <3>1, <3>2 DEF size
  <2>2. Stands(buf, at, <<Len(text)>>) <=> at + 1 <= Len(buf) /\ buf[at + 1] = Len(text)
    BY StandsOne
  <2> QED
    BY <1>3, <2>1, <2>2
<1>7. Stands(buf, at + 1, text) <=> /\ at + 1 + Len(text) <= Len(buf)
                                    /\ SubSeq(buf, at + 1 + 1, at + 1 + Len(text)) = text
  BY StandsSlice, at + 1 \in Nat
<1>8. at + 1 + 1 = at + 2
  OBVIOUS
<1>9. ASSUME Stands(buf, at, Sized(text))
      PROVE  /\ HasText(buf, at) /\ Text(buf, at) = text
             /\ TextEnd(buf, at) = at + 1 + Len(text)
  <2>1. TextEnd(buf, at) = at + 1 + Len(text)
    BY <1>6, <1>9 DEF TextEnd
  <2>2. Len(buf) > at /\ Len(buf) >= at + 1 + Len(text)
    BY <1>1, <1>6, <1>7, <1>9
  <2>3. SubSeq(buf, at + 2, at + 1 + Len(text)) = text
    BY <1>6, <1>7, <1>8, <1>9
  <2> QED
    BY <2>1, <2>2, <2>3 DEF HasText, Text
<1>10. ASSUME HasText(buf, at), Text(buf, at) = text, TextEnd(buf, at) = at + 1 + Len(text)
       PROVE  Stands(buf, at, Sized(text))
  <2>1. Len(buf) > at /\ Len(buf) >= at + 1 + Len(text)
    BY <1>10 DEF HasText
  <2>2. at + 1 \in 1 .. Len(buf)
    BY <1>1, <2>1
  <2>3. buf[at + 1] \in Nat
    BY <2>2, WireAssumption, ElementOfSeq DEF Cell
  <2>4. buf[at + 1] = Len(text)
    BY <1>1, <1>10, <2>3 DEF TextEnd
  <2>5. SubSeq(buf, at + 1 + 1, at + 1 + Len(text)) = text
    BY <1>8, <1>10 DEF Text
  <2> QED
    BY <1>1, <1>6, <1>7, <2>1, <2>2, <2>4, <2>5
<1> QED
  BY <1>5, <1>9, <1>10

(* A sequence of pairs, written one after the other.                       *)
Pairs == {pairs \in Seq(Seq(Cell)) : \A i \in 1 .. Len(pairs) : Len(pairs[i]) = 2}

LEMMA StandsPairs ==
  ASSUME NEW buf \in Seq(Cell), NEW pairs \in Pairs, NEW at \in Nat, at <= Len(buf)
  PROVE  /\ FlattenSeq(pairs) \in Seq(Cell)
         /\ Len(FlattenSeq(pairs)) = 2 * Len(pairs)
         /\ Stands(buf, at, FlattenSeq(pairs)) <=>
               /\ at + 2 * Len(pairs) <= Len(buf)
               /\ \A i \in 1 .. Len(pairs) : /\ buf[at + 2 * i - 1] = pairs[i][1]
                                             /\ buf[at + 2 * i] = pairs[i][2]
<1>1. /\ Len(pairs) \in Nat /\ Len(buf) \in Nat
      /\ \A i \in 1 .. Len(pairs) : pairs[i] \in Seq(Cell) /\ Len(pairs[i]) = 2
  BY DEF Pairs
<1>2. CASE pairs = <<>>
  <2>1. FlattenSeq(pairs) = <<>> /\ Len(pairs) = 0
    BY <1>2, EmptySeq DEF FlattenSeq
  <2> QED
    BY <1>1, <2>1, EmptySeq, StandsNothing
<1>3. CASE pairs # <<>>
  <2>1. Len(pairs) \in Nat \ {0}
    BY <1>3, EmptySeq DEF Pairs
  <2>2. PICK f : /\ f[1] = pairs[1]
                 /\ \A i \in 1 .. Len(pairs) - 1 : f[i + 1] = f[i] \o pairs[i + 1]
                 /\ \A i \in 1 .. Len(pairs) : f[i] \in Seq(Cell)
                 /\ FlattenSeq(pairs) = f[Len(pairs)]
    BY <1>3, FlattenParts DEF Pairs
  <2> DEFINE Found(i) == /\ buf[at + 2 * i - 1] = pairs[i][1]
                         /\ buf[at + 2 * i] = pairs[i][2]
             T == {i \in 0 .. Len(pairs) : i # 0 =>
                     /\ Len(f[i]) = 2 * i
                     /\ Stands(buf, at, f[i]) <=> /\ at + 2 * i <= Len(buf)
                                                 /\ \A j \in 1 .. i : Found(j)}
  <2>3. ASSUME NEW i \in 0 .. Len(pairs) - 1
        PROVE  Stands(buf, at + 2 * i, pairs[i + 1]) <=>
                  at + 2 * (i + 1) <= Len(buf) /\ Found(i + 1)
    <3>1. i + 1 \in 1 .. Len(pairs)
      BY <1>1
    <3>2. Len(pairs[i + 1]) = 2
      BY <1>1, <3>1
    <3>3. /\ (at + 2 * i) + 2 = at + 2 * (i + 1)
          /\ (at + 2 * i) + 1 = at + 2 * (i + 1) - 1
          /\ \A k \in 1 .. 2 : k = 1 \/ k = 2
      OBVIOUS
    <3> QED
      BY <3>2, <3>3 DEF Stands
  <2>4. ASSUME NEW i \in 0 .. Len(pairs) - 1, i \in T
        PROVE  i + 1 \in T
    <3>1. /\ i + 1 \in 0 .. Len(pairs) /\ i + 1 # 0 /\ i + 1 \in 1 .. Len(pairs)
          /\ 2 * (i + 1) = 2 * i + 2 /\ at + 2 * i <= at + 2 * (i + 1)
          /\ \A j \in 1 .. i + 1 : j \in 1 .. i \/ j = i + 1
          /\ \A j \in 1 .. i : j \in 1 .. i + 1
          /\ i + 1 \in 1 .. i + 1
      BY <1>1
    <3> DEFINE Done == /\ Len(f[i + 1]) = 2 * (i + 1)
                       /\ Stands(buf, at, f[i + 1]) <=> /\ at + 2 * (i + 1) <= Len(buf)
                                                       /\ \A j \in 1 .. i + 1 : Found(j)
    <3>2. CASE i = 0
      <4> HIDE DEF Found
      <4>1. f[i + 1] = pairs[i + 1] /\ at + 2 * i = at
        BY <2>2, <3>2
      <4>2. \A j \in 1 .. i + 1 : j = i + 1
        BY <3>2
      <4>3. Done
        <5>1. Len(f[i + 1]) = 2 * (i + 1)
          BY <1>1, <3>1, <3>2, <4>1
        <5>2. (\A j \in 1 .. i + 1 : Found(j)) <=> Found(i + 1)
          BY <3>1, <4>2
        <5>3. Stands(buf, at, f[i + 1]) <=> at + 2 * (i + 1) <= Len(buf) /\ Found(i + 1)
          BY <2>3, <4>1
        <5> QED
          BY <5>1, <5>2, <5>3
      <4> QED
        BY <3>1, <4>3
    <3>3. CASE i # 0
      <4>1. i \in 1 .. Len(pairs) - 1 /\ i \in 1 .. Len(pairs)
        BY <1>1, <3>3
      <4>2. /\ f[i] \in Seq(Cell) /\ f[i + 1] = f[i] \o pairs[i + 1]
            /\ pairs[i + 1] \in Seq(Cell) /\ Len(pairs[i + 1]) = 2
        BY <1>1, <2>2, <3>1, <4>1
      <4>3. Len(f[i]) = 2 * i
        BY <2>4, <3>3
      <4>4. Stands(buf, at, f[i]) <=> at + 2 * i <= Len(buf) /\ \A j \in 1 .. i : Found(j)
        BY <2>4, <3>3
      <4>5. Stands(buf, at, f[i + 1]) <=>
               Stands(buf, at, f[i]) /\ Stands(buf, at + 2 * i, pairs[i + 1])
        BY <4>2, <4>3, StandsConcat, SMTT(30)
      <4>6. Len(f[i + 1]) = 2 * (i + 1)
        <5>1. \A u, v \in Seq(Cell) : Len(u \o v) = Len(u) + Len(v)
          BY ConcatProperties
        <5>2. Len(f[i + 1]) = Len(f[i]) + Len(pairs[i + 1])
          BY <4>2, <5>1
        <5> QED
          BY <3>1, <4>2, <4>3, <5>2
      <4> HIDE DEF Found
      <4>7. (\A j \in 1 .. i + 1 : Found(j)) <=> (\A j \in 1 .. i : Found(j)) /\ Found(i + 1)
        BY <3>1
      <4>8. at + 2 * (i + 1) <= Len(buf) => at + 2 * i <= Len(buf)
        BY <1>1, <3>1
      <4>9. Done
        BY <2>3, <4>4, <4>5, <4>6, <4>7, <4>8
      <4> QED
        BY <3>1, <4>9
    <3> QED
      BY <3>2, <3>3
  <2>5. 0 \in T
    BY <1>1
  <2>6. \A i \in 0 .. Len(pairs) : i \in T
    <3> HIDE DEF T
    <3> QED
      BY <1>1, <2>4, <2>5, UpTo
  <2>7. Len(pairs) \in T /\ Len(pairs) \in 1 .. Len(pairs)
    <3> HIDE DEF T
    <3> QED
      BY <2>1, <2>6
  <2> QED
    BY <2>1, <2>2, <2>7
<1> QED
  BY <1>2, <1>3

-----------------------------------------------------------------------------
(* The blocks of a message as the parser reads them in a buffer.           *)

Reads(buf, at, text) ==
    HasText(buf, at) /\ Text(buf, at) = text /\ TextEnd(buf, at) = at + 1 + Len(text)

HeadBlock(buf, tail, size, id) ==
    /\ Reads(buf, 0, tail)
    /\ Len(tail) + 3 <= Len(buf)
    /\ buf[Len(tail) + 2] = size
    /\ buf[Len(tail) + 3] = id

SubHeadBlock(buf, at, addr, route, extensions) ==
    LET a == at + 1 + Len(Version)
        r == a + 1 + Len(addr)
        e == r + 1 + Len(route)
    IN  Reads(buf, at, Version) /\ Reads(buf, a, addr) /\ Reads(buf, r, route)
        /\ Reads(buf, e, extensions)

SubHeadLength(addr, route, extensions) ==
    4 + Len(Version) + Len(addr) + Len(route) + Len(extensions)

ContextBlock(buf, at, pairs) ==
    /\ at + 1 + 2 * Len(pairs) <= Len(buf)
    /\ buf[at + 1] = Len(pairs)
    /\ \A i \in 1 .. Len(pairs) : buf[at + 2 * i] = pairs[i][1] /\ buf[at + 2 * i + 1] = pairs[i][2]

DataBlock(buf, at, data) ==
    /\ at + Len(data) <= Len(buf)
    /\ SubSeq(buf, at + 1, at + Len(data)) = data

(* What the stages before the parser's own have found.  After an error any *)
(* of them may have been left out.                                         *)
HeadFound(p) ==
    \/ p.stage \in {"head", "error"} /\ p.head = NoHead
    \/ /\ p.stage # "head"
       /\ HeadBlock(p.buffer, p.head.tail, p.head.size, p.head.id)
       /\ p.head.end = Len(p.head.tail) + 3
       /\ p.head.tail # <<>> /\ Len(p.head.tail) <= TailMax
       /\ p.head.size \in 0 .. DataMax

SubHeadFound(p) ==
    \/ p.stage \in {"head", "subhead", "error"} /\ p.subhead = NoSubHead
    \/ /\ p.stage \notin {"head", "subhead"}
       /\ SubHeadBlock(p.buffer, p.head.end, p.subhead.addr, p.subhead.route,
                       p.subhead.extensions)
       /\ p.subhead.end = p.head.end
              + SubHeadLength(p.subhead.addr, p.subhead.route, p.subhead.extensions)
       /\ p.subhead.end <= Len(p.buffer)
       /\ p.subhead.route # <<>>

ContextFound(p) ==
    \/ p.stage \in {"head", "subhead", "context", "error"} /\ p.context = NoContext
    \/ /\ p.stage \notin {"head", "subhead", "context"}
       /\ p.context.pairs \in Pairs /\ Len(p.context.pairs) \in Cell
       /\ ContextBlock(p.buffer, p.subhead.end, p.context.pairs)
       /\ p.context.end = p.subhead.end + 1 + 2 * Len(p.context.pairs)

DataFound(p) ==
    p.stage \in {"check", "done"} =>
        DataBlock(p.buffer, p.context.end, p.data) /\ Len(p.data) = p.head.size

CheckFound(p) ==
    LET end == p.context.end + p.head.size
    IN  p.stage = "done" => /\ Len(p.buffer) > end
                            /\ p.buffer[end + 1] = Digest(SubSeq(p.buffer, 1, end))

Found(p) ==
    /\ p \in ParserState
    /\ HeadFound(p) /\ SubHeadFound(p) /\ ContextFound(p) /\ DataFound(p) /\ CheckFound(p)

-----------------------------------------------------------------------------

(* A slice of the buffer as long as it says it is.                         *)
LEMMA SliceLength ==
  ASSUME NEW buf \in Seq(Cell), NEW m \in Nat, NEW n \in Nat, m + n <= Len(buf)
  PROVE  SubSeq(buf, m + 1, m + n) \in Seq(Cell) /\ Len(SubSeq(buf, m + 1, m + n)) = n
<1>1. Len(buf) \in Nat
  OBVIOUS
<1>2. \A i \in m + 1 .. m + n : buf[i] \in Cell
  BY <1>1
<1>3. /\ SubSeq(buf, m + 1, m + n) \in Seq(Cell)
      /\ Len(SubSeq(buf, m + 1, m + n))
           = IF m + 1 <= m + n THEN m + n - (m + 1) + 1 ELSE 0
  BY <1>2, SubSeqProperties
<1> QED
  BY <1>3

(* A text in the buffer is as long as the length in front of it says.      *)
LEMMA ReadsText ==
  ASSUME NEW buf \in Seq(Cell), NEW at \in Nat, HasText(buf, at)
  PROVE  /\ Text(buf, at) \in Seq(Cell)
         /\ Reads(buf, at, Text(buf, at))
         /\ Len(Text(buf, at)) = buf[at + 1] /\ buf[at + 1] \in Cell
         /\ TextEnd(buf, at) \in Nat /\ TextEnd(buf, at) <= Len(buf)
<1>1. Len(buf) \in Nat /\ Len(buf) > at /\ Len(buf) >= TextEnd(buf, at)
  BY DEF HasText
<1>2. at + 1 \in 1 .. Len(buf)
  BY <1>1
<1>3. buf[at + 1] \in Cell /\ buf[at + 1] \in Nat
  BY <1>2, ElementOfSeq, WireAssumption DEF Cell
<1> DEFINE n == buf[at + 1]
<1>4. TextEnd(buf, at) = (at + 1) + n
  BY DEF TextEnd
<1>5. Text(buf, at) = SubSeq(buf, (at + 1) + 1, (at + 1) + n)
  BY <1>4, (at + 1) + 1 = at + 2 DEF Text
<1> HIDE DEF n
<1>6. (at + 1) + n <= Len(buf) /\ at + 1 \in Nat /\ n \in Nat /\ n \in Cell
  BY <1>1, <1>3, <1>4 DEF n
<1>7. Text(buf, at) \in Seq(Cell) /\ Len(Text(buf, at)) = n
  BY <1>5, <1>6, SliceLength
<1>8. TextEnd(buf, at) \in Nat /\ TextEnd(buf, at) = at + 1 + Len(Text(buf, at))
  BY <1>4, <1>6, <1>7
<1> QED
  BY <1>1, <1>6, <1>7, <1>8 DEF n, Reads

(* The head found by ParseHead.                                            *)
LEMMA HeadFinds ==
  ASSUME NEW p, Found(p)
  PROVE  Found(ParseHead(p)) /\ ParseHead(p).buffer = p.buffer
<1> DEFINE r   == ParseHead(p)
           buf == p.buffer
           end == buf[1] + 3
<1>0. p \in ParserState
  BY DEF Found
<1>1. CASE r.stage = "head" \/ p.stage # "head"
  BY <1>0, <1>1, StagesIdle, StagesWait
<1>2. CASE p.stage = "head" /\ r.stage # "head"
  <2>1. r \in ParserState /\ buf \in Seq(Cell)
    BY <1>0, <1>2, EmptySeq, HeadExtends DEF ParserState
  <2>2. p.head = NoHead /\ p.subhead = NoSubHead /\ p.context = NoContext
    BY <1>2 DEF Found, HeadFound, SubHeadFound, ContextFound
  <2>3. ASSUME NEW code \in Int, r = Failed(p, code)
        PROVE  Found(r) /\ r.buffer = buf
    <3>1. /\ r.stage = "error" /\ r.buffer = buf /\ r.head = NoHead
          /\ r.subhead = NoSubHead /\ r.context = NoContext
      BY <1>0, <2>2, <2>3 DEF Failed, ParserState
    <3> HIDE DEF r
    <3> QED
      BY <2>1, <3>1 DEF Found, HeadFound, SubHeadFound, ContextFound, DataFound, CheckFound
  <2>4. ASSUME ~\E code \in Int : r = Failed(p, code)
        PROVE  Found(r) /\ r.buffer = buf
    <3>1. /\ ~(Len(buf) < 1) /\ buf[1] # 0 /\ ~(buf[1] > TailMax) /\ ~(Len(buf) < end)
          /\ ~(buf[end - 1] > DataMax) /\ buf[end] # 0
          /\ r = [p EXCEPT !.stage = "subhead",
                           !.head = [tail |-> SubSeq(buf, 2, 1 + buf[1]),
                                     size |-> buf[end - 1], id |-> buf[end], end |-> end]]
      BY <1>2, <2>4 DEF ParseHead
    <3>2. /\ Len(buf) \in Nat /\ \A i \in 1 .. Len(buf) : buf[i] \in Cell /\ buf[i] \in Nat
      BY <2>1, WireAssumption DEF Cell
    <3>3. buf[1] \in Nat /\ end \in Nat
      BY <3>1, <3>2
    <3>4. end - 1 \in 1 .. Len(buf) /\ end \in 1 .. Len(buf) /\ end - 1 = buf[1] + 2
      BY <3>1, <3>2, <3>3
    <3>5. HasText(buf, 0) /\ Text(buf, 0) = SubSeq(buf, 2, 1 + buf[1])
      <4>1. TextEnd(buf, 0) = 1 + buf[1]
        BY <3>3 DEF TextEnd
      <4> QED
        BY <3>1, <3>2, <3>3, <3>4, <4>1, SMTT(30) DEF HasText, Text
    <3> DEFINE tail == Text(buf, 0)
    <3>6. Reads(buf, 0, tail) /\ Len(tail) = buf[1] /\ tail \in Seq(Cell)
      BY <2>1, <3>5, ReadsText
    <3>7. /\ r.stage = "subhead" /\ r.buffer = buf
          /\ r.subhead = NoSubHead /\ r.context = NoContext
          /\ r.head.tail = tail /\ r.head.size = buf[end - 1]
          /\ r.head.id = buf[end] /\ r.head.end = end
      <4> DEFINE block == [tail |-> tail, size |-> buf[end - 1], id |-> buf[end], end |-> end]
      <4>1. r = [p EXCEPT !.stage = "subhead", !.head = block]
        BY <3>1, <3>5
      <4>2. /\ block.tail = tail /\ block.size = buf[end - 1]
            /\ block.id = buf[end] /\ block.end = end
        OBVIOUS
      <4> HIDE DEF block, r, tail, end
      <4>3. /\ r.stage = "subhead" /\ r.buffer = p.buffer /\ r.head = block
            /\ r.subhead = p.subhead /\ r.context = p.context
        BY <1>0, <4>1 DEF ParserState
      <4> QED
        BY <2>2, <4>2, <4>3
    <3>8. tail # <<>> /\ Len(tail) <= TailMax
      <4> DEFINE l == buf[1]
      <4>1. l \in Nat /\ l # 0 /\ ~(l > TailMax) /\ Len(tail) = l
        BY <3>1, <3>3, <3>6
      <4> HIDE DEF l, tail
      <4>2. l <= TailMax
        BY <4>1, WireAssumption
      <4> QED
        BY <4>1, <4>2, EmptySeq
    <3>9. buf[end - 1] \in 0 .. DataMax
      BY <3>1, <3>2, <3>4, WireAssumption, SMTT(30)
    <3>10. HeadBlock(buf, tail, buf[end - 1], buf[end]) /\ end = Len(tail) + 3
      BY <3>4, <3>6, <3>3, <3>1 DEF HeadBlock
    <3> HIDE DEF r, tail, end, buf
    <3>11. HeadFound(r)
      BY <3>7, <3>8, <3>9, <3>10 DEF HeadFound
    <3> QED
      BY <2>1, <3>7, <3>11 DEF Found, SubHeadFound, ContextFound, DataFound, CheckFound
  <2> QED
    BY <2>3, <2>4
<1> QED
  BY <1>1, <1>2

(* The sub-head found by ParseSubHead.                                     *)
LEMMA SubHeadFinds ==
  ASSUME NEW p, Found(p)
  PROVE  Found(ParseSubHead(p)) /\ ParseSubHead(p).buffer = p.buffer
<1> DEFINE r     == ParseSubHead(p)
           buf   == p.buffer
           start == p.head.end
           addr  == TextEnd(buf, start)
           route == TextEnd(buf, addr)
           ext   == TextEnd(buf, route)
           end   == TextEnd(buf, ext)
<1>0. p \in ParserState
  BY DEF Found
<1>1. CASE r.stage = "subhead" \/ p.stage # "subhead"
  BY <1>0, <1>1, StagesIdle, StagesWait
<1>2. CASE p.stage = "subhead" /\ r.stage # "subhead"
  <2>1. r \in ParserState /\ buf \in Seq(Cell) /\ start \in Nat
    BY <1>0, <1>2, EmptySeq, SubHeadExtends DEF ParserState, Heads
  <2>2. /\ p.subhead = NoSubHead /\ p.context = NoContext
        /\ HeadBlock(buf, p.head.tail, p.head.size, p.head.id)
        /\ p.head.end = Len(p.head.tail) + 3
        /\ p.head.tail # <<>> /\ Len(p.head.tail) <= TailMax
        /\ p.head.size \in 0 .. DataMax
    BY <1>2 DEF Found, HeadFound, SubHeadFound, ContextFound
  <2>3. ASSUME NEW code \in Int, r = Failed(p, code)
        PROVE  Found(r) /\ r.buffer = buf
    <3>1. /\ r.stage = "error" /\ r.buffer = buf /\ r.head = p.head
          /\ r.subhead = NoSubHead /\ r.context = NoContext
      BY <1>0, <2>2, <2>3 DEF Failed, ParserState
    <3> HIDE DEF r, buf
    <3> QED
      BY <2>1, <2>2, <3>1 DEF Found, HeadFound, SubHeadFound, ContextFound, DataFound, CheckFound
  <2>4. ASSUME ~\E code \in Int : r = Failed(p, code)
        PROVE  Found(r) /\ r.buffer = buf
    <3> DEFINE block == [addr |-> Text(buf, addr), route |-> Text(buf, route),
                         extensions |-> Text(buf, ext), end |-> end]
    <3>1. /\ HasText(buf, start) /\ HasText(buf, addr)
          /\ HasText(buf, route) /\ HasText(buf, ext)
          /\ Text(buf, start) = Version /\ Text(buf, route) # <<>>
          /\ r = [p EXCEPT !.stage = "context", !.subhead = block]
      BY <1>2, <2>4 DEF ParseSubHead
    <3>2. /\ block.addr = Text(buf, addr) /\ block.route = Text(buf, route)
          /\ block.extensions = Text(buf, ext) /\ block.end = end
      OBVIOUS
    <3> HIDE DEF block
    <3>3. /\ r.stage = "context" /\ r.buffer = p.buffer /\ r.head = p.head
          /\ r.subhead = block /\ r.context = p.context
      <4> HIDE DEF r, buf
      <4> QED
        BY <1>0, <3>1 DEF ParserState
    <3> HIDE DEF r, buf, start, addr, route, ext, end
    <3>4. Reads(buf, start, Version) /\ addr \in Nat /\ addr = start + 1 + Len(Version)
      BY <2>1, <3>1, ReadsText DEF addr, Reads
    <3>5. /\ Reads(buf, addr, Text(buf, addr)) /\ Text(buf, addr) \in Seq(Cell)
          /\ route \in Nat /\ route = addr + 1 + Len(Text(buf, addr))
      BY <2>1, <3>1, <3>4, ReadsText DEF route, Reads
    <3>6. /\ Reads(buf, route, Text(buf, route)) /\ Text(buf, route) \in Seq(Cell)
          /\ ext \in Nat /\ ext = route + 1 + Len(Text(buf, route))
      BY <2>1, <3>1, <3>5, ReadsText DEF ext, Reads
    <3>7. /\ Reads(buf, ext, Text(buf, ext)) /\ Text(buf, ext) \in Seq(Cell)
          /\ end \in Nat /\ end <= Len(buf) /\ end = ext + 1 + Len(Text(buf, ext))
      BY <2>1, <3>1, <3>6, ReadsText DEF end, Reads
    <3>8. SubHeadBlock(buf, start, block.addr, block.route, block.extensions)
      BY <3>2, <3>4, <3>5, <3>6, <3>7 DEF SubHeadBlock
    <3>9. end = start + SubHeadLength(block.addr, block.route, block.extensions)
      <4>1. /\ Len(Version) \in Nat /\ Len(Text(buf, addr)) \in Nat
            /\ Len(Text(buf, route)) \in Nat /\ Len(Text(buf, ext)) \in Nat
        <5>1. \A u \in Seq(Cell) : Len(u) \in Nat
          OBVIOUS
        <5> QED
          BY <3>5, <3>6, <3>7, <5>1, WireAssumption
      <4> QED
        BY <2>1, <3>2, <3>4, <3>5, <3>6, <3>7, <4>1 DEF SubHeadLength
    <3>10. HeadFound(r)
      BY <2>2, <3>3 DEF HeadFound, buf
    <3>11. SubHeadFound(r)
      BY <3>1, <3>2, <3>3, <3>7, <3>8, <3>9 DEF SubHeadFound, buf, start
    <3> QED
      BY <2>1, <2>2, <3>3, <3>10, <3>11 DEF Found, ContextFound, DataFound, CheckFound, buf
  <2> QED
    BY <2>3, <2>4
<1> QED
  BY <1>1, <1>2

(* The context found by ParseContext.                                      *)
LEMMA ContextFinds ==
  ASSUME NEW p, Found(p)
  PROVE  Found(ParseContext(p)) /\ ParseContext(p).buffer = p.buffer
<1> DEFINE r     == ParseContext(p)
           buf   == p.buffer
           start == p.subhead.end
           count == buf[start + 1]
           end   == start + 1 + 2 * count
           pairs == [i \in 1 .. count |-> <<buf[start + 2 * i], buf[start + 2 * i + 1]>>]
           block == [end |-> end, pairs |-> pairs]
<1>0. p \in ParserState
  BY DEF Found
<1>1. CASE r.stage = "context" \/ p.stage # "context"
  BY <1>0, <1>1, StagesIdle, StagesWait
<1>2. CASE p.stage = "context" /\ r.stage # "context"
  <2>1. r \in ParserState /\ buf \in Seq(Cell) /\ start \in Nat
    BY <1>0, <1>2, EmptySeq, ContextExtends DEF ParserState, SubHeads
  <2>2. /\ ~(Len(buf) <= start) /\ ~(Len(buf) < end)
        /\ r = [p EXCEPT !.stage = "user data", !.context = block]
    BY <1>2 DEF ParseContext
  <2>3. block.end = end /\ block.pairs = pairs
    OBVIOUS
  <2> HIDE DEF block
  <2>4. /\ r.stage = "user data" /\ r.buffer = p.buffer /\ r.head = p.head
        /\ r.subhead = p.subhead /\ r.context = block
    <3> HIDE DEF r, buf
    <3> QED
      BY <1>0, <2>2 DEF ParserState
  <2> HIDE DEF r, buf, start
  <2>5. Len(buf) \in Nat /\ \A i \in 1 .. Len(buf) : buf[i] \in Cell /\ buf[i] \in Nat
    BY <2>1, WireAssumption DEF Cell
  <2>6. start + 1 \in 1 .. Len(buf)
    BY <2>1, <2>2, <2>5
  <2>7. count \in Cell /\ count \in Nat
    BY <2>5, <2>6
  <2> HIDE DEF count
  <2>8. end \in Nat /\ end <= Len(buf)
    BY <2>1, <2>2, <2>5, <2>7
  <2>9. \A i \in 1 .. count : /\ buf[start + 2 * i] \in Cell
                              /\ buf[start + 2 * i + 1] \in Cell
    <3>1. ASSUME NEW i \in 1 .. count
          PROVE  start + 2 * i \in 1 .. Len(buf) /\ start + 2 * i + 1 \in 1 .. Len(buf)
      BY <2>1, <2>5, <2>7, <2>8
    <3> QED
      BY <2>5, <3>1
  <2>10. /\ pairs \in Seq(Seq(Cell)) /\ Len(pairs) = count
         /\ \A i \in 1 .. Len(pairs) :
               /\ Len(pairs[i]) = 2
               /\ pairs[i][1] = buf[start + 2 * i] /\ pairs[i][2] = buf[start + 2 * i + 1]
    <3>1. \A i \in 1 .. count :
             <<buf[start + 2 * i], buf[start + 2 * i + 1]>> \in Seq(Cell)
      BY <2>9
    <3>2. pairs \in Seq(Seq(Cell))
      BY <2>7, <3>1, IsASeq
    <3>3. Len(pairs) = count
      BY <2>7
    <3> QED
      BY <3>2, <3>3
  <2> HIDE DEF pairs
  <2>11. pairs \in Pairs /\ Len(pairs) \in Cell
    BY <2>7, <2>10 DEF Pairs
  <2>12. ContextBlock(buf, start, pairs)
    BY <2>8, <2>10 DEF ContextBlock, count
  <2>13. HeadFound(r) /\ SubHeadFound(r)
    BY <1>2, <2>4 DEF Found, HeadFound, SubHeadFound
  <2>14. ContextFound(r)
    BY <2>3, <2>4, <2>10, <2>11, <2>12 DEF ContextFound, buf, start
  <2>15. Found(r) /\ r.buffer = p.buffer
    BY <2>1, <2>4, <2>13, <2>14 DEF Found, DataFound, CheckFound
  <2> QED
    BY <2>15 DEF r
<1> QED
  BY <1>1, <1>2

(* The user data found by ParseUserData.                                   *)
LEMMA UserDataFinds ==
  ASSUME NEW p, Found(p)
  PROVE  Found(ParseUserData(p)) /\ ParseUserData(p).buffer = p.buffer
<1> DEFINE r     == ParseUserData(p)
           buf   == p.buffer
           start == p.context.end
           size  == p.head.size
           data  == SubSeq(buf, start + 1, start + size)
<1>0. p \in ParserState
  BY DEF Found
<1>1. CASE r.stage = "user data" \/ p.stage # "user data"
  BY <1>0, <1>1, StagesIdle, StagesWait
<1>2. CASE p.stage = "user data" /\ r.stage # "user data"
  <2>1. /\ r \in ParserState /\ buf \in Seq(Cell) /\ start \in Nat /\ size \in Nat
    BY <1>0, <1>2, EmptySeq, UserDataExtends DEF ParserState, Contexts, Heads
  <2>2. /\ ~(Len(buf) < start + size)
        /\ r = [p EXCEPT !.stage = "check", !.data = data]
    BY <1>2 DEF ParseUserData
  <2> HIDE DEF data
  <2>3. /\ r.stage = "check" /\ r.buffer = p.buffer /\ r.head = p.head
        /\ r.subhead = p.subhead /\ r.context = p.context /\ r.data = data
    <3> HIDE DEF r, buf
    <3> QED
      BY <1>0, <2>2 DEF ParserState
  <2> HIDE DEF r, buf, start, size
  <2>4. Len(buf) \in Nat /\ start + size <= Len(buf)
    BY <2>1, <2>2
  <2>5. Len(data) = size /\ DataBlock(buf, start, data)
    BY <2>1, <2>4, SliceLength DEF data, DataBlock
  <2>6. HeadFound(r) /\ SubHeadFound(r) /\ ContextFound(r)
    BY <1>2, <2>3 DEF Found, HeadFound, SubHeadFound, ContextFound
  <2>7. Found(r) /\ r.buffer = p.buffer
    BY <2>1, <2>3, <2>5, <2>6 DEF Found, DataFound, CheckFound, buf, start, size
  <2> QED
    BY <2>7 DEF r
<1> QED
  BY <1>1, <1>2

(* The check.                                                              *)
LEMMA CheckFinds ==
  ASSUME NEW p, Found(p)
  PROVE  Found(ParseCheck(p)) /\ ParseCheck(p).buffer = p.buffer
<1> DEFINE r   == ParseCheck(p)
           end == p.context.end + p.head.size
<1>0. p \in ParserState
  BY DEF Found
<1>1. CASE r.stage = "check" \/ p.stage # "check"
  BY <1>0, <1>1, StagesIdle, StagesWait
<1>2. CASE p.stage = "check" /\ r.stage # "check"
  <2>1. p.context.end \in Nat /\ p.head.size \in Nat /\ Len(p.buffer) \in Nat
    BY <1>0 DEF ParserState, Contexts, Heads
  <2>2. \/ r = Failed(p, -4001)
        \/ /\ ~(Len(p.buffer) <= end)
           /\ p.buffer[end + 1] = Digest(SubSeq(p.buffer, 1, end))
           /\ r = [p EXCEPT !.stage = "done"]
    BY <1>2 DEF ParseCheck
  <2> HIDE DEF r
  <2>3. /\ r \in ParserState /\ r.buffer = p.buffer /\ r.head = p.head
        /\ r.subhead = p.subhead /\ r.context = p.context /\ r.data = p.data
        /\ r.stage \in {"done", "error"}
        /\ r.stage = "done" => /\ ~(Len(p.buffer) <= end)
                               /\ p.buffer[end + 1] = Digest(SubSeq(p.buffer, 1, end))
    <3>1. CASE r = Failed(p, -4001)
      <4> HIDE DEF end
      <4>1. r \in ParserState /\ r.stage = "error"
        <5>1. <<>> \in Seq(Cell) /\ -4001 \in Int
          BY EmptySeq
        <5>2. \A code \in Int : /\ Failed(p, code) \in ParserState
                                /\ Failed(p, code).stage = "error"
          BY <1>0 DEF Failed, ParserState, Stages
        <5> QED
          BY <3>1, <5>1, <5>2
      <4>2. /\ r.buffer = p.buffer /\ r.head = p.head
            /\ r.subhead = p.subhead /\ r.context = p.context /\ r.data = p.data
        BY <1>0, <3>1 DEF ParserState, Failed
      <4> QED
        BY <4>1, <4>2
    <3>2. CASE r # Failed(p, -4001)
      <4> HIDE DEF end
      <4>1. r = [p EXCEPT !.stage = "done"]
        BY <2>2, <3>2
      <4>2. /\ r \in ParserState /\ r.buffer = p.buffer /\ r.head = p.head
            /\ r.subhead = p.subhead /\ r.context = p.context /\ r.data = p.data
            /\ r.stage = "done"
        BY <1>0, <4>1 DEF ParserState, Stages
      <4> QED
        BY <2>2, <3>2, <4>2
    <3> QED
      BY <3>1, <3>2
  <2>4. HeadFound(r) /\ SubHeadFound(r) /\ ContextFound(r) /\ DataFound(r)
    BY <1>2, <2>3 DEF Found, HeadFound, SubHeadFound, ContextFound, DataFound
  <2>5. CheckFound(r)
    BY <2>1, <2>3 DEF CheckFound
  <2>6. Found(r) /\ r.buffer = p.buffer
    BY <2>3, <2>4, <2>5 DEF Found
  <2> QED
    BY <2>6 DEF r
<1> QED
  BY <1>1, <1>2

(* A parser that is fed a stream from the beginning has found what is in   *)
(* it.                                                                     *)
LEMMA FeedFinds ==
  ASSUME NEW stream \in Seq(Cell)
  PROVE  /\ Found(Feed(NewParser, stream))
         /\ Feed(NewParser, stream).buffer = stream
<1> DEFINE p == Extend(NewParser, stream)
<1>1. p \in ParserState /\ p.stage = "head" /\ p.buffer = stream
  <2>1. NewParser.buffer = <<>> /\ <<>> \o stream = stream
    BY ConcatEmptySeq DEF NewParser
  <2> QED
    BY <2>1, NewParserTyped, ExtendKeeps
<1>2. p.head = NoHead /\ p.subhead = NoSubHead /\ p.context = NoContext
  BY DEF Extend, NewParser
<1> HIDE DEF p
<1>3. Found(p)
  BY <1>1, <1>2 DEF Found, HeadFound, SubHeadFound, ContextFound, DataFound, CheckFound
<1>4. Feed(NewParser, stream) = FromHead(p)
  BY NewParserTyped, FeedExtends DEF Over, p
<1> DEFINE q == ParseHead(p)
           s == ParseSubHead(q)
           t == ParseContext(s)
           u == ParseUserData(t)
<1>5. Found(q) /\ q.buffer = stream
  BY <1>1, <1>3, HeadFinds
<1> HIDE DEF q
<1>6. Found(s) /\ s.buffer = stream
  BY <1>5, SubHeadFinds
<1> HIDE DEF s
<1>7. Found(t) /\ t.buffer = stream
  BY <1>6, ContextFinds
<1> HIDE DEF t
<1>8. Found(u) /\ u.buffer = stream
  BY <1>7, UserDataFinds
<1> HIDE DEF u
<1>9. Found(ParseCheck(u)) /\ ParseCheck(u).buffer = stream
  BY <1>8, CheckFinds
<1>10. FromHead(p) = ParseCheck(u)
  BY DEF FromHead, FromSubHead, FromContext, FromUserData, FromCheck, q, s, t, u
<1> QED
  BY <1>4, <1>9, <1>10

-----------------------------------------------------------------------------
(* The blocks are what the assembler writes, one behind the other.         *)

Fits(m) ==
    /\ {m.tail, m.addr, m.route, m.extensions, m.data} \subseteq Seq(Cell)
    /\ Len(m.tail) <= CellMax /\ Len(m.addr) <= CellMax /\ Len(m.route) <= CellMax
    /\ Len(m.extensions) <= CellMax /\ Len(m.data) <= CellMax
    /\ m.id \in Cell
    /\ m.context \in Pairs /\ Len(m.context) <= CellMax

HeadLength(m) == Len(m.tail) + 3
ContextStart(m) == HeadLength(m) + SubHeadLength(m.addr, m.route, m.extensions)
DataStart(m) == ContextStart(m) + 1 + 2 * Len(m.context)

(* One more string behind what is there.                                   *)
LEMMA StandsNext ==
  ASSUME NEW s \in Seq(Cell), NEW t \in Seq(Cell), NEW n \in Nat, Len(s) = n
  PROVE  /\ s \o t \in Seq(Cell) /\ Len(s \o t) = n + Len(t)
         /\ n + Len(t) \in Nat
         /\ \A buf \in Seq(Cell) :
               Stands(buf, 0, s \o t) <=> Stands(buf, 0, s) /\ Stands(buf, n, t)
<1>1. s \o t \in Seq(Cell) /\ Len(s \o t) = Len(s) + Len(t) /\ Len(t) \in Nat
  <2>1. \A u, v \in Seq(Cell) : u \o v \in Seq(Cell) /\ Len(u \o v) = Len(u) + Len(v)
    BY ConcatProperties
  <2> QED
    BY <2>1
<1>2. 0 \in Nat /\ 0 + Len(s) = n
  OBVIOUS
<1>3. ASSUME NEW buf \in Seq(Cell)
      PROVE  Stands(buf, 0, s \o t) <=> Stands(buf, 0, s) /\ Stands(buf, n, t)
  <2>1. Stands(buf, 0, s \o t) <=> Stands(buf, 0, s) /\ Stands(buf, 0 + Len(s), t)
    BY <1>2, StandsConcat
  <2> QED
    BY <1>2, <2>1
<1> QED
  BY <1>1, <1>3

LEMMA StandsNextText ==
  ASSUME NEW s \in Seq(Cell), NEW t \in Seq(Cell), NEW n \in Nat, Len(s) = n,
         Len(t) <= CellMax
  PROVE  /\ s \o Sized(t) \in Seq(Cell) /\ Len(s \o Sized(t)) = n + 1 + Len(t)
         /\ n + 1 + Len(t) \in Nat
         /\ \A buf \in Seq(Cell) :
               Stands(buf, 0, s \o Sized(t)) <=> Stands(buf, 0, s) /\ Reads(buf, n, t)
<1>1. Sized(t) \in Seq(Cell) /\ Len(Sized(t)) = Len(t) + 1 /\ Len(t) \in Nat
  BY EmptySeq, StandsText
<1>2. \A buf \in Seq(Cell) : Stands(buf, n, Sized(t)) <=> Reads(buf, n, t)
  BY StandsText DEF Reads
<1>3. /\ s \o Sized(t) \in Seq(Cell) /\ Len(s \o Sized(t)) = n + Len(Sized(t))
      /\ \A buf \in Seq(Cell) :
            Stands(buf, 0, s \o Sized(t)) <=> Stands(buf, 0, s) /\ Stands(buf, n, Sized(t))
  BY <1>1, StandsNext
<1>4. n + Len(Sized(t)) = n + 1 + Len(t) /\ n + 1 + Len(t) \in Nat
  BY <1>1
<1> QED
  BY <1>2, <1>3, <1>4

LEMMA BodyBlocks ==
  ASSUME NEW m, Fits(m)
  PROVE  /\ Body(m) \in Seq(Cell)
         /\ Len(Body(m)) = DataStart(m) + Len(m.data)
         /\ \A buf \in Seq(Cell) :
               Stands(buf, 0, Body(m)) <=>
                  /\ HeadBlock(buf, m.tail, Len(m.data), m.id)
                  /\ SubHeadBlock(buf, HeadLength(m), m.addr, m.route, m.extensions)
                  /\ ContextBlock(buf, ContextStart(m), m.context)
                  /\ DataBlock(buf, DataStart(m), m.data)
<1> DEFINE numbers == <<Length(m.data), m.id>>
           count   == <<Length(m.context)>>
           flat    == FlattenSeq(m.context)
           b0 == Sized(m.tail)
           b1 == b0 \o numbers
           b2 == b1 \o Sized(Version)
           b3 == b2 \o Sized(m.addr)
           b4 == b3 \o Sized(m.route)
           b5 == b4 \o Sized(m.extensions)
           b6 == b5 \o count
           b7 == b6 \o flat
           b8 == b7 \o m.data
           n1 == Len(m.tail) + 3
           n2 == n1 + 1 + Len(Version)
           n3 == n2 + 1 + Len(m.addr)
           n4 == n3 + 1 + Len(m.route)
           n5 == n4 + 1 + Len(m.extensions)
           n6 == n5 + 1
           n7 == n6 + 2 * Len(m.context)
<1>1. Body(m) = b8
  BY DEF Body
<1>2. /\ m.tail \in Seq(Cell) /\ m.addr \in Seq(Cell) /\ m.route \in Seq(Cell)
      /\ m.extensions \in Seq(Cell) /\ m.data \in Seq(Cell) /\ Version \in Seq(Cell)
      /\ Len(m.tail) \in Nat /\ Len(m.addr) \in Nat /\ Len(m.route) \in Nat
      /\ Len(m.extensions) \in Nat /\ Len(m.data) \in Nat /\ Len(Version) \in Nat
      /\ m.context \in Pairs /\ Len(m.context) \in Nat
  BY WireAssumption, SMTT(30) DEF Fits, Pairs
<1>3. numbers = <<Len(m.data), m.id>> /\ count = <<Len(m.context)>>
  BY <1>2, SmallRemainder, WireAssumption DEF Fits, Length
<1>4. numbers \in Seq(Cell) /\ Len(numbers) = 2 /\ count \in Seq(Cell) /\ Len(count) = 1
  <2>1. Len(m.data) \in Cell /\ Len(m.context) \in Cell /\ m.id \in Cell
    BY <1>2, WireAssumption DEF Fits, Cell
  <2> QED
    BY <1>3, <2>1
<1>5. flat \in Seq(Cell) /\ Len(flat) = 2 * Len(m.context)
  BY <1>2, EmptySeq, StandsPairs
<1> HIDE DEF b8, b7, b6, b5, b4, b3, b2, b1, b0, numbers, count, flat
<1>6. /\ b0 \in Seq(Cell) /\ Len(b0) = Len(m.tail) + 1 /\ Len(m.tail) + 1 \in Nat
      /\ \A buf \in Seq(Cell) : Stands(buf, 0, b0) <=> Reads(buf, 0, m.tail)
  <2>1. \A buf \in Seq(Cell) :
           /\ Sized(m.tail) \in Seq(Cell) /\ Len(Sized(m.tail)) = Len(m.tail) + 1
           /\ Stands(buf, 0, Sized(m.tail)) <=> Reads(buf, 0, m.tail)
    BY <1>2, StandsText, 0 \in Nat, SMTT(30) DEF Reads, Fits
  <2> QED
    BY <1>2, <2>1, EmptySeq DEF b0
<1>7. /\ b1 \in Seq(Cell) /\ Len(b1) = n1 /\ n1 \in Nat
      /\ \A buf \in Seq(Cell) :
            Stands(buf, 0, b1) <=> HeadBlock(buf, m.tail, Len(m.data), m.id)
  <2>0. /\ b1 \in Seq(Cell) /\ Len(b1) = (Len(m.tail) + 1) + Len(numbers)
        /\ \A buf \in Seq(Cell) :
              Stands(buf, 0, b1) <=> Stands(buf, 0, b0) /\ Stands(buf, Len(m.tail) + 1, numbers)
    BY <1>4, <1>6, StandsNext DEF b1
  <2>1. /\ b1 \in Seq(Cell) /\ Len(b1) = (Len(m.tail) + 1) + 2
        /\ \A buf \in Seq(Cell) :
              Stands(buf, 0, b1) <=> Stands(buf, 0, b0) /\ Stands(buf, Len(m.tail) + 1, numbers)
    BY <1>4, <2>0
  <2>2. /\ (Len(m.tail) + 1) + 2 = Len(m.tail) + 3
        /\ (Len(m.tail) + 1) + 1 = Len(m.tail) + 2
        /\ \A i \in 1 .. 2 : i = 1 \/ i = 2
    BY <1>2
  <2>3. ASSUME NEW buf \in Seq(Cell)
        PROVE  Stands(buf, Len(m.tail) + 1, numbers) <=>
                  /\ Len(m.tail) + 3 <= Len(buf)
                  /\ buf[Len(m.tail) + 2] = Len(m.data) /\ buf[Len(m.tail) + 3] = m.id
    BY <1>3, <1>4, <2>2 DEF Stands
  <2> QED
    BY <1>2, <1>6, <2>1, <2>2, <2>3 DEF HeadBlock
<1> HIDE DEF n1
<1>8. /\ b2 \in Seq(Cell) /\ Len(b2) = n2 /\ n2 \in Nat
      /\ \A buf \in Seq(Cell) : Stands(buf, 0, b2) <=> Stands(buf, 0, b1) /\ Reads(buf, n1, Version)
  BY <1>2, <1>7, StandsNextText, WireAssumption DEF b2
<1> HIDE DEF n2
<1>9. /\ b3 \in Seq(Cell) /\ Len(b3) = n3 /\ n3 \in Nat
      /\ \A buf \in Seq(Cell) : Stands(buf, 0, b3) <=> Stands(buf, 0, b2) /\ Reads(buf, n2, m.addr)
  BY <1>2, <1>8, StandsNextText DEF b3, Fits
<1> HIDE DEF n3
<1>10. /\ b4 \in Seq(Cell) /\ Len(b4) = n4 /\ n4 \in Nat
       /\ \A buf \in Seq(Cell) : Stands(buf, 0, b4) <=> Stands(buf, 0, b3) /\ Reads(buf, n3, m.route)
  BY <1>2, <1>9, StandsNextText DEF b4, Fits
<1> HIDE DEF n4
<1>11. /\ b5 \in Seq(Cell) /\ Len(b5) = n5 /\ n5 \in Nat
       /\ \A buf \in Seq(Cell) :
             Stands(buf, 0, b5) <=> Stands(buf, 0, b4) /\ Reads(buf, n4, m.extensions)
  BY <1>2, <1>10, StandsNextText DEF b5, Fits
<1> HIDE DEF n5
<1>12. /\ b6 \in Seq(Cell) /\ Len(b6) = n6 /\ n6 \in Nat
       /\ \A buf \in Seq(Cell) :
             Stands(buf, 0, b6) <=> Stands(buf, 0, b5) /\ Stands(buf, n5, count)
  <2>1. /\ b6 \in Seq(Cell) /\ Len(b6) = n5 + Len(count) /\ n5 + Len(count) \in Nat
        /\ \A buf \in Seq(Cell) :
              Stands(buf, 0, b6) <=> Stands(buf, 0, b5) /\ Stands(buf, n5, count)
    BY <1>4, <1>11, StandsNext DEF b6
  <2> QED
    BY <1>4, <2>1
<1> HIDE DEF n6
<1>13. /\ b7 \in Seq(Cell) /\ Len(b7) = n7 /\ n7 \in Nat
       /\ \A buf \in Seq(Cell) :
             Stands(buf, 0, b7) <=> Stands(buf, 0, b6) /\ Stands(buf, n6, flat)
  <2>1. /\ b7 \in Seq(Cell) /\ Len(b7) = n6 + Len(flat) /\ n6 + Len(flat) \in Nat
        /\ \A buf \in Seq(Cell) :
              Stands(buf, 0, b7) <=> Stands(buf, 0, b6) /\ Stands(buf, n6, flat)
    BY <1>5, <1>12, StandsNext DEF b7
  <2> QED
    BY <1>5, <2>1
<1> HIDE DEF n7
<1>14. /\ b8 \in Seq(Cell) /\ Len(b8) = n7 + Len(m.data)
       /\ \A buf \in Seq(Cell) :
             Stands(buf, 0, b8) <=> Stands(buf, 0, b7) /\ Stands(buf, n7, m.data)
  BY <1>2, <1>13, StandsNext DEF b8
<1>15. /\ n1 = HeadLength(m) /\ n5 = ContextStart(m) /\ n6 = n5 + 1 /\ n7 = DataStart(m)
  <2>1. \A h, v, a, r, e \in Nat :
           h + 1 + v + 1 + a + 1 + r + 1 + e = h + (4 + v + a + r + e)
    OBVIOUS
  <2>2. n1 = HeadLength(m)
    BY DEF n1, HeadLength
  <2>3. n5 = ContextStart(m)
    <3> DEFINE v == Len(Version)
               a == Len(m.addr)
               r == Len(m.route)
               e == Len(m.extensions)
    <3>1. v \in Nat /\ a \in Nat /\ r \in Nat /\ e \in Nat /\ n1 \in Nat
      BY <1>2, <1>7
    <3>2. n5 = n1 + 1 + v + 1 + a + 1 + r + 1 + e
      BY DEF n2, n3, n4, n5
    <3>3. ContextStart(m) = n1 + (4 + v + a + r + e)
      BY <2>2 DEF ContextStart, SubHeadLength
    <3> HIDE DEF v, a, r, e
    <3> QED
      BY <2>1, <3>1, <3>2, <3>3
  <2> QED
    BY <2>2, <2>3 DEF n6, n7, DataStart
<1>16. \A buf \in Seq(Cell) :
          /\ Reads(buf, n1, Version) /\ Reads(buf, n2, m.addr)
          /\ Reads(buf, n3, m.route) /\ Reads(buf, n4, m.extensions)
          <=> SubHeadBlock(buf, HeadLength(m), m.addr, m.route, m.extensions)
  BY <1>15 DEF SubHeadBlock, n2, n3, n4
<1>17. \A buf \in Seq(Cell) : Stands(buf, n7, m.data) <=> DataBlock(buf, DataStart(m), m.data)
  <2>1. n7 \in Nat
    BY <1>13
  <2>2. \A buf \in Seq(Cell) : Stands(buf, n7, m.data) <=>
           /\ n7 + Len(m.data) <= Len(buf)
           /\ SubSeq(buf, n7 + 1, n7 + Len(m.data)) = m.data
    BY <1>2, <2>1, StandsSlice
  <2> QED
    BY <1>15, <2>2 DEF DataBlock
<1>18. ASSUME NEW buf \in Seq(Cell)
       PROVE  Stands(buf, n5, count) /\ Stands(buf, n6, flat)
                 <=> ContextBlock(buf, ContextStart(m), m.context)
  <2>1. n5 \in Nat /\ n6 \in Nat /\ n6 = n5 + 1 /\ Len(buf) \in Nat
    BY <1>11, <1>12, <1>15
  <2>2. Stands(buf, n5, count) <=> n6 <= Len(buf) /\ buf[n5 + 1] = Len(m.context)
    BY <1>3, <2>1, StandsOne
  <2>3. n6 <= Len(buf) => (Stands(buf, n6, flat) <=>
           /\ n6 + 2 * Len(m.context) <= Len(buf)
           /\ \A i \in 1 .. Len(m.context) : /\ buf[n6 + 2 * i - 1] = m.context[i][1]
                                             /\ buf[n6 + 2 * i] = m.context[i][2])
    BY <1>2, <2>1, StandsPairs DEF flat
  <2>4. \A i \in 1 .. Len(m.context) : /\ n6 + 2 * i - 1 = n5 + 2 * i
                                       /\ n6 + 2 * i = n5 + 2 * i + 1
    BY <1>2, <2>1
  <2>5. n6 + 2 * Len(m.context) <= Len(buf) => n6 <= Len(buf)
    <3>1. \A a, b, c \in Nat : a + 2 * b <= c => a <= c
      OBVIOUS
    <3> QED
      BY <1>2, <2>1, <3>1
  <2>6. n6 + 2 * Len(m.context) = n5 + 1 + 2 * Len(m.context)
    BY <1>2, <2>1
  <2> QED
    BY <1>15, <2>2, <2>3, <2>4, <2>5, <2>6 DEF ContextBlock
<1>19. Len(b8) = DataStart(m) + Len(m.data)
  BY <1>14, <1>15
<1>20. ASSUME NEW buf \in Seq(Cell)
       PROVE  Stands(buf, 0, b8) <=>
                  /\ HeadBlock(buf, m.tail, Len(m.data), m.id)
                  /\ SubHeadBlock(buf, HeadLength(m), m.addr, m.route, m.extensions)
                  /\ ContextBlock(buf, ContextStart(m), m.context)
                  /\ DataBlock(buf, DataStart(m), m.data)
  <2>1. /\ Stands(buf, 0, b8) <=> Stands(buf, 0, b7) /\ Stands(buf, n7, m.data)
        /\ Stands(buf, 0, b7) <=> Stands(buf, 0, b6) /\ Stands(buf, n6, flat)
        /\ Stands(buf, 0, b6) <=> Stands(buf, 0, b5) /\ Stands(buf, n5, count)
        /\ Stands(buf, 0, b5) <=> Stands(buf, 0, b4) /\ Reads(buf, n4, m.extensions)
        /\ Stands(buf, 0, b4) <=> Stands(buf, 0, b3) /\ Reads(buf, n3, m.route)
        /\ Stands(buf, 0, b3) <=> Stands(buf, 0, b2) /\ Reads(buf, n2, m.addr)
        /\ Stands(buf, 0, b2) <=> Stands(buf, 0, b1) /\ Reads(buf, n1, Version)
        /\ Stands(buf, 0, b1) <=> HeadBlock(buf, m.tail, Len(m.data), m.id)
    BY <1>7, <1>8, <1>9, <1>10, <1>11, <1>12, <1>13, <1>14
  <2> QED
    BY <1>16, <1>17, <1>18, <2>1
<1> QED
  BY <1>1, <1>14, <1>19, <1>20

-----------------------------------------------------------------------------
(* What is extracted assembles to what was read.                           *)

(* A text that was read fits its length field.                             *)
LEMMA ReadsFits ==
  ASSUME NEW buf \in Seq(Cell), NEW at \in Nat, NEW text, Reads(buf, at, text)
  PROVE  text \in Seq(Cell) /\ Len(text) \in Nat /\ Len(text) <= CellMax /\ at + 1 + Len(text) \in Nat
<1>1. text \in Seq(Cell) /\ Len(text) \in Cell
  BY ReadsText DEF Reads
<1> QED
  BY <1>1, WireAssumption DEF Cell

LEMMA BlocksFit ==
  ASSUME NEW p, Found(p), p.stage = "done"
  PROVE  /\ Fits(Parsed(p))
         /\ HeadBlock(p.buffer, Parsed(p).tail, Len(Parsed(p).data), Parsed(p).id)
         /\ SubHeadBlock(p.buffer, HeadLength(Parsed(p)), Parsed(p).addr, Parsed(p).route,
                         Parsed(p).extensions)
         /\ ContextBlock(p.buffer, ContextStart(Parsed(p)), Parsed(p).context)
         /\ DataBlock(p.buffer, DataStart(Parsed(p)), Parsed(p).data)
         /\ DataStart(Parsed(p)) = p.context.end
         /\ Len(Parsed(p).data) = p.head.size
<1> DEFINE m   == Parsed(p)
           buf == p.buffer
<1>1. /\ m.tail = p.head.tail /\ m.id = p.head.id /\ m.addr = p.subhead.addr
      /\ m.route = p.subhead.route /\ m.extensions = p.subhead.extensions
      /\ m.context = p.context.pairs /\ m.data = p.data
  BY DEF Parsed
<1>2. /\ p \in ParserState /\ buf \in Seq(Cell) /\ p.head \in Heads /\ p.subhead \in SubHeads
      /\ p.data \in Seq(Cell)
  BY DEF Found, ParserState
<1>3. /\ HeadBlock(buf, m.tail, p.head.size, m.id)
      /\ p.head.end = Len(m.tail) + 3
      /\ Len(m.tail) <= TailMax /\ p.head.size \in 0 .. DataMax
  BY <1>1 DEF Found, HeadFound
<1>4. /\ SubHeadBlock(buf, p.head.end, m.addr, m.route, m.extensions)
      /\ p.subhead.end = p.head.end + SubHeadLength(m.addr, m.route, m.extensions)
  BY <1>1 DEF Found, SubHeadFound
<1>5. /\ m.context \in Pairs /\ Len(m.context) \in Cell
      /\ ContextBlock(buf, p.subhead.end, m.context)
      /\ p.context.end = p.subhead.end + 1 + 2 * Len(m.context)
  BY <1>1 DEF Found, ContextFound
<1>6. DataBlock(buf, p.context.end, m.data) /\ Len(m.data) = p.head.size
  BY <1>1 DEF Found, DataFound
<1> HIDE DEF m, buf
<1>7. p.head.end = HeadLength(m) /\ p.subhead.end = ContextStart(m) /\ p.context.end = DataStart(m)
  BY <1>3, <1>4, <1>5 DEF HeadLength, ContextStart, DataStart
<1>8. /\ m.tail \in Seq(Cell) /\ m.data \in Seq(Cell)
      /\ p.head.end \in Nat /\ Len(m.tail) <= CellMax /\ Len(m.data) <= CellMax
  BY <1>1, <1>2, <1>3, <1>6, WireAssumption DEF Heads
<1>9. /\ m.addr \in Seq(Cell) /\ m.route \in Seq(Cell) /\ m.extensions \in Seq(Cell)
      /\ Len(m.addr) <= CellMax /\ Len(m.route) <= CellMax /\ Len(m.extensions) <= CellMax
  <2> DEFINE a == p.head.end + 1 + Len(Version)
             r == a + 1 + Len(m.addr)
             e == r + 1 + Len(m.route)
  <2>1. a \in Nat
    BY <1>8, WireAssumption
  <2>2. Reads(buf, a, m.addr) /\ Reads(buf, r, m.route) /\ Reads(buf, e, m.extensions)
    BY <1>4 DEF SubHeadBlock
  <2> HIDE DEF a
  <2>3. m.addr \in Seq(Cell) /\ Len(m.addr) <= CellMax /\ r \in Nat
    BY <1>2, <2>1, <2>2, ReadsFits DEF buf
  <2> HIDE DEF r
  <2>4. m.route \in Seq(Cell) /\ Len(m.route) <= CellMax /\ e \in Nat
    BY <1>2, <2>2, <2>3, ReadsFits DEF buf
  <2> HIDE DEF e
  <2>5. m.extensions \in Seq(Cell) /\ Len(m.extensions) <= CellMax
    BY <1>2, <2>2, <2>4, ReadsFits DEF buf
  <2> QED
    BY <2>3, <2>4, <2>5
<1>10. m.id \in Cell
  <2>1. Len(m.tail) + 3 \in 1 .. Len(buf) /\ buf[Len(m.tail) + 3] = m.id
    BY <1>3, <1>8 DEF HeadBlock
  <2> QED
    BY <1>2, <2>1, ElementOfSeq DEF buf
<1>11. Len(m.context) <= CellMax
  BY <1>5, WireAssumption DEF Cell
<1>12. Fits(m)
  BY <1>5, <1>8, <1>9, <1>10, <1>11 DEF Fits
<1> QED
  BY <1>3, <1>4, <1>5, <1>6, <1>7, <1>12 DEF m, buf

LEMMA DoneAssembles ==
  ASSUME NEW p, Found(p), p.stage = "done"
  PROVE  /\ IsPrefix(Assemble(Parsed(p)), p.buffer)
         /\ Len(Assemble(Parsed(p))) = p.context.end + p.head.size + 1
<1> DEFINE m    == Parsed(p)
           buf  == p.buffer
           body == Body(m)
           end  == p.context.end + p.head.size
<1>1. buf \in Seq(Cell) /\ p.context.end \in Nat /\ p.head.size \in Nat
  BY DEF Found, ParserState, Contexts, Heads
<1>2. Len(buf) > end /\ buf[end + 1] = Digest(SubSeq(buf, 1, end))
  BY DEF Found, CheckFound
<1>3. /\ Fits(m)
      /\ HeadBlock(buf, m.tail, Len(m.data), m.id)
      /\ SubHeadBlock(buf, HeadLength(m), m.addr, m.route, m.extensions)
      /\ ContextBlock(buf, ContextStart(m), m.context)
      /\ DataBlock(buf, DataStart(m), m.data)
      /\ DataStart(m) + Len(m.data) = end
  BY BlocksFit
<1> HIDE DEF buf, m, end
<1>4. body \in Seq(Cell) /\ Len(body) = end /\ Stands(buf, 0, body)
  BY <1>1, <1>3, BodyBlocks
<1> HIDE DEF body
<1>5. end \in Nat /\ Len(buf) \in Nat
  BY <1>1 DEF end
<1>6. SubSeq(buf, 1, end) = body
  <2>1. 0 \in Nat /\ 0 + 1 = 1 /\ 0 + Len(body) = end
    BY <1>4, <1>5
  <2>2. SubSeq(buf, 0 + 1, 0 + Len(body)) = body
    BY <1>1, <1>4, <2>1, StandsSlice
  <2> QED
    BY <2>1, <2>2
<1>7. Digest(body) = buf[end + 1] /\ end + 1 \in 1 .. Len(buf)
  <2>1. Digest(SubSeq(buf, 1, end)) = Digest(body)
    BY <1>6, Zenon
  <2>2. end + 1 \in 1 .. Len(buf)
    BY <1>2, <1>5
  <2> QED
    BY <1>2, <2>1, <2>2
<1>8. Digest(body) \in Cell
  BY <1>1, <1>7, ElementOfSeq
<1> DEFINE all == Append(body, Digest(body))
<1>9. /\ all \in Seq(Cell) /\ Len(all) = end + 1
      /\ \A i \in 1 .. end : all[i] = body[i]
      /\ all[end + 1] = Digest(body)
  BY <1>4, <1>5, <1>8
<1>10. Stands(buf, 0, all)
  <2> HIDE DEF all
  <2>1. \A i \in 1 .. end + 1 : (i \in 1 .. end \/ i = end + 1) /\ 0 + i = i
    BY <1>5
  <2> QED
    BY <1>4, <1>5, <1>7, <1>9, <2>1 DEF Stands
<1>11. Assemble(m) = all
  BY DEF Assemble, body
<1> HIDE DEF all
<1>12. IsPrefix(all, buf)
  BY <1>1, <1>9, <1>10, StandsFirst
<1> QED
  BY <1>9, <1>11, <1>12 DEF m, buf, end

(* The blocks found are in the buffer, one behind the other.               *)
LEMMA FoundTyped ==
  ASSUME ChunkingInv
  PROVE  /\ ParserTypeOK
         /\ parser.buffer = received
         /\ Found(parser)
<1>1. Found(parser) /\ parser.buffer = received /\ received \in Seq(Cell)
  BY FeedFinds DEF ChunkingInv, ChunkingInvisible
<1> DEFINE p == parser
<1>2. /\ p.stage \in Stages /\ p.buffer \in Seq(Cell) /\ Len(p.buffer) \in Nat
      /\ p.head.size \in Nat /\ p.head.end \in Nat /\ p.subhead.end \in Nat /\ p.context.end \in Nat
      /\ p.head.tail \in Seq(Cell) /\ p.subhead.addr \in Seq(Cell)
      /\ p.subhead.route \in Seq(Cell) /\ p.subhead.extensions \in Seq(Cell)
      /\ p.context.pairs \in Seq(Seq(Cell)) /\ p.data \in Seq(Cell)
  BY <1>1 DEF Found, ParserState, Heads, SubHeads, Contexts
<1>3. /\ p.head.size \in 0 .. DataMax /\ p.head.end \in 0 .. Len(p.buffer)
  <2>1. CASE p.head = NoHead
    BY <1>2, <2>1, WireAssumption DEF NoHead
  <2>2. CASE p.head # NoHead
    BY <1>1, <1>2, <2>2 DEF Found, HeadFound, HeadBlock
  <2> QED
    BY <2>1, <2>2
<1>4. /\ p.subhead.end \in 0 .. Len(p.buffer)
      /\ Reached({"context", "user data", "check"}) =>
            p.head.end + Len(Version) + 5 <= p.subhead.end
  <2>1. CASE p.subhead = NoSubHead /\ p.stage \in {"head", "subhead", "error"}
    <3>1. p.subhead.end = 0
      BY <2>1 DEF NoSubHead
    <3>2. ~Reached({"context", "user data", "check"})
      BY <2>1 DEF Reached
    <3>3. 0 \in 0 .. Len(p.buffer)
      BY <1>2
    <3> QED
      BY <3>1, <3>2, <3>3
  <2>2. CASE ~(p.subhead = NoSubHead /\ p.stage \in {"head", "subhead", "error"})
    <3>1. /\ p.subhead.end = p.head.end
              + SubHeadLength(p.subhead.addr, p.subhead.route, p.subhead.extensions)
          /\ p.subhead.end <= Len(p.buffer) /\ p.subhead.route # <<>>
      BY <1>1, <2>2 DEF Found, SubHeadFound
    <3>2. /\ Len(p.subhead.route) \in Nat \ {0} /\ Len(p.subhead.addr) \in Nat
          /\ Len(p.subhead.extensions) \in Nat /\ Len(Version) \in Nat
      BY <1>2, <3>1, EmptySeq, WireAssumption, SMTT(30)
    <3>3. p.head.end + Len(Version) + 5 <= p.subhead.end /\ p.subhead.end \in Nat
      <4> DEFINE v == Len(Version)
                 a == Len(p.subhead.addr)
                 n == Len(p.subhead.route)
                 e == Len(p.subhead.extensions)
      <4>1. v \in Nat /\ a \in Nat /\ n \in Nat /\ n # 0 /\ e \in Nat
        BY <3>2
      <4>2. p.subhead.end = p.head.end + (4 + v + a + n + e)
        BY <3>1 DEF SubHeadLength
      <4> HIDE DEF v, a, n, e
      <4>3. p.head.end + v + 5 <= p.subhead.end /\ p.subhead.end \in Nat
        <5>1. p.head.end \in Nat
          BY <1>2
        <5> QED
          BY <4>1, <4>2, <5>1
      <4> QED
        BY <4>3 DEF v
    <3>4. \A i, n \in Nat : i <= n => i \in 0 .. n
      OBVIOUS
    <3> QED
      BY <1>2, <3>1, <3>3, <3>4
  <2> QED
    BY <2>1, <2>2
<1>5. /\ p.context.end \in 0 .. Len(p.buffer)
      /\ Reached({"user data", "check"}) => p.subhead.end < p.context.end
  <2>1. CASE p.context = NoContext /\ p.stage \in {"head", "subhead", "context", "error"}
    <3>1. p.context.end = 0
      BY <2>1 DEF NoContext
    <3>2. ~Reached({"user data", "check"})
      BY <2>1 DEF Reached
    <3>3. 0 \in 0 .. Len(p.buffer)
      BY <1>2
    <3> QED
      BY <3>1, <3>2, <3>3
  <2>2. CASE ~(p.context = NoContext /\ p.stage \in {"head", "subhead", "context", "error"})
    <3>1. /\ p.subhead.end + 1 + 2 * Len(p.context.pairs) <= Len(p.buffer)
          /\ p.context.end = p.subhead.end + 1 + 2 * Len(p.context.pairs)
      BY <1>1, <2>2 DEF Found, ContextFound, ContextBlock
    <3>2. Len(p.context.pairs) \in Nat
      BY <1>2
    <3>3. \A a, n, b \in Nat : a + 1 + 2 * n <= b => a + 1 + 2 * n \in 0 .. b /\ a < a + 1 + 2 * n
      OBVIOUS
    <3> QED
      BY <1>2, <3>1, <3>2, <3>3
  <2> QED
    BY <2>1, <2>2
<1>6. Reached({"check"}) => p.context.end + p.head.size <= Len(p.buffer)
  <2>1. p.stage \in {"check", "done"} => /\ p.context.end + Len(p.data) <= Len(p.buffer)
                                        /\ Len(p.data) = p.head.size
    BY <1>1 DEF Found, DataFound, DataBlock
  <2> QED
    BY <2>1 DEF Reached
<1> QED
  BY <1>1, <1>2, <1>3, <1>4, <1>5, <1>6 DEF ParserTypeOK, Stages

(* The fields of the Rust struct keep their types, and the offsets with    *)
(* which the five stages of SmpParser slice the buffer stay in its range,  *)
(* so that no slice panics, whatever the stream and its chunks.            *)
THEOREM ParserTyped == ParserSpec => []ParserTypeOK
<1>1. ChunkingInv => ParserTypeOK
  BY FoundTyped
<1> QED
  BY ChunkingInit, ChunkingStep, <1>1, PTL DEF ParserSpec

(* A stream that SmpParser accepts begins with what assemble_message       *)
(* writes for the fields the getters return: nothing in a message is       *)
(* skipped, read twice or read with another length than it was written     *)
(* with.                                                                   *)
THEOREM OnlyEncodingsAccepted == ParserSpec => []AcceptsOnlyEncodings
<1>1. ChunkingInv => AcceptsOnlyEncodings
  BY FoundTyped, DoneAssembles DEF AcceptsOnlyEncodings
<1> QED
  BY ChunkingInit, ChunkingStep, <1>1, PTL DEF ParserSpec

-----------------------------------------------------------------------------
(* The parser reads what the assembler wrote.                              *)

(* The cell in front of a text is its length.                              *)
LEMMA TextSize ==
  ASSUME NEW buf \in Seq(Cell), NEW at \in Nat, NEW text, Reads(buf, at, text)
  PROVE  /\ buf[at + 1] = Len(text) /\ Len(text) \in Nat /\ text \in Seq(Cell)
         /\ at + 1 + Len(text) \in Nat /\ at + 1 + Len(text) <= Len(buf)
<1>1. HasText(buf, at) /\ Text(buf, at) = text /\ TextEnd(buf, at) = at + 1 + Len(text)
  BY DEF Reads
<1> QED
  BY <1>1, ReadsText, ReadsFits

LEMMA HeadReads ==
  ASSUME NEW p \in ParserState, p.stage = "head",
         NEW tail, NEW size \in Nat, NEW id,
         HeadBlock(p.buffer, tail, size, id),
         tail # <<>>, Len(tail) <= TailMax, size <= DataMax, id # 0
  PROVE  ParseHead(p)
           = [p EXCEPT !.stage = "subhead",
                       !.head = [tail |-> tail, size |-> size, id |-> id, end |-> Len(tail) + 3]]
<1> DEFINE buf == p.buffer
           end == buf[1] + 3
<1>1. buf \in Seq(Cell) /\ Len(buf) \in Nat /\ 0 \in Nat /\ 0 + 1 = 1
  BY DEF ParserState
<1>2. /\ Reads(buf, 0, tail) /\ Len(tail) + 3 <= Len(buf)
      /\ buf[Len(tail) + 2] = size /\ buf[Len(tail) + 3] = id
  BY DEF HeadBlock
<1>3. buf[0 + 1] = Len(tail) /\ Len(tail) \in Nat /\ tail \in Seq(Cell)
  BY <1>1, <1>2, TextSize
<1>4. Len(tail) # 0
  BY <1>3, EmptySeq
<1>5. /\ buf[1] = Len(tail) /\ end = Len(tail) + 3 /\ end - 1 = Len(tail) + 2
  BY <1>1, <1>3
<1>6. SubSeq(buf, 2, 1 + buf[1]) = tail
  <2>1. Text(buf, 0) = tail /\ TextEnd(buf, 0) = 0 + 1 + Len(tail)
    BY <1>2 DEF Reads
  <2>2. 0 + 1 + Len(tail) = 1 + buf[1] /\ 0 + 2 = 2
    BY <1>3, <1>5
  <2> QED
    BY <2>1, <2>2 DEF Text
<1>7. /\ ~(Len(buf) < 1) /\ buf[1] # 0 /\ ~(buf[1] > TailMax) /\ ~(Len(buf) < end)
      /\ ~(buf[end - 1] > DataMax) /\ buf[end] # 0
  BY <1>1, <1>2, <1>3, <1>4, <1>5, WireAssumption, SMTT(30)
<1>8. ParseHead(p)
        = [p EXCEPT !.stage = "subhead",
                    !.head = [tail |-> SubSeq(buf, 2, 1 + buf[1]),
                              size |-> buf[end - 1], id |-> buf[end], end |-> end]]
  BY <1>7 DEF ParseHead
<1>9. buf[end - 1] = size /\ buf[end] = id
  BY <1>2, <1>5
<1> HIDE DEF end, buf
<1> QED
  BY <1>5, <1>6, <1>8, <1>9

LEMMA SubHeadReads ==
  ASSUME NEW p \in ParserState, p.stage = "subhead",
         NEW addr, NEW route, NEW extensions,
         SubHeadBlock(p.buffer, p.head.end, addr, route, extensions),
         route # <<>>, SubHeadLength(addr, route, extensions) <= SubHeadMax
  PROVE  ParseSubHead(p)
           = [p EXCEPT !.stage = "context",
                       !.subhead = [addr |-> addr, route |-> route, extensions |-> extensions,
                                    end |-> p.head.end + SubHeadLength(addr, route, extensions)]]
<1> DEFINE buf   == p.buffer
           start == p.head.end
           a     == start + 1 + Len(Version)
           r     == a + 1 + Len(addr)
           e     == r + 1 + Len(route)
           end   == e + 1 + Len(extensions)
           length == SubHeadLength(addr, route, extensions)
<1>1. start \in Nat /\ buf \in Seq(Cell)
  BY DEF ParserState, Heads
<1>2. /\ Reads(buf, start, Version) /\ Reads(buf, a, addr) /\ Reads(buf, r, route)
      /\ Reads(buf, e, extensions)
  BY DEF SubHeadBlock
<1>3. /\ HasText(buf, start) /\ Text(buf, start) = Version /\ TextEnd(buf, start) = a
      /\ HasText(buf, a) /\ Text(buf, a) = addr /\ TextEnd(buf, a) = r
      /\ HasText(buf, r) /\ Text(buf, r) = route /\ TextEnd(buf, r) = e
      /\ HasText(buf, e) /\ Text(buf, e) = extensions /\ TextEnd(buf, e) = end
  BY <1>2 DEF Reads
<1> HIDE DEF buf
<1>4. a \in Nat /\ Len(Version) \in Nat
  BY <1>1, <1>2, TextSize
<1>5. r \in Nat /\ Len(addr) \in Nat
  <2> HIDE DEF a
  <2> QED
    BY <1>1, <1>2, <1>4, TextSize
<1>6. e \in Nat /\ Len(route) \in Nat
  <2> HIDE DEF r
  <2> QED
    BY <1>1, <1>2, <1>5, TextSize
<1>7. end \in Nat /\ Len(extensions) \in Nat
  <2> HIDE DEF e
  <2> QED
    BY <1>1, <1>2, <1>6, TextSize
<1>8. end = start + length /\ end - start = length /\ length \in Nat
  <2> DEFINE v == Len(Version)
             n == Len(addr)
             k == Len(route)
             x == Len(extensions)
  <2>1. v \in Nat /\ n \in Nat /\ k \in Nat /\ x \in Nat
    BY <1>4, <1>5, <1>6, <1>7
  <2>2. end = start + 1 + v + 1 + n + 1 + k + 1 + x /\ length = 4 + v + n + k + x
    BY DEF SubHeadLength
  <2> HIDE DEF v, n, k, x, end, length, start
  <2>3. end = start + length
    BY <1>1, <2>1, <2>2
  <2>4. length \in Nat
    BY <2>1, <2>2
  <2> QED
    BY <1>1, <2>3, <2>4
<1> HIDE DEF end, length, a, r, e
<1>9. ~(end - start > SubHeadMax)
  BY <1>8, WireAssumption DEF length
<1>10. ParseSubHead(p)
         = [p EXCEPT !.stage = "context",
                     !.subhead = [addr |-> addr, route |-> route, extensions |-> extensions,
                                  end |-> end]]
  BY <1>3, <1>9 DEF ParseSubHead, buf
<1> QED
  BY <1>8, <1>10 DEF length

LEMMA ContextReads ==
  ASSUME NEW p \in ParserState, p.stage = "context",
         NEW pairs \in Seq(Cell \X Cell),
         ContextBlock(p.buffer, p.subhead.end, pairs)
  PROVE  ParseContext(p)
           = [p EXCEPT !.stage = "user data",
                       !.context = [end |-> p.subhead.end + 1 + 2 * Len(pairs), pairs |-> pairs]]
<1> DEFINE buf   == p.buffer
           start == p.subhead.end
           count == buf[start + 1]
           end   == start + 1 + 2 * count
           read  == [i \in 1 .. count |-> <<buf[start + 2 * i], buf[start + 2 * i + 1]>>]
<1>1. start \in Nat /\ Len(buf) \in Nat /\ Len(pairs) \in Nat
  BY DEF ParserState, SubHeads
<1>2. /\ start + 1 + 2 * Len(pairs) <= Len(buf) /\ count = Len(pairs)
      /\ \A i \in 1 .. Len(pairs) :
            buf[start + 2 * i] = pairs[i][1] /\ buf[start + 2 * i + 1] = pairs[i][2]
  BY DEF ContextBlock
<1>3. \A i \in 1 .. Len(pairs) : pairs[i] = <<pairs[i][1], pairs[i][2]>>
  <2>1. \A i \in 1 .. Len(pairs) : pairs[i] \in Cell \X Cell
    BY ElementOfSeq
  <2> QED
    BY <2>1
<1>4. read = pairs
  <2>1. pairs = [i \in 1 .. Len(pairs) |-> pairs[i]]
    BY LenProperties
  <2>2. \A i \in 1 .. Len(pairs) : <<buf[start + 2 * i], buf[start + 2 * i + 1]>> = pairs[i]
    BY <1>2, <1>3
  <2>3. read = [i \in 1 .. Len(pairs) |-> <<buf[start + 2 * i], buf[start + 2 * i + 1]>>]
    BY <1>2
  <2> HIDE DEF buf, start, read
  <2> QED
    BY <2>1, <2>2, <2>3
<1>5. ~(Len(buf) <= start) /\ ~(Len(buf) < end)
  BY <1>1, <1>2
<1>6. ParseContext(p)
        = [p EXCEPT !.stage = "user data", !.context = [end |-> end, pairs |-> read]]
  BY <1>5 DEF ParseContext
<1>7. end = start + 1 + 2 * Len(pairs)
  BY <1>2
<1> HIDE DEF end, read, start
<1> QED
  BY <1>4, <1>6, <1>7 DEF start

LEMMA AtMost ==
  ASSUME NEW i \in Nat, NEW n \in Nat, i <= n
  PROVE  ~(n < i)
OBVIOUS

LEMMA UserDataReads ==
  ASSUME NEW p \in ParserState, p.stage = "user data",
         NEW data, Len(data) = p.head.size,
         DataBlock(p.buffer, p.context.end, data)
  PROVE  ParseUserData(p) = [p EXCEPT !.stage = "check", !.data = data]
<1>1. /\ p.context.end \in Nat /\ p.head.size \in Nat /\ Len(p.buffer) \in Nat
  <2>1. p.context \in Contexts /\ p.head \in Heads /\ p.buffer \in Seq(Cell)
    BY DEF ParserState
  <2> QED
    BY <2>1, LenProperties DEF Contexts, Heads
<1>2. /\ p.context.end + p.head.size <= Len(p.buffer)
      /\ SubSeq(p.buffer, p.context.end + 1, p.context.end + p.head.size) = data
  BY DEF DataBlock
<1>3. ~(Len(p.buffer) < p.context.end + p.head.size)
  <2>1. p.context.end + p.head.size \in Nat
    BY <1>1, Sums, Zenon
  <2> QED
    BY <1>1, <1>2, <2>1, AtMost
<1> QED
  BY <1>2, <1>3 DEF ParseUserData

(* A message within the limits fits its length fields.                     *)
LEMMA LimitsFit ==
  ASSUME NEW m, WithinLimits(m)
  PROVE  /\ Fits(m)
         /\ Len(m.data) \in Nat /\ Len(m.data) <= DataMax
         /\ m.tail # <<>> /\ Len(m.tail) <= TailMax /\ m.id # 0 /\ m.route # <<>>
         /\ SubHeadLength(m.addr, m.route, m.extensions) <= SubHeadMax
         /\ m.context \in Seq(Cell \X Cell)
<1>1. /\ m.tail \in Seq(Cell) /\ m.addr \in Seq(Cell) /\ m.route \in Seq(Cell)
      /\ m.extensions \in Seq(Cell) /\ m.data \in Seq(Cell)
      /\ m.id \in Cell \ {0} /\ m.context \in Seq(Cell \X Cell)
  BY DEF WithinLimits
<1>2. /\ m.tail # <<>> /\ Len(m.tail) <= TailMax /\ m.route # <<>> /\ Len(m.data) <= DataMax
      /\ Len(m.addr) \in Cell /\ Len(m.route) \in Cell /\ Len(m.extensions) \in Cell
      /\ Len(m.context) \in Cell
      /\ SubHeadLength(m.addr, m.route, m.extensions) <= SubHeadMax
  BY DEF WithinLimits, SubHeadLength
<1>3. /\ Len(m.tail) \in Nat /\ Len(m.data) \in Nat
  BY <1>1, LenProperties
<1>4. /\ Len(m.tail) <= CellMax /\ Len(m.data) <= CellMax
      /\ Len(m.addr) <= CellMax /\ Len(m.route) <= CellMax /\ Len(m.extensions) <= CellMax
      /\ Len(m.context) <= CellMax
  BY <1>2, <1>3, WireAssumption, SMTT(30) DEF Cell
<1>5. m.context \in Pairs
  <2>1. \A pair \in Cell \X Cell : pair \in Seq(Cell) /\ Len(pair) = 2
    <3>1. \A a, b \in Cell : <<a, b>> \in Seq(Cell) /\ Len(<<a, b>>) = 2
      OBVIOUS
    <3>2. \A pair \in Cell \X Cell : \E a, b \in Cell : pair = <<a, b>>
      OBVIOUS
    <3> QED
      BY <3>1, <3>2, ZenonT(30)
  <2>2. \A i \in 1 .. Len(m.context) : m.context[i] \in Cell \X Cell
    BY <1>1, ElementOfSeq
  <2>3. m.context \in Seq(Seq(Cell))
    BY <1>1, <2>1, SeqMonotonic, Cell \X Cell \subseteq Seq(Cell)
  <2> QED
    BY <2>1, <2>2, <2>3 DEF Pairs
<1> QED
  BY <1>1, <1>2, <1>3, <1>4, <1>5 DEF Fits

LEMMA CheckDecides ==
  ASSUME NEW p, p.stage = "check", NEW end, end = p.context.end + p.head.size,
         ~(Len(p.buffer) <= end)
  PROVE  /\ p.buffer[end + 1] = Digest(SubSeq(p.buffer, 1, end)) =>
               ParseCheck(p) = [p EXCEPT !.stage = "done"]
         /\ p.buffer[end + 1] # Digest(SubSeq(p.buffer, 1, end)) =>
               ParseCheck(p) = Failed(p, -4001)
<1>1. ParseCheck(p) =
         IF p.buffer[p.context.end + p.head.size + 1]
              # Digest(SubSeq(p.buffer, 1, p.context.end + p.head.size))
         THEN Failed(p, -4001) ELSE [p EXCEPT !.stage = "done"]
  BY DEF ParseCheck
<1> QED
  BY <1>1

(* The whole encoding of a message, in one piece, is read to its end.      *)
LEMMA EncodingRead ==
  ASSUME NEW m, WithinLimits(m), Assemble(m) \in Seq(Cell)
  PROVE  /\ Feed(NewParser, Assemble(m)).stage = "done"
         /\ Parsed(Feed(NewParser, Assemble(m))) = m
<1> DEFINE all  == Assemble(m)
           body == Body(m)
           last == Len(body)
           head    == [tail |-> m.tail, size |-> Len(m.data), id |-> m.id, end |-> HeadLength(m)]
           subhead == [addr |-> m.addr, route |-> m.route, extensions |-> m.extensions,
                       end |-> ContextStart(m)]
           context == [end |-> DataStart(m), pairs |-> m.context]
           p0 == [stage |-> "head", buffer |-> all, head |-> NoHead, subhead |-> NoSubHead,
                  context |-> NoContext, data |-> <<>>, error |-> 0]
           p1 == [p0 EXCEPT !.stage = "subhead", !.head = head]
           p2 == [p1 EXCEPT !.stage = "context", !.subhead = subhead]
           p3 == [p2 EXCEPT !.stage = "user data", !.context = context]
           p4 == [p3 EXCEPT !.stage = "check", !.data = m.data]
           p5 == [p4 EXCEPT !.stage = "done"]
<1>0. /\ Fits(m)
      /\ Len(m.data) \in Nat /\ Len(m.data) <= DataMax
      /\ m.tail # <<>> /\ Len(m.tail) <= TailMax /\ m.id # 0 /\ m.route # <<>>
      /\ SubHeadLength(m.addr, m.route, m.extensions) <= SubHeadMax
      /\ m.context \in Seq(Cell \X Cell)
  BY LimitsFit
<1>1. body \in Seq(Cell) /\ last = DataStart(m) + Len(m.data)
  BY <1>0, BodyBlocks
<1> HIDE DEF body
<1>2. all = Append(body, Digest(body)) /\ all \in Seq(Cell)
  BY DEF Assemble, body
<1> HIDE DEF all
<1>3. /\ last \in Nat /\ Len(all) = last + 1
      /\ \A i \in 1 .. last : all[i] = body[i]
      /\ all[last + 1] = Digest(body)
  BY <1>1, <1>2
<1>4. Stands(all, 0, body)
  <2>1. 0 + last <= Len(all) /\ \A i \in 1 .. last : 0 + i = i
    BY <1>3
  <2> QED
    BY <1>3, <2>1 DEF Stands
<1>5. SubSeq(all, 1, last) = body
  <2>1. 0 + 1 = 1 /\ 0 + last = last /\ 0 \in Nat
    BY <1>3
  <2>2. SubSeq(all, 0 + 1, 0 + last) = body
    BY <1>1, <1>2, <1>4, <2>1, StandsSlice
  <2> QED
    BY <2>1, <2>2
<1>6. /\ HeadBlock(all, m.tail, Len(m.data), m.id)
      /\ SubHeadBlock(all, HeadLength(m), m.addr, m.route, m.extensions)
      /\ ContextBlock(all, ContextStart(m), m.context)
      /\ DataBlock(all, DataStart(m), m.data)
  BY <1>0, <1>2, <1>4, BodyBlocks DEF body
<1>7. p0 \in ParserState /\ Feed(NewParser, all) = FromHead(p0)
  <2>1. Extend(NewParser, all) = p0
    <3>1. <<>> \o all = all
      BY <1>2, ConcatEmptySeq
    <3> QED
      BY <3>1 DEF Extend, NewParser
  <2>2. p0 \in ParserState
    BY <1>2, <2>1, NewParserTyped, ExtendKeeps
  <2> QED
    BY <2>1, <2>2, NewParserTyped, FeedExtends DEF Over
<1>8. /\ p0.stage = "head" /\ p0.buffer = all
      /\ p1.stage = "subhead" /\ p1.buffer = all /\ p1.head.end = HeadLength(m)
      /\ p2.stage = "context" /\ p2.buffer = all /\ p2.subhead.end = ContextStart(m)
      /\ p3.stage = "user data" /\ p3.buffer = all /\ p3.context.end = DataStart(m)
      /\ p3.head.size = Len(m.data)
      /\ p4.stage = "check" /\ p4.buffer = all /\ p4.context.end = DataStart(m)
      /\ p4.head.size = Len(m.data)
      /\ p5.stage = "done"
  OBVIOUS
<1>9. Parsed(p5) = [tail |-> m.tail, id |-> m.id, addr |-> m.addr, route |-> m.route,
                    extensions |-> m.extensions, context |-> m.context, data |-> m.data]
  BY DEF Parsed
<1>10. Parsed(p5) = m
  BY <1>9 DEF WithinLimits
<1> HIDE DEF p0, p1, p2, p3, p4, p5
<1>11. ParseHead(p0) = p1
  <2>1. HeadBlock(p0.buffer, m.tail, Len(m.data), m.id)
    BY <1>6, <1>8
  <2>2. ParseHead(p0)
          = [p0 EXCEPT !.stage = "subhead",
                       !.head = [tail |-> m.tail, size |-> Len(m.data), id |-> m.id,
                                 end |-> Len(m.tail) + 3]]
    BY <1>0, <1>7, <1>8, <2>1, HeadReads
  <2> QED
    BY <2>2 DEF p1, HeadLength
<1>12. p1 \in ParserState
  BY <1>7, <1>8, <1>11, HeadExtends, EmptySeq
<1>13. ParseSubHead(p1) = p2
  <2>1. SubHeadBlock(p1.buffer, p1.head.end, m.addr, m.route, m.extensions)
    BY <1>6, <1>8
  <2>2. ParseSubHead(p1)
          = [p1 EXCEPT !.stage = "context",
                       !.subhead = [addr |-> m.addr, route |-> m.route,
                                    extensions |-> m.extensions,
                                    end |-> p1.head.end
                                       + SubHeadLength(m.addr, m.route, m.extensions)]]
    BY <1>0, <1>8, <1>12, <2>1, SubHeadReads
  <2> QED
    BY <1>8, <2>2 DEF p2, ContextStart
<1>14. p2 \in ParserState
  BY <1>8, <1>12, <1>13, SubHeadExtends, EmptySeq
<1>15. ParseContext(p2) = p3
  BY <1>0, <1>6, <1>8, <1>14, ContextReads DEF p3, DataStart
<1>16. p3 \in ParserState
  BY <1>8, <1>14, <1>15, ContextExtends, EmptySeq
<1>17. ParseUserData(p3) = p4
  <2>1. DataBlock(p3.buffer, p3.context.end, m.data) /\ Len(m.data) = p3.head.size
    BY <1>6, <1>8
  <2>2. ParseUserData(p3) = [p3 EXCEPT !.stage = "check", !.data = m.data]
    BY <1>8, <1>16, <2>1, UserDataReads
  <2> QED
    BY <2>2 DEF p4
<1>18. ParseCheck(p4) = p5
  <2>1. p4.context.end + p4.head.size = last
    BY <1>1, <1>8
  <2> DEFINE n == last
  <2> HIDE DEF n
  <2>2. ~(Len(all) <= n)
    BY <1>3 DEF n
  <2>3. all[n + 1] = Digest(SubSeq(all, 1, n))
    <3>1. Digest(SubSeq(all, 1, n)) = Digest(body)
      BY <1>5, Zenon DEF n
    <3> QED
      BY <1>3, <3>1 DEF n
  <2>4. ParseCheck(p4) = [p4 EXCEPT !.stage = "done"]
    <3>1. n = p4.context.end + p4.head.size
      BY <2>1 DEF n
    <3>2. ~(Len(p4.buffer) <= n)
      BY <1>8, <2>2
    <3>3. p4.buffer[n + 1] = Digest(SubSeq(p4.buffer, 1, n))
      BY <1>8, <2>3, Zenon
    <3> QED
      <4>0. p4.stage = "check"
        BY <1>8
      <4>1. p4.buffer[n + 1] = Digest(SubSeq(p4.buffer, 1, n)) =>
               ParseCheck(p4) = [p4 EXCEPT !.stage = "done"]
        BY <3>1, <3>2, <4>0, CheckDecides
      <4> QED
        BY <3>3, <4>1, Zenon
  <2> QED
    BY <2>4 DEF p5
<1>19. FromHead(p0) = p5
  BY <1>11, <1>13, <1>15, <1>17, <1>18
     DEF FromHead, FromSubHead, FromContext, FromUserData, FromCheck
<1> QED
  BY <1>7, <1>8, <1>10, <1>19 DEF all

(* Once the parser is done, or has failed, at a stage, more bytes behind   *)
(* what it had change nothing.                                             *)
LEMMA CheckOver ==
  ASSUME NEW p \in ParserState, NEW b \in Seq(Cell),
         p.stage \in {"check"} \union Over, FromCheck(p).stage \in Over
  PROVE  FromCheck(Extend(p, b)) = Extend(FromCheck(p), b)
<1> DEFINE q   == Extend(p, b)
           end == p.context.end + p.head.size
<1>1. /\ q.stage = p.stage /\ q.head = p.head /\ q.context = p.context
      /\ Len(p.buffer) \in Nat /\ Len(q.buffer) \in Nat /\ Len(q.buffer) >= Len(p.buffer)
      /\ \A i \in Nat \ {0} : i <= Len(p.buffer) => q.buffer[i] = p.buffer[i]
      /\ \A m \in Nat \ {0}, n \in Nat : n <= Len(p.buffer) =>
            SubSeq(q.buffer, m, n) = SubSeq(p.buffer, m, n)
  BY ExtendKeeps
<1>2. CASE p.stage \in Over
  BY <1>1, <1>2, StagesIdle DEF FromCheck, Over
<1>3. CASE p.stage = "check"
  <2>1. end \in Nat
    <3>1. p.context.end \in Nat /\ p.head.size \in Nat
      BY DEF ParserState, Contexts, Heads
    <3> QED
      BY <3>1, Sums
  <2>2. ~(Len(p.buffer) <= end)
    BY <1>3 DEF FromCheck, ParseCheck, Over
  <2>0. end = q.context.end + q.head.size /\ q.stage = "check"
    BY <1>1, <1>3
  <2> HIDE DEF q, end
  <2>3. /\ ~(Len(q.buffer) <= end) /\ end <= Len(p.buffer) /\ end + 1 <= Len(p.buffer)
        /\ end + 1 \in Nat \ {0} /\ 1 \in Nat \ {0}
    BY <1>1, <2>1, <2>2
  <2>4. /\ q.buffer[end + 1] = p.buffer[end + 1]
        /\ SubSeq(q.buffer, 1, end) = SubSeq(p.buffer, 1, end)
    BY <1>1, <2>1, <2>3
  <2>5. Digest(SubSeq(q.buffer, 1, end)) = Digest(SubSeq(p.buffer, 1, end))
    BY <2>4, Zenon
  <2> DEFINE right == p.buffer[end + 1] = Digest(SubSeq(p.buffer, 1, end))
  <2>6. CASE ~right
    <3>1. ParseCheck(p) = Failed(p, -4001)
      BY <1>3, <2>2, <2>6, CheckDecides DEF end
    <3>2. q.buffer[end + 1] # Digest(SubSeq(q.buffer, 1, end))
      BY <2>4, <2>5, <2>6, Zenon
    <3>3. ParseCheck(q) = Failed(q, -4001)
      BY <1>3, <2>0, <2>3, <3>2, CheckDecides
    <3>4. Failed(q, -4001) = Extend(Failed(p, -4001), b)
      <4>1. \A code \in Int : Failed(Extend(p, b), code) = Extend(Failed(p, code), b)
        BY FailureExtends
      <4> QED
        BY <4>1, -4001 \in Int DEF q
    <3> QED
      BY <3>1, <3>3, <3>4 DEF FromCheck, q
  <2>7. CASE right
    <3>1. ParseCheck(p) = [p EXCEPT !.stage = "done"]
      BY <1>3, <2>2, <2>7, CheckDecides DEF end
    <3>2. q.buffer[end + 1] = Digest(SubSeq(q.buffer, 1, end))
      BY <2>4, <2>5, <2>7, Zenon
    <3>3. ParseCheck(q) = [q EXCEPT !.stage = "done"]
      BY <1>3, <2>0, <2>3, <3>2, CheckDecides
    <3>4. [q EXCEPT !.stage = "done"] = Extend([p EXCEPT !.stage = "done"], b)
      BY DEF Extend, ParserState, q
    <3> QED
      BY <3>1, <3>3, <3>4 DEF FromCheck, q
  <2> QED
    BY <2>6, <2>7
<1> QED
  BY <1>2, <1>3

LEMMA UserDataOver ==
  ASSUME NEW p \in ParserState, NEW b \in Seq(Cell),
         p.stage \in {"user data"} \union Over, FromUserData(p).stage \in Over
  PROVE  FromUserData(Extend(p, b)) = Extend(FromUserData(p), b)
<1>1. CASE p.stage \in Over
  <2>1. Extend(p, b).stage \in Over
    BY <1>1, ExtendKeeps
  <2> QED
    BY <1>1, <2>1, StagesIdle DEF FromUserData, FromCheck, Over
<1>2. CASE p.stage = "user data"
  <2>1. ParseUserData(p).stage # "user data"
    BY <1>2, StagesIdle, StagesWait DEF FromUserData, FromCheck, Over
  <2>2. /\ ParseUserData(Extend(p, b)) = Extend(ParseUserData(p), b)
        /\ ParseUserData(p) \in ParserState /\ ParseUserData(p).stage = "check"
    BY <1>2, <2>1, UserDataExtends
  <2> QED
    BY <2>2, CheckOver DEF FromUserData
<1> QED
  BY <1>1, <1>2

LEMMA ContextOver ==
  ASSUME NEW p \in ParserState, NEW b \in Seq(Cell),
         p.stage \in {"context"} \union Over, FromContext(p).stage \in Over
  PROVE  FromContext(Extend(p, b)) = Extend(FromContext(p), b)
<1>1. CASE p.stage \in Over
  <2>1. Extend(p, b).stage \in Over
    BY <1>1, ExtendKeeps
  <2> QED
    BY <1>1, <2>1, StagesIdle DEF FromContext, FromUserData, FromCheck, Over
<1>2. CASE p.stage = "context"
  <2>1. ParseContext(p).stage # "context"
    BY <1>2, StagesIdle, StagesWait DEF FromContext, FromUserData, FromCheck, Over
  <2>2. /\ ParseContext(Extend(p, b)) = Extend(ParseContext(p), b)
        /\ ParseContext(p) \in ParserState /\ ParseContext(p).stage = "user data"
    BY <1>2, <2>1, ContextExtends
  <2> QED
    BY <2>2, UserDataOver DEF FromContext
<1> QED
  BY <1>1, <1>2

LEMMA SubHeadOver ==
  ASSUME NEW p \in ParserState, NEW b \in Seq(Cell),
         p.stage \in {"subhead"} \union Over, FromSubHead(p).stage \in Over
  PROVE  FromSubHead(Extend(p, b)) = Extend(FromSubHead(p), b)
<1>1. CASE p.stage \in Over
  <2>1. Extend(p, b).stage \in Over
    BY <1>1, ExtendKeeps
  <2> QED
    BY <1>1, <2>1, StagesIdle, ZenonT(30) DEF FromSubHead, FromContext, FromUserData, FromCheck, Over
<1>2. CASE p.stage = "subhead"
  <2>1. ParseSubHead(p).stage # "subhead"
    BY <1>2, StagesIdle, StagesWait DEF FromSubHead, FromContext, FromUserData, FromCheck, Over
  <2>2. /\ ParseSubHead(Extend(p, b)) = Extend(ParseSubHead(p), b)
        /\ ParseSubHead(p) \in ParserState
        /\ ParseSubHead(p).stage \in {"context"} \union Over
    BY <1>2, <2>1, SubHeadExtends DEF Over
  <2> QED
    BY <2>2, ContextOver DEF FromSubHead
<1> QED
  BY <1>1, <1>2

LEMMA HeadOver ==
  ASSUME NEW p \in ParserState, NEW b \in Seq(Cell),
         p.stage = "head", FromHead(p).stage \in Over
  PROVE  FromHead(Extend(p, b)) = Extend(FromHead(p), b)
<1>1. ParseHead(p).stage # "head"
  <2>1. SUFFICES ASSUME ParseHead(p) = p
                 PROVE  FALSE
    BY StagesWait
  <2>2. FromHead(p) = p
    BY <2>1, StagesIdle DEF FromHead, FromSubHead, FromContext, FromUserData, FromCheck
  <2> QED
    BY <2>2 DEF Over
<1>2. /\ ParseHead(Extend(p, b)) = Extend(ParseHead(p), b)
      /\ ParseHead(p) \in ParserState
      /\ ParseHead(p).stage \in {"subhead"} \union Over
  BY <1>1, HeadExtends DEF Over
<1> QED
  BY <1>2, SubHeadOver DEF FromHead

(* Before the encoding of a message is there to its last byte, the parser  *)
(* is neither done nor has it failed.                                      *)
LEMMA EncodingAwaited ==
  ASSUME NEW m, WithinLimits(m), Assemble(m) \in Seq(Cell),
         NEW first \in Seq(Cell), NEW rest \in Seq(Cell),
         first \o rest = Assemble(m), rest # <<>>
  PROVE  Feed(NewParser, first).stage \notin Over
<1> DEFINE p == Extend(NewParser, first)
           r == Feed(NewParser, first)
           q == Feed(NewParser, first \o rest)
<1>1. q.stage = "done" /\ Parsed(q) = m
  BY EncodingRead
<1>2. p \in ParserState /\ p.stage = "head" /\ r = FromHead(p)
  BY NewParserTyped, ExtendKeeps, FeedExtends DEF Over
<1>3. q = FromHead(Extend(p, rest))
  <2>1. Extend(p, rest) = Extend(NewParser, first \o rest)
    <3>1. NewParser.buffer = <<>> /\ (<<>> \o first) \o rest = <<>> \o (first \o rest)
      BY ConcatAssociative, EmptySeq DEF NewParser
    <3> QED
      BY <3>1 DEF Extend, NewParser
  <2> QED
    BY <2>1, NewParserTyped, FeedExtends DEF Over
<1>4. Found(r) /\ r.buffer = first
  BY FeedFinds
<1> HIDE DEF p, r, q
<1> SUFFICES ASSUME r.stage \in Over
             PROVE  FALSE
  BY DEF r
<1>5. q = Extend(r, rest) /\ r \in ParserState
  BY <1>2, <1>3, <1>4, HeadOver DEF Found
<1>6. /\ r.stage = "done" /\ Parsed(r) = m
  <2>1. /\ q.stage = r.stage /\ q.head = r.head /\ q.subhead = r.subhead
        /\ q.context = r.context /\ q.data = r.data
    BY <1>5 DEF Extend, ParserState
  <2> QED
    BY <1>1, <2>1 DEF Parsed
<1>7. IsPrefix(Assemble(m), first)
  BY <1>4, <1>6, DoneAssembles
<1>8. Len(first \o rest) <= Len(first)
  BY <1>7 DEF IsPrefix
<1>9. /\ Len(first \o rest) = Len(first) + Len(rest) /\ Len(first) \in Nat
      /\ Len(rest) \in Nat \ {0}
  BY ConcatProperties, EmptySeq, LenProperties
<1> QED
  BY <1>8, <1>9

-----------------------------------------------------------------------------
(* What has come of an encoding is the beginning of it.                    *)
Beginning(all) ==
    Len(received) <= Len(all) /\ received = SubSeq(all, 1, Len(received))

SentInv == source # <<>> => Beginning(Assemble(source[1]))

LEMMA NoneReceived ==
  ASSUME NEW all \in Seq(Cell), received = <<>>
  PROVE  Beginning(all)
BY SubSeqEmpty, Len(<<>>) = 0 DEF Beginning

LEMMA SentInit == ParserInit => SentInv
<1> SUFFICES ASSUME ParserInit, source # <<>>
             PROVE  Beginning(Assemble(source[1]))
  BY DEF SentInv
<1>1. PICK m \in Messages : source = <<m>>
  BY DEF ParserInit
<1>2. received = <<>> /\ Assemble(m) \in Seq(Cell)
  BY ParserAssumption DEF ParserInit
<1> QED
  BY <1>1, <1>2, NoneReceived

LEMMA SentStep == ChunkingInv /\ SentInv /\ [ParserNext]_parserVars => SentInv'
<1> SUFFICES ASSUME ChunkingInv, SentInv, [ParserNext]_parserVars, source # <<>>
             PROVE  Beginning(Assemble(source[1]))'
  BY DEF SentInv, ParserNext, FeedChunk, Reset, parserVars
<1>0. source' = source
  BY DEF ParserNext, FeedChunk, Reset, parserVars
<1>1. PICK m \in Messages : source = <<m>>
  BY DEF ChunkingInv
<1> DEFINE all == Assemble(m)
<1>2. all \in Seq(Cell) /\ received \in Seq(Cell)
  BY ParserAssumption DEF ChunkingInv
<1>3. source[1] = m /\ source'[1] = m /\ Beginning(all)
  BY <1>0, <1>1 DEF SentInv
<1> HIDE DEF all
<1>4. Len(received) \in Nat /\ Len(all) \in Nat
  BY <1>2, LenProperties
<1>5. SUFFICES Len(received') <= Len(all) /\ received' = SubSeq(all, 1, Len(received'))
  BY <1>3 DEF Beginning, all
<1>6. CASE FeedChunk
  <2>1. PICK last \in Len(received) + 1 .. Len(all) :
           received' = received \o SubSeq(all, Len(received) + 1, last)
    <3>1. PICK bytes \in ChunkOf(Assemble(source[1])) : received' = received \o bytes
      BY <1>6 DEF FeedChunk
    <3> QED
      BY <1>3, <3>1 DEF ChunkOf, all
  <2>2. 1 \in 1 .. Len(all) + 1 /\ Len(received) \in 1 - 1 .. Len(all)
        /\ last \in Len(received) .. Len(all)
    BY <1>3, <1>4 DEF Beginning
  <2>3. SubSeq(all, 1, Len(received)) \o SubSeq(all, Len(received) + 1, last)
          = SubSeq(all, 1, last)
    BY <1>2, <2>2, ConcatAdjacentSubSeq
  <2>4. received' = SubSeq(all, 1, last)
    BY <1>3, <2>1, <2>3 DEF Beginning
  <2>5. Len(SubSeq(all, 1, last)) = last
    <3>1. 0 \in Nat /\ last \in Nat /\ 0 + last <= Len(all) /\ 0 + 1 = 1 /\ 0 + last = last
      BY <1>4, <2>2
    <3>2. Len(SubSeq(all, 0 + 1, 0 + last)) = last
      BY <1>2, <3>1, SliceLength
    <3> QED
      BY <3>1, <3>2
  <2> QED
    BY <1>4, <2>2, <2>4, <2>5
<1>7. CASE Reset
  <2>1. received' = <<>> /\ Len(<<>>) = 0 /\ SubSeq(all, 1, 0) = <<>>
    BY <1>7, SubSeqEmpty DEF Reset
  <2> QED
    BY <1>4, <2>1
<1>8. CASE UNCHANGED parserVars
  BY <1>3, <1>8 DEF parserVars, Beginning
<1> QED
  BY <1>6, <1>7, <1>8 DEF ParserNext

LEMMA EncodingsKept ==
  ASSUME ChunkingInv, SentInv
  PROVE  AcceptsEveryEncoding
<1> SUFFICES ASSUME source # <<>>, WithinLimits(source[1])
             PROVE  /\ parser.stage # "error"
                    /\ parser.stage = "done" <=> received = Assemble(source[1])
                    /\ parser.stage = "done" => Parsed(parser) = source[1]
  BY DEF AcceptsEveryEncoding
<1>1. PICK m \in Messages : source = <<m>>
  BY DEF ChunkingInv
<1> DEFINE all == Assemble(m)
<1>2. all \in Seq(Cell) /\ received \in Seq(Cell) /\ parser = Feed(NewParser, received)
  BY ParserAssumption DEF ChunkingInv, ChunkingInvisible
<1>3. source[1] = m /\ WithinLimits(m) /\ Beginning(all)
  BY <1>1 DEF SentInv
<1>4. CASE received = all
  <2>1. parser.stage = "done" /\ Parsed(parser) = m
    BY <1>2, <1>3, <1>4, EncodingRead
  <2> QED
    BY <1>3, <1>4, <2>1
<1>5. CASE received # all
  <2>1. Len(received) \in Nat /\ Len(all) \in Nat
    BY <1>2, LenProperties
  <2> DEFINE rest == SubSeq(all, Len(received) + 1, Len(all))
  <2>2. rest \in Seq(Cell)
    BY <1>2, <2>1, SliceStays, EmptySeq, Len(received) + 1 \in Nat \ {0}
  <2>3. received \o rest = all
    <3>1. 1 \in 1 .. Len(all) + 1 /\ Len(received) \in 1 - 1 .. Len(all)
          /\ Len(all) \in Len(received) .. Len(all)
      BY <1>3, <2>1 DEF Beginning
    <3>2. SubSeq(all, 1, Len(received)) \o SubSeq(all, Len(received) + 1, Len(all))
            = SubSeq(all, 1, Len(all))
      BY <1>2, <3>1, ConcatAdjacentSubSeq
    <3> QED
      BY <1>2, <1>3, <3>2, SubSeqFull DEF Beginning
  <2>4. rest # <<>>
    BY <1>2, <1>5, <2>3, ConcatEmptySeq
  <2> HIDE DEF rest
  <2>5. parser.stage \notin Over
    BY <1>2, <1>3, <2>2, <2>3, <2>4, EncodingAwaited
  <2> QED
    BY <1>3, <1>5, <2>5 DEF Over
<1> QED
  BY <1>4, <1>5

(* Every message within the limits that assemble_message encodes is        *)
(* accepted by SmpParser, with its last byte and not before, and what it   *)
(* keeps are the fields that were encoded, however the bytes are cut into  *)
(* chunks: parsing inverts assembling.                                     *)
THEOREM EveryEncodingAccepted == ParserSpec => []AcceptsEveryEncoding
<1>1. ParserInit => ChunkingInv /\ SentInv
  BY ChunkingInit, SentInit
<1>2. ChunkingInv /\ SentInv /\ [ParserNext]_parserVars => (ChunkingInv /\ SentInv)'
  BY ChunkingStep, SentStep
<1>3. ChunkingInv /\ SentInv => AcceptsEveryEncoding
  BY EncodingsKept
<1> QED
  BY <1>1, <1>2, <1>3, PTL DEF ParserSpec

-----------------------------------------------------------------------------
(* What of an accepted message reaches the handler.                        *)

(* A field that is copied into a buffer is whole exactly when it fits.     *)
LEMMA CopiedWhole ==
  ASSUME NEW S, NEW seq \in Seq(S), NEW room \in Nat
  PROVE  Copied(seq, room) = seq <=> Len(seq) <= room
<1>1. Len(seq) \in Nat
  OBVIOUS
<1>2. Len(seq) <= room => Copied(seq, room) = seq
  <2>1. ASSUME Len(seq) <= room
        PROVE  Copied(seq, room) = SubSeq(seq, 1, Len(seq))
    <3>1. (IF Len(seq) < room THEN Len(seq) ELSE room) = Len(seq)
      BY <1>1, <2>1
    <3> QED
      BY <3>1 DEF Copied
  <2> QED
    BY <2>1, SubSeqFull
<1>3. Len(Copied(seq, room)) <= room
  <2> DEFINE n == IF Len(seq) < room THEN Len(seq) ELSE room
  <2>1. n \in 0 .. Len(seq) /\ n \in Nat /\ n <= room
    BY <1>1
  <2>2. Copied(seq, room) = SubSeq(seq, 1, n)
    BY DEF Copied
  <2> HIDE DEF n
  <2>3. Len(SubSeq(seq, 1, n)) = IF 1 <= n THEN n - 1 + 1 ELSE 0
    BY <1>1, <2>1, SubSeqProperties
  <2> QED
    BY <2>1, <2>2, <2>3
<1> QED
  BY <1>1, <1>2, <1>3

(* A message within the parser's limits reaches the handler with the       *)
(* identifier and the context it was sent with, and with its tail, its     *)
(* route and its user data as far as the handler's buffers have room: each *)
(* of the three is the one sent exactly when it fits.                      *)
FitsOrIsCut ==
    parser.stage = "done" /\ source # <<>> /\ WithinLimits(source[1]) =>
        /\ Extracted(parser).id = source[1].id
        /\ Extracted(parser).context = source[1].context
        /\ Extracted(parser).tail = source[1].tail <=> Len(source[1].tail) <= TailRoom
        /\ Extracted(parser).route = source[1].route <=> Len(source[1].route) <= RouteRoom
        /\ Extracted(parser).data = source[1].data <=> Len(source[1].data) <= DataRoom

LEMMA ExtractedFits ==
  ASSUME TailRoom \in Nat, RouteRoom \in Nat, DataRoom \in Nat, AcceptsEveryEncoding
  PROVE  FitsOrIsCut
<1> SUFFICES ASSUME parser.stage = "done", source # <<>>, WithinLimits(source[1])
             PROVE  /\ Extracted(parser).id = source[1].id
                    /\ Extracted(parser).context = source[1].context
                    /\ Extracted(parser).tail = source[1].tail <=> Len(source[1].tail) <= TailRoom
                    /\ Extracted(parser).route = source[1].route <=> Len(source[1].route) <= RouteRoom
                    /\ Extracted(parser).data = source[1].data <=> Len(source[1].data) <= DataRoom
  BY DEF FitsOrIsCut
<1> DEFINE m == source[1]
<1>1. Parsed(parser) = m
  BY DEF AcceptsEveryEncoding
<1>2. /\ parser.head.id = m.id /\ parser.context.pairs = m.context
      /\ parser.head.tail = m.tail /\ parser.subhead.route = m.route /\ parser.data = m.data
  BY <1>1 DEF Parsed
<1>3. m.tail \in Seq(Cell) /\ m.route \in Seq(Cell) /\ m.data \in Seq(Cell)
  BY DEF WithinLimits
<1> HIDE DEF m
<1>4. /\ Copied(m.tail, TailRoom) = m.tail <=> Len(m.tail) <= TailRoom
      /\ Copied(m.route, RouteRoom) = m.route <=> Len(m.route) <= RouteRoom
      /\ Copied(m.data, DataRoom) = m.data <=> Len(m.data) <= DataRoom
  BY <1>3, CopiedWhole
<1> QED
  BY <1>2, <1>4 DEF Extracted, m

(* Of a message within the limits that was parsed, the handler gets the    *)
(* tail, the route and the user data that were sent exactly when they fit  *)
(* its buffers (ProcessParsedMessage and the getters of ffi.rs), and the   *)
(* identifier and the context always.                                      *)
THEOREM ReachesOrIsCut ==
  ASSUME TailRoom \in Nat, RouteRoom \in Nat, DataRoom \in Nat
  PROVE  ParserSpec => []FitsOrIsCut
<1>1. AcceptsEveryEncoding => FitsOrIsCut
  BY ExtractedFits
<1> QED
  BY <1>1, EveryEncodingAccepted, PTL

=============================================================================
