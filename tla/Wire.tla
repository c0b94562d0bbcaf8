-------------------------------- MODULE Wire --------------------------------
(***************************************************************************)
(* The wire format of a message and its streaming parser: the Rust library *)
(* core/src, which the client calls to assemble and the server to parse.   *)
(*                                                                         *)
(* A byte string is a sequence of cells.  One cell stands for one number   *)
(* of the format, whatever its width (a length, an identifier, a time), or *)
(* for one character, or for the digest.  What the parser decides depends  *)
(* on how many bytes of a field are there; that a field's own bytes can be *)
(* torn apart is the same case as that none of them is there yet.          *)
(*                                                                         *)
(* The parser's five stages run in a fixed order, so its loop is the       *)
(* composition of the stages, each of which leaves a parser that is at     *)
(* another stage, or that needs more bytes, as it is.  The callbacks of    *)
(* the library are left out: neither program sets one.                     *)
(***************************************************************************)
EXTENDS Integers, Sequences, SequencesExt

CONSTANTS
    CellMax,        \* the largest number a length field can hold
    TailMax,        \* TOKEN_TAIL_LEN
    DataMax,        \* MAX_USER_DATA_SIZE
    SubHeadMax,     \* MAX_SUBHEAD_SIZE
    Version,        \* PROTOCOL_VERSION
    Digest(_)       \* md5 of a byte string

Cell == 0 .. CellMax

ASSUME WireAssumption ==
    /\ CellMax \in Nat /\ TailMax \in Nat /\ DataMax \in Nat /\ SubHeadMax \in Nat
    /\ TailMax <= CellMax /\ DataMax <= CellMax
    /\ Version \in Seq(Cell) /\ Len(Version) <= CellMax

-----------------------------------------------------------------------------
(* assemble_message.                                                       *)

(* A length is cut to the width of its field ("as u16").                   *)
Length(seq) == Len(seq) % (CellMax + 1)

Sized(seq) == <<Length(seq)>> \o seq

Body(m) ==
    Sized(m.tail) \o <<Length(m.data), m.id>>
    \o Sized(Version) \o Sized(m.addr) \o Sized(m.route) \o Sized(m.extensions)
    \o <<Length(m.context)>> \o FlattenSeq(m.context)
    \o m.data

Assemble(m) == Append(Body(m), Digest(Body(m)))

-----------------------------------------------------------------------------
(* The parser.  Head, SubHead and Context have an end: the number of cells *)
(* of the buffer up to the end of the block.                               *)

NoHead    == [tail |-> <<>>, size |-> 0, id |-> 0, end |-> 0]
NoSubHead == [addr |-> <<>>, route |-> <<>>, extensions |-> <<>>, end |-> 0]
NoContext == [pairs |-> <<>>, end |-> 0]

(* SmpParser::new, and what reset leaves.                                  *)
NewParser ==
    [stage |-> "head", buffer |-> <<>>, head |-> NoHead, subhead |-> NoSubHead,
     context |-> NoContext, data |-> <<>>, error |-> 0]

Failed(p, code) == [p EXCEPT !.stage = "error", !.error = code]

ParseHeadTight(p) ==
    LET buf == p.buffer
        end == buf[1] + 3
    IN  IF p.stage # "head" \/ Len(buf) < 1 THEN p
        ELSE IF buf[1] = 0 THEN Failed(p, -1001)
        ELSE IF buf[1] >= TailMax THEN Failed(p, -1003)
        ELSE IF Len(buf) < end THEN p
        ELSE IF buf[end - 1] > DataMax THEN Failed(p, -1003)
        ELSE IF buf[end] = 0 THEN Failed(p, -1004)
        ELSE [p EXCEPT
                !.stage = "subhead",
                !.head = [tail |-> SubSeq(buf, 2, 1 + buf[1]),
                          size |-> buf[end - 1], id |-> buf[end], end |-> end]]

(* The length of the token tail and the tail, the length of the user data, *)
(* the identifier.                                                         *)
ParseHead(p) ==
    LET buf == p.buffer
        end == buf[1] + 3
    IN  IF p.stage # "head" \/ Len(buf) < 1 THEN p
        ELSE IF buf[1] = 0 THEN Failed(p, -1001)
        ELSE IF buf[1] > TailMax THEN Failed(p, -1003)
        ELSE IF Len(buf) < end THEN p
        ELSE IF buf[end - 1] > DataMax THEN Failed(p, -1003)
        ELSE IF buf[end] = 0 THEN Failed(p, -1004)
        ELSE [p EXCEPT
                !.stage = "subhead",
                !.head = [tail |-> SubSeq(buf, 2, 1 + buf[1]),
                          size |-> buf[end - 1], id |-> buf[end], end |-> end]]

(* A text with its length in front, after the first at cells of buf.       *)
TextEnd(buf, at) == at + 1 + buf[at + 1]
HasText(buf, at) == Len(buf) > at /\ Len(buf) >= TextEnd(buf, at)
Text(buf, at)    == SubSeq(buf, at + 2, TextEnd(buf, at))

ParseSubHeadRelative(p) ==
    LET buf   == p.buffer
        start == p.head.end
        addr  == TextEnd(buf, start)
        route == TextEnd(buf, addr)
        ext   == TextEnd(buf, route)
        end   == TextEnd(buf, ext)
        Here  == /\ HasText(buf, start) /\ HasText(buf, addr)
                 /\ HasText(buf, route) /\ HasText(buf, ext)
    IN  IF p.stage # "subhead" \/ ~Here THEN p
        ELSE IF end - start > SubHeadMax THEN Failed(p, -2003)
        ELSE IF Text(buf, start) # Version THEN Failed(p, -2001)
        ELSE IF Text(buf, route) = <<>> THEN Failed(p, -2002)
        ELSE [p EXCEPT
                !.stage = "context",
                !.subhead = [addr |-> Text(buf, addr), route |-> Text(buf, route),
                             extensions |-> Text(buf, ext), end |-> end - start]]

(* Version, client address, route and extensions.  Nothing is checked      *)
(* before all of them are there.                                           *)
ParseSubHead(p) ==
    LET buf   == p.buffer
        start == p.head.end
        addr  == TextEnd(buf, start)
        route == TextEnd(buf, addr)
        ext   == TextEnd(buf, route)
        end   == TextEnd(buf, ext)
        Here  == /\ HasText(buf, start) /\ HasText(buf, addr)
                 /\ HasText(buf, route) /\ HasText(buf, ext)
    IN  IF p.stage # "subhead" \/ ~Here THEN p
        ELSE IF end - start > SubHeadMax THEN Failed(p, -2003)
        ELSE IF Text(buf, start) # Version THEN Failed(p, -2001)
        ELSE IF Text(buf, route) = <<>> THEN Failed(p, -2002)
        ELSE [p EXCEPT
                !.stage = "context",
                !.subhead = [addr |-> Text(buf, addr), route |-> Text(buf, route),
                             extensions |-> Text(buf, ext), end |-> end]]

(* The number of context pairs and the pairs.                              *)
ParseContext(p) ==
    LET buf   == p.buffer
        start == p.subhead.end
        count == buf[start + 1]
        end   == start + 1 + 2 * count
    IN  IF p.stage # "context" \/ Len(buf) <= start \/ Len(buf) < end THEN p
        ELSE [p EXCEPT
                !.stage = "user data",
                !.context = [end |-> end,
                             pairs |-> [i \in 1 .. count |->
                                <<buf[start + 2 * i], buf[start + 2 * i + 1]>>]]]

ParseUserDataShort(p) ==
    LET start == p.context.end
        end   == start + p.head.size
    IN  IF p.stage # "user data" \/ Len(p.buffer) < end THEN p
        ELSE [p EXCEPT !.stage = "check", !.data = SubSeq(p.buffer, start + 1, end - 1)]

ParseUserDataEager(p) ==
    LET start == p.context.end
        end   == start + p.head.size
    IN  IF p.stage # "user data" THEN p
        ELSE [p EXCEPT !.stage = "check",
                       !.data = SubSeq(p.buffer, start + 1,
                                       IF Len(p.buffer) < end THEN Len(p.buffer) ELSE end)]

ParseUserData(p) ==
    LET start == p.context.end
        end   == start + p.head.size
    IN  IF p.stage # "user data" \/ Len(p.buffer) < end THEN p
        ELSE [p EXCEPT !.stage = "check", !.data = SubSeq(p.buffer, start + 1, end)]

ParseCheck(p) ==
    LET end == p.context.end + p.head.size
    IN  IF p.stage # "check" \/ Len(p.buffer) <= end THEN p
        ELSE IF p.buffer[end + 1] # Digest(SubSeq(p.buffer, 1, end)) THEN Failed(p, -4001)
        ELSE [p EXCEPT !.stage = "done"]

TryParse(p) == ParseCheck(ParseUserData(ParseContext(ParseSubHead(ParseHead(p)))))

(* feed: bytes after the end of a message are kept, and forgotten by reset. *)
Feed(p, bytes) ==
    IF p.stage \in {"error", "done"} THEN p
    ELSE TryParse([p EXCEPT !.buffer = @ \o bytes])

(* What the getters of a parser that is done return.                       *)
Parsed(p) ==
    [tail |-> p.head.tail, id |-> p.head.id, addr |-> p.subhead.addr,
     route |-> p.subhead.route, extensions |-> p.subhead.extensions,
     context |-> p.context.pairs, data |-> p.data]

=============================================================================
