------------------------------- MODULE Parser -------------------------------
(***************************************************************************)
(* A parser that is fed a stream of bytes, cut into chunks in any way, and *)
(* reset whenever a message is complete.  The stream is arbitrary, or it   *)
(* is the encoding of a message.                                           *)
(***************************************************************************)
EXTENDS Wire

CONSTANTS
    Messages,       \* the messages a client may encode
    MaxChunk,       \* bound on the length of a chunk
    MaxReceived     \* bound on the bytes fed since the parser was reset

ASSUME ParserAssumption ==
    /\ MaxChunk \in Nat /\ MaxReceived \in Nat
    /\ \A m \in Messages : Assemble(m) \in Seq(Cell)

VARIABLES
    parser,     \* the parser
    received,   \* the bytes fed since it was made or reset
    source      \* <<m>> when they are from the encoding of m, <<>> when they are arbitrary

parserVars == <<parser, received, source>>

ParserInit ==
    /\ parser = NewParser
    /\ received = <<>>
    /\ source \in {<<>>} \union {<<m>> : m \in Messages}

(* The bytes that may come next.                                           *)
AnyChunk ==
    {bytes \in UNION {[1 .. n -> Cell] : n \in 1 .. MaxChunk} :
        Len(received) + Len(bytes) <= MaxReceived}

ChunkOf(encoding) ==
    {SubSeq(encoding, Len(received) + 1, last) : last \in Len(received) + 1 .. Len(encoding)}

FeedChunk ==
    /\ parser.stage \notin {"error", "done"}
    /\ \E bytes \in IF source = <<>> THEN AnyChunk ELSE ChunkOf(Assemble(source[1])) :
          /\ parser' = Feed(parser, bytes)
          /\ received' = received \o bytes
    /\ UNCHANGED source

Reset ==
    /\ parser.stage = "done"
    /\ parser' = NewParser
    /\ received' = <<>>
    /\ UNCHANGED source

ParserNext == FeedChunk \/ Reset

ParserSpec == ParserInit /\ [][ParserNext]_parserVars

-----------------------------------------------------------------------------

(* The parser is at one of the stages, or has left them all behind.        *)
Reached(stages) == parser.stage \in stages \union {"done"}

(* The state has the types of the Rust struct's fields, and the blocks     *)
(* follow one another inside the buffer: the slices the stages take of it  *)
(* with these offsets, which Rust checks by panicking, are in range.  (The *)
(* shortest SubHead has four lengths, the version and a route.)            *)
ParserTypeOK ==
    /\ parser.stage \in {"head", "subhead", "context", "user data", "check", "done", "error"}
    /\ parser.buffer \in Seq(Cell) /\ received \in Seq(Cell)
    /\ parser.head.size \in 0 .. DataMax
    /\ {parser.head.end, parser.subhead.end, parser.context.end} \subseteq 0 .. Len(parser.buffer)
    /\ Reached({"context", "user data", "check"}) =>
          parser.head.end + Len(Version) + 5 <= parser.subhead.end
    /\ Reached({"user data", "check"}) => parser.subhead.end < parser.context.end
    /\ Reached({"check"}) => parser.context.end + parser.head.size <= Len(parser.buffer)

(* How the stream is cut into chunks makes no difference: after every      *)
(* chunk the parser is where it would be had all the bytes come at once.   *)
ChunkingInvisible == parser = Feed(NewParser, received)

(* What the parser extracts from a stream it accepts is what was encoded:  *)
(* assembling the extracted fields again gives the bytes of the stream, up *)
(* to the end of the message.                                              *)
AcceptsOnlyEncodings ==
    parser.stage = "done" => IsPrefix(Assemble(Parsed(parser)), received)

(* A message within the limits the parser keeps, every field of it within  *)
(* its length field.  The assembler does not check them.                   *)
WithinLimits(m) ==
    /\ m \in [tail : Seq(Cell), id : Cell \ {0}, addr : Seq(Cell), route : Seq(Cell),
              extensions : Seq(Cell), context : Seq(Cell \X Cell), data : Seq(Cell)]
    /\ m.tail # <<>> /\ Len(m.tail) <= TailMax
    /\ m.route # <<>> /\ Len(m.data) <= DataMax
    /\ {Len(m.addr), Len(m.route), Len(m.extensions), Len(m.context)} \subseteq Cell
    /\ 4 + Len(Version) + Len(m.addr) + Len(m.route) + Len(m.extensions) <= SubHeadMax

(* A message the assembler encodes within the limits is never rejected on  *)
(* the way, is complete with its last byte and not before, and comes out   *)
(* with the fields that went in.                                           *)
AcceptsEveryEncoding ==
    source # <<>> /\ WithinLimits(source[1]) =>
        /\ parser.stage # "error"
        /\ parser.stage = "done" <=> received = Assemble(source[1])
        /\ parser.stage = "done" => Parsed(parser) = source[1]

=============================================================================
