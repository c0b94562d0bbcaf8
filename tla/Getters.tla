------------------------------- MODULE Getters -------------------------------
(***************************************************************************)
(* What the handler sees of a message the parser has accepted.  The        *)
(* getters of core/src/ffi.rs copy a field into a buffer of the caller,    *)
(* as much of it as the buffer has room for, and return how much that is;  *)
(* the handler takes it for the field.  Its buffers have fixed lengths,    *)
(* except the ones for the context, which it asks the size of.             *)
(***************************************************************************)
EXTENDS Parser

CONSTANTS
    TailRoom, RouteRoom, DataRoom   \* lengths of the handler's buffers

Copied(seq, room) == SubSeq(seq, 1, IF Len(seq) < room THEN Len(seq) ELSE room)

Extracted(p) ==
    [id |-> p.head.id,
     tail |-> Copied(p.head.tail, TailRoom),
     route |-> Copied(p.subhead.route, RouteRoom),
     data |-> Copied(p.data, DataRoom),
     context |-> p.context.pairs]

(* A message the parser accepts reaches the handler with all of its user   *)
(* data, up to the 130 KB that docs/README.md:132 gives the block.         *)
DataReachesHandler ==
    parser.stage = "done" /\ source # <<>> => Extracted(parser).data = source[1].data

=============================================================================
