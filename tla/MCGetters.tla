----------------------------- MODULE MCGetters -----------------------------
(* Messages whose user data is as long as the handler's buffer and as long *)
(* as the parser allows.  A cell of user data stands for 2 KiB: the buffer *)
(* of 131072 bytes is 64 cells, MAX_USER_DATA_SIZE = 133120 bytes are 65.  *)
EXTENDS Getters

MCVersion == <<1>>
MCDigest(bytes) == FoldLeft(LAMBDA d, b : (2 * d + b) % 3, 0, bytes)

MCMessages ==
    {[tail |-> <<1>>, id |-> 1, addr |-> <<>>, route |-> <<1, 2>>, extensions |-> <<>>,
      context |-> <<>>, data |-> [i \in 1 .. n |-> i % 3]] : n \in {DataRoom, DataMax}}
=============================================================================
