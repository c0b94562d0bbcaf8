------------------------------ MODULE MCParser ------------------------------
(* Every stream of the cells 0, 1 and 2 up to a length that leaves room    *)
(* for one optional field; the encodings of messages at the limits of each *)
(* field.  The digest depends on the place of every cell.                  *)
EXTENDS Parser

MCVersion == <<1>>

MCDigest(bytes) == FoldLeft(LAMBDA d, b : (2 * d + b) % 3, 0, bytes)

Short == {<<>>, <<1>>}

MCMessages ==
    {m \in [tail : {<<0>>, <<2>>}, id : {1, 2}, addr : Short, route : {<<0>>, <<1, 2>>},
            extensions : Short, context : {<<>>, <<<<1, 2>>>>, <<<<0, 1>>, <<2, 0>>>>},
            data : {<<>>, <<2>>}] :
        Len(m.addr) + Len(m.route) + Len(m.extensions) <= 3}
=============================================================================
