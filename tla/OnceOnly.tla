------------------------------ MODULE OnceOnly ------------------------------
(***************************************************************************)
(* What an idempotent server promises: a request key is executed once, the *)
(* answer it got then never changes, and every response sent for the key   *)
(* is that answer.                                                         *)
(***************************************************************************)
CONSTANTS Keys, Conns, Nothing

VARIABLES
    answer,     \* executed key -> its answer
    sending     \* connection -> the <<key, answer>> it is writing

Executed == DOMAIN answer

OnceInit ==
    /\ answer = [k \in {} |-> k]
    /\ sending = [c \in Conns |-> Nothing]

Execute ==
    /\ \E k \in Keys \ Executed :
          /\ DOMAIN answer' = Executed \union {k}
          /\ \A j \in Executed : answer'[j] = answer[j]
    /\ UNCHANGED sending

Send(c) ==
    /\ sending[c] = Nothing
    /\ \E k \in Executed : sending' = [sending EXCEPT ![c] = <<k, answer[k]>>]
    /\ UNCHANGED answer

Sent(c) ==
    /\ sending[c] # Nothing
    /\ sending' = [sending EXCEPT ![c] = Nothing]
    /\ UNCHANGED answer

OnceNext == Execute \/ \E c \in Conns : Send(c) \/ Sent(c)

OnceSpec == OnceInit /\ [][OnceNext]_<<answer, sending>>

=============================================================================
