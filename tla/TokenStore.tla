----------------------------- MODULE TokenStore -----------------------------
(***************************************************************************)
(* The server's token store, internal/auth/token.go.  tokens is the map    *)
(* from a token tail to the user its token is bound to; tails is the slice *)
(* List answers from.  A request carries only the tail, the last four      *)
(* bytes of the token, so the rest of the token is left out.               *)
(*                                                                         *)
(* Generate draws the token from math/rand seeded with the current time    *)
(* and does not look whether the tail is taken: two tokens may share a     *)
(* tail, by chance or because two calls read the same clock value.         *)
(* Each method holds the store's mutex, so each is one atomic action.      *)
(***************************************************************************)
EXTENDS Naturals, Sequences, SequencesExt

CONSTANTS
    Tails,      \* the token tails that can be drawn
    Users,      \* the user names a token can be bound to
    MaxListed   \* bound on the length of tails, for model checking

ASSUME MaxListedAssumption == MaxListed \in Nat

VARIABLES
    tokens,     \* live tail -> user
    tails       \* the tails List shows

tokenVars == <<tokens, tails>>

Live == DOMAIN tokens

-----------------------------------------------------------------------------

TokenInit ==
    /\ tokens = [t \in {} |-> t]
    /\ tails = <<>>

(* Generate binds the drawn tail to user, whoever it was bound to before,  *)
(* and appends it to tails, even when it is there already.                 *)
Generate(user, tail) ==
    /\ tokens' = [t \in Live \union {tail} |-> IF t = tail THEN user ELSE tokens[t]]
    /\ tails' = Append(tails, tail)

RevokeKeepingListed(tail) ==
    /\ tail \in Live
    /\ tokens' = [t \in Live \ {tail} |-> tokens[t]]
    /\ UNCHANGED tails

RevokeLast(tail) ==
    /\ tail \in Live
    /\ tokens' = [t \in Live \ {tail} |-> tokens[t]]
    /\ tails' = Front(tails)

(* Revoke of a live tail: out of the map, and its first occurrence out of  *)
(* tails.  Of a tail that is not live it changes nothing.                  *)
Revoke(tail) ==
    /\ tail \in Live
    /\ tokens' = [t \in Live \ {tail} |-> tokens[t]]
    /\ tails' = RemoveFirst(tails, tail)

TokenNext ==
    \E tail \in Tails :
        \/ Len(tails) < MaxListed /\ \E user \in Users : Generate(user, tail)
        \/ Revoke(tail)

TokenSpec == TokenInit /\ [][TokenNext]_tokenVars

-----------------------------------------------------------------------------

(* The state has the types of the Go struct's fields.                      *)
TokenTypeOK ==
    /\ Live \subseteq Tails
    /\ tokens \in [Live -> Users]
    /\ tails \in Seq(Tails)

(* Every token that opens the server is one List shows, so an operator who *)
(* revokes what is listed revokes everything, even after tails collided    *)
(* and Revoke cut only one of two equal entries out of the slice.          *)
LiveTokensListed == Live \subseteq ToSet(tails)

=============================================================================
