---------------------------- MODULE TokenHistory ----------------------------
(***************************************************************************)
(* Whether two listed tokens have ever shared a tail.  While they have not,*)
(* the slice of the token store is exactly what is live; afterwards only   *)
(* LiveTokensListed is left.                                               *)
(***************************************************************************)
EXTENDS TokenStore

VARIABLE clashed

clashVars == <<tokens, tails, clashed>>

ClashInit == TokenInit /\ clashed = FALSE

(* A token is generated; its tail may be the one of a listed token.        *)
Issue(tail) ==
    /\ Len(tails) < MaxListed
    /\ \E user \in Users : Generate(user, tail)
    /\ clashed' = (clashed \/ tail \in ToSet(tails))

ClashNext ==
    \E tail \in Tails : Issue(tail) \/ (Revoke(tail) /\ UNCHANGED clashed)

ClashSpec == ClashInit /\ [][ClashNext]_clashVars

-----------------------------------------------------------------------------

(* As long as no tail was drawn that was listed already, List shows the    *)
(* live tokens exactly, each of them once, however Generate and Revoke     *)
(* alternate.                                                              *)
ListExact == clashed \/ (IsInjective(tails) /\ ToSet(tails) = Live)

=============================================================================
