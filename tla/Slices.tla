------------------------------- MODULE Slices -------------------------------
(* How Go code filters a slice: a loop that appends what it keeps.         *)
EXTENDS Integers, Sequences

(* The elements of seq that are in the set, in their order: the loop with  *)
(* which the message store's Cleanup and Query filter a slice.  It is      *)
(* SelectSeq, which the provers cannot expand.                             *)
Keeping(seq, set) ==
    LET kept[n \in 0 .. Len(seq)] ==
          IF n = 0 THEN <<>>
          ELSE IF seq[n] \in set THEN Append(kept[n - 1], seq[n])
          ELSE kept[n - 1]
    IN  kept[Len(seq)]

=============================================================================
