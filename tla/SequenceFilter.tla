---------------------------- MODULE SequenceFilter ----------------------------
(***************************************************************************)
(* The list comprehension [x for x in seq if x not in S].  SelectSeq of    *)
(* the Sequences module gives the same; a recursive function is used in    *)
(* its place because proofs can unfold it.                                 *)
(***************************************************************************)
EXTENDS Integers, Sequences

Without(seq, S) ==
  LET kept[n \in 0 .. Len(seq)] ==
        IF n = 0 THEN <<>>
        ELSE IF seq[n] \in S THEN kept[n - 1] ELSE Append(kept[n - 1], seq[n])
  IN  kept[Len(seq)]

=============================================================================
