---------------------------- MODULE MCRebalancer ----------------------------
(***************************************************************************)
(* Small requests for TLC.                                                 *)
(***************************************************************************)
EXTENDS Rebalancer

\* Six short prompts and one of two chunks; what ends early leaves slots of unequal size.
MCChunks == [r \in Req |-> IF r = 6 THEN 2 ELSE 1]
MCTokens == {[r \in Req |-> IF r \in S THEN 1 ELSE 3] : S \in SUBSET {2, 3, 6}}

\* Seven short prompts that wait at the start and two prompts of four chunks.
MCLongChunks == [r \in Req |-> IF r \in {8, 9} THEN 4 ELSE 1]
MCLongTokens == {<<3, 3, 3, 3, 4, 4, 4, 1, 1>>}

\* Two prompts, the first of which ends with its first token.
MCShortTokens == {[r \in Req |-> r]}

=============================================================================
