------------------------- MODULE MCTokenizerManager -------------------------
(***************************************************************************)
(* Two calls of four kinds: a stream with images whose client may leave, a *)
(* plain batch whose client may leave, parallel sampling, and a batch      *)
(* whose second request is refused.                                        *)
(***************************************************************************)
EXTENDS TokenizerManager

CONSTANTS c1, c2

Plain(rids) == [rids |-> rids, batch |-> Len(rids) > 1, parallel |-> FALSE, stream |-> FALSE,
                suspends |-> FALSE, invalid |-> FALSE, leaves |-> FALSE, long |-> {}]

Stream(o) == [o EXCEPT !.stream = TRUE]
Leaves(o) == [o EXCEPT !.leaves = TRUE]
One == [Plain(<<"s">>) EXCEPT !.suspends = TRUE, !.long = {"s"}]
Two == Plain(<<"a", "b">>)

MCRid == {"s", "a", "b", "c"}
MCWorkloads ==
  {[c \in Reader |-> IF c = c1 THEN w[1] ELSE w[2]] :
     w \in {<<Leaves(Stream(One)), [Plain(<<"a", "b", "c">>) EXCEPT !.parallel = TRUE]>>,
            <<Plain(<<"s">>), Leaves(Two)>>,
            <<Plain(<<"s">>), Leaves(Stream([Two EXCEPT !.long = {"a"}]))>>,
            <<Stream(One), [Two EXCEPT !.invalid = TRUE]>>}}
=============================================================================
