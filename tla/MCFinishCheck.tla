--------------------------- MODULE MCFinishCheck ---------------------------
(***************************************************************************)
(* A tokenizer of four tokens, one of which stands for several characters. *)
(***************************************************************************)
EXTENDS FinishCheck

CONSTANTS a, b, ab, eos

MCText == [t \in Token |-> CASE t = a  -> <<"a">>
                            [] t = b  -> <<"b">>
                            [] t = ab -> <<"a", "b">>
                            [] OTHER  -> <<"!">>]

\* "abb" is encoded as ab, b; two characters of it may come in three tokens.
MCStopStrs == {<<"a", "b", "b">>}
MCEncodedLen == [s \in StopStrs |-> 2]

=============================================================================
