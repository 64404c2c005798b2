---------------------------- MODULE MCDetokenizer ----------------------------
(***************************************************************************)
(* A tokenizer whose tokens hold several characters, a half of one, or the *)
(* end of one and the beginning of the next.                               *)
(***************************************************************************)
EXTENDS Detokenizer

CONSTANTS a, b, ab, space, first, second, both, eos

MCText == [t \in Token |-> CASE t = a      -> <<"a">>
                            [] t = b      -> <<"b">>
                            [] t = ab     -> <<"a", "b">>
                            [] t = space  -> <<" ", "<">>
                            [] t = first  -> <<"<">>
                            [] t = second -> <<">">>
                            [] t = both   -> <<">", "<">>
                            [] OTHER      -> <<"!">>]

\* "abb" is encoded as ab, b; two characters of it may come in three tokens.
MCStopStrs == {<<"a", "b", "b">>}
MCEncodedLen == [s \in StopStrs |-> 2]
MCPrompt == <<a>>

=============================================================================
