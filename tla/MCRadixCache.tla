---------------------------- MODULE MCRadixCache ----------------------------
(***************************************************************************)
(* Small prompts for TLC.                                                  *)
(***************************************************************************)
EXTENDS RadixCache

CONSTANTS a, b

\* Prompts that share prefixes of two and of four tokens, or none; the first two requests
\* are long enough to meet in a full pool.
MCPrompts == {<<first, <<a, b, b, a>>, <<a, b, b, a, b>>, last>> :
                <<first, last>> \in {<< <<b, a, b>>, <<a, b, a>> >>, << <<b, a, b, b>>, <<a, b, a>> >>,
                                     << <<a, b>>, <<a>> >>}}
MCMaxNew == [r \in Req |-> IF r = 1 THEN 3 ELSE IF r = 4 THEN 2 ELSE 1]

=============================================================================
