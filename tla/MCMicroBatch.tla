---------------------------- MODULE MCMicroBatch ----------------------------
(***************************************************************************)
(* Small requests for TLC.                                                 *)
(***************************************************************************)
EXTENDS MicroBatch

CONSTANTS r1, r2, r3

\* A prompt that takes several chunks, one that takes two, one that fits.
MCPrompt == [r \in Req |-> CASE r = r1 -> 5 [] r = r2 -> 3 [] OTHER -> 1]
MCMaxNew == [r \in Req |-> CASE r = r1 -> 1 [] r = r2 -> 2 [] OTHER -> 3]

\* Short prompts and long outputs: memory runs out while decoding.
MCPromptShort == [r \in Req |-> IF r = r2 THEN 2 ELSE 1]
MCMaxNewLong  == [r \in Req |-> IF r = r3 THEN 3 ELSE 4]

=============================================================================
