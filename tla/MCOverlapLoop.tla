---------------------------- MODULE MCOverlapLoop ----------------------------
(***************************************************************************)
(* Three requests, one of which has a prompt that may be cut into chunks.  *)
(***************************************************************************)
EXTENDS OverlapLoop

CONSTANTS r1, r2, r3

MCPrompt == [r \in Req |-> IF r = r1 THEN 2 ELSE 1]
MCMaxNew == [r \in Req |-> IF r = r2 THEN 3 ELSE IF r = r3 THEN 1 ELSE 2]

=============================================================================
