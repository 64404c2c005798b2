--------------------------- MODULE RequestService ---------------------------
(***************************************************************************)
(* What the scheduler promises each request: it is accepted once, then     *)
(* gets tokens one at a time until it has max_new_tokens of them or ends   *)
(* earlier, and then none; it always ends, unless it is withdrawn before   *)
(* it was run or taken back.                                               *)
(***************************************************************************)
EXTENDS Integers

CONSTANTS Req, MaxNew

VARIABLES
  accepted,   \* requests received
  withdrawn,  \* requests removed from the queue on the client's demand
  ended,      \* requests with a finish reason
  tokens      \* tokens[r]: tokens delivered to r

vars == <<accepted, withdrawn, ended, tokens>>

Init ==
  /\ accepted = {} /\ withdrawn = {} /\ ended = {}
  /\ tokens = [r \in Req |-> 0]

Open == accepted \ (withdrawn \cup ended)

Accept(r) ==
  /\ r \notin accepted
  /\ accepted' = accepted \cup {r}
  /\ UNCHANGED <<withdrawn, ended, tokens>>

\* One request, or all that are open when the process ends.
Withdraw(S) ==
  /\ S \subseteq Open /\ S # {} /\ (S = Open \/ \E r \in Req : S = {r})
  /\ withdrawn' = withdrawn \cup S
  /\ UNCHANGED <<accepted, ended, tokens>>

\* One batch's result: a token for each of its requests, the last one for some of them.
Deliver(S) ==
  /\ S \subseteq Open /\ S # {}
  /\ tokens' = [r \in Req |-> IF r \in S THEN tokens[r] + 1 ELSE tokens[r]]
  /\ \E E \in SUBSET S :
       /\ {r \in S : tokens[r] + 1 >= MaxNew[r]} \subseteq E
       /\ ended' = ended \cup E
  /\ UNCHANGED <<accepted, withdrawn>>

Next ==
  \/ \E r \in Req : Accept(r)
  \/ \E S \in SUBSET Req : Withdraw(S) \/ Deliver(S)

SafeSpec == Init /\ [][Next]_vars

Spec ==
  /\ SafeSpec
  /\ \A r \in Req : (r \in accepted) ~> (r \in ended \cup withdrawn)

=============================================================================
