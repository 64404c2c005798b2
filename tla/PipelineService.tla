--------------------------- MODULE PipelineService --------------------------
(***************************************************************************)
(* What the pipeline promises whoever reads its results: at most P batches *)
(* are in flight, and every rank applies the tokens of every launched      *)
(* batch to that batch, each exactly once, in launch order.                *)
(***************************************************************************)
EXTENDS Naturals, Sequences

CONSTANTS P, BatchId

VARIABLES
  launched,   \* the batches launched, in order
  applied     \* applied[r]: the results rank r has applied, in order

Rank == 0 .. P - 1

Init ==
  /\ launched = <<>>
  /\ applied = [r \in Rank |-> <<>>]

InFlight == Len(launched) - Len(applied[0])

Launch ==
  /\ InFlight < P
  /\ \E b \in BatchId :
       /\ \A i \in DOMAIN launched : launched[i] < b
       /\ launched' = Append(launched, b)
  /\ UNCHANGED applied

Apply(r) ==
  /\ Len(applied[r]) < Len(launched)
  /\ LET b == launched[Len(applied[r]) + 1]
     IN applied' = [applied EXCEPT ![r] = Append(@, [batch |-> b, tokens |-> b])]
  /\ UNCHANGED launched

Next == Launch \/ \E r \in Rank : Apply(r)

Spec ==
  /\ Init
  /\ [][Next]_<<launched, applied>>
  /\ \A r \in Rank : WF_<<launched, applied>>(Apply(r))

=============================================================================
