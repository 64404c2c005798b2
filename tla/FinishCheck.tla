----------------------------- MODULE FinishCheck -----------------------------
(***************************************************************************)
(* When a request ends: Req.check_finished, called after every sampled     *)
(* token, over the request's sampling parameters.  A text is a sequence of *)
(* characters, and a token stands for one or more of them.                 *)
(***************************************************************************)
EXTENDS Integers, Sequences, SequencesExt

CONSTANTS
  Token,
  Text,          \* Text[t]: what the tokenizer decodes t to
  StopTokens,    \* stop_token_ids, the tokenizer's eos_token_id and additional ones
  IgnoreEos,     \* ignore_eos
  StopStrs,      \* stop
  EncodedLen,    \* EncodedLen[s]: number of tokens the tokenizer encodes s to
  MaxNew         \* max_new_tokens

ASSUME FinishAssumption ==
  /\ StopTokens \subseteq Token /\ IgnoreEos \in BOOLEAN /\ MaxNew \in Nat
  /\ \A s \in StopStrs : s # <<>> /\ EncodedLen[s] \in 1 .. Len(s)

VARIABLES outputIds, toAbort, finishedReason

vars == <<outputIds, toAbort, finishedReason>>

Init == outputIds = <<>> /\ toAbort = FALSE /\ finishedReason = "none"

Decode(ids) == FlattenSeq([i \in DOMAIN ids |-> Text[ids[i]]])

Occurs(s, text) ==
  \E i \in 1 .. Len(text) - Len(s) + 1 : SubSeq(text, i, i + Len(s) - 1) = s

\* SamplingParams.normalize
StopStrMaxLen == Max({EncodedLen[s] : s \in StopStrs} \cup {0})

\* Mutant: the window is one token shorter.
WindowShort(ids) == SubSeq(ids, Max({1, Len(ids) - StopStrMaxLen + 1}), Len(ids))

\* The last tokens of the output, in which stop strings are looked for.
Window(ids) == SubSeq(ids, Max({1, Len(ids) - StopStrMaxLen}), Len(ids))

\* The token compared with the stop tokens: last_token_id = self.output_ids[0].
LastTokenId(ids) == Head(ids)

\* Mutant: the limit is one token higher.
AtLengthLate(ids) == Len(ids) > MaxNew

AtLength(ids) == Len(ids) >= MaxNew

\* check_finished: the first test that succeeds gives the reason.
StopTokenMatched(ids) == ~IgnoreEos /\ LastTokenId(ids) \in StopTokens
StopStrMatched(ids)   == \E s \in StopStrs : Occurs(s, Decode(Window(ids)))

CheckFinished(ids) ==
  IF toAbort THEN "abort"
  ELSE IF AtLength(ids) THEN "length"
  ELSE IF StopTokenMatched(ids) THEN "token"
  ELSE IF StopStrMatched(ids) THEN "str"
  ELSE "none"

\* A result is applied to an unfinished request.
AppendToken(t) ==
  /\ finishedReason = "none"
  /\ outputIds' = Append(outputIds, t)
  /\ finishedReason' = CheckFinished(outputIds')
  /\ UNCHANGED toAbort

AbortRequest ==
  /\ finishedReason = "none"
  /\ toAbort' = TRUE
  /\ UNCHANGED <<outputIds, finishedReason>>

Next == (\E t \in Token : AppendToken(t)) \/ AbortRequest

Spec == Init /\ [][Next]_vars

-----------------------------------------------------------------------------
\* "The maximum number of output tokens", but one token is always computed; in that many
\* tokens every request ends, and "length" is the reason only when they are all there.
LengthBound ==
  /\ Len(outputIds) <= Max({1, MaxNew})
  /\ finishedReason = "none" => Len(outputIds) < Max({1, MaxNew})
  /\ finishedReason = "length" => Len(outputIds) >= MaxNew

\* "Stop when hitting any of the strings in this list": while a request goes on, its
\* text holds no stop string, although only a window of its last tokens is searched.
StopStringEnds == finishedReason = "none" => \A s \in StopStrs : ~Occurs(s, Decode(outputIds))

\* "Stop when hitting any of the token_ids in this list": while a request goes on, it
\* has no stop token.
StopTokenEnds ==
  finishedReason = "none" /\ ~IgnoreEos => \A i \in DOMAIN outputIds : outputIds[i] \notin StopTokens

=============================================================================
