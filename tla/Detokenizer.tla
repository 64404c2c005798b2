----------------------------- MODULE Detokenizer -----------------------------
(***************************************************************************)
(* The detokenizer process and one request it gets tokens of: every so     *)
(* many tokens, and when the request ends, the scheduler sends all tokens  *)
(* so far, and the detokenizer turns them into text step by step.  A       *)
(* request's decoding state can be dropped in favour of those of other     *)
(* requests.  Text[t] is what t's bytes are; a character of two bytes may  *)
(* be spread over two tokens, and the tokenizer drops a leading space.     *)
(***************************************************************************)
EXTENDS FinishCheck

CONSTANTS
  Prompt,      \* the last tokens of the prompt, sent with the output
  Interval,    \* stream_interval, or 50 if the request does not stream
  NoStopTrim,  \* no_stop_trim
  MaxForget    \* how often the decoding state is dropped (a bound of the model)

ASSUME DetokenizerAssumption == /\ Prompt \in Seq(Token) /\ Interval \in Nat \ {0}
                                /\ NoStopTrim \in BOOLEAN /\ MaxForget \in Nat

VARIABLES
  channel,   \* recv_from_scheduler: number of output tokens and finished_reason of each message
  loop,      \* the loop of event_loop that comes next; "dead" after a KeyError
  status,    \* decode_status[rid]; surr and read are offsets
  sent,      \* the text of the last message to the tokenizer manager
  forgotten  \* how often the state was dropped (not in the code)

detok == <<channel, loop, status, sent, forgotten>>
NoStatus == [known |-> FALSE, text |-> <<>>, surr |-> 0, read |-> 0]

DInit == /\ Init /\ channel = <<>> /\ loop = "look up" /\ status = NoStatus
         /\ sent = <<>> /\ forgotten = 0

-----------------------------------------------------------------------------
(***************************************************************************)
(* The tokenizer.  "<" and ">" are the two bytes of the character "C".     *)
(***************************************************************************)
CharAt(bytes, i) ==
  IF bytes[i] = "<" THEN IF i < Len(bytes) /\ bytes[i + 1] = ">" THEN <<"C">> ELSE <<"?">>
  ELSE IF bytes[i] = ">" THEN IF i > 1 /\ bytes[i - 1] = "<" THEN <<>> ELSE <<"?">>
  ELSE IF bytes[i] = " " /\ i = 1 THEN <<>>
  ELSE <<bytes[i]>>

\* tokenizer.decode: what is no complete character becomes "?".
Rendered(ids) == LET bytes == Decode(ids) IN FlattenSeq([i \in DOMAIN bytes |-> CharAt(bytes, i)])

AfterFirst(s, n) == SubSeq(s, n + 1, Len(s))

\* find_printable_text of a text that ends with "?", or is empty.
Printable(text) ==
  LET n == Len(text)
  IN  IF n > 1 /\ text[n - 1] = "C" THEN SubSeq(text, 1, n - 1)
      ELSE SubSeq(text, 1, Max({0} \cup {i \in 1 .. n : text[i] = " "}))

\* trim_matched_stop, for tokens and for text.
TrimToken(ids, reason) ==
  IF reason = "token" /\ ~NoStopTrim THEN SubSeq(ids, 1, Len(ids) - 1) ELSE ids

\* The first stop string that matched: check_finished takes them in order.
Matched == CHOOSE s \in StopStrs : Occurs(s, Decode(Window(outputIds)))

TrimText(text, reason) ==
  LET found == {i \in 1 .. Len(text) - Len(Matched) + 1 : SubSeq(text, i, i + Len(Matched) - 1) = Matched}
  IN  IF reason = "str" /\ ~NoStopTrim /\ found # {} THEN SubSeq(text, 1, Min(found) - 1) ELSE text

-----------------------------------------------------------------------------
\* stream_output after a token.
Stream(n, reason) ==
  channel' = IF reason # "none" \/ n % Interval = 0
             THEN Append(channel, [n |-> n, reason |-> reason]) ELSE channel

\* process_batch_result for the request.
Sample(t) ==
  /\ AppendToken(t) /\ Stream(Len(outputIds'), finishedReason')
  /\ UNCHANGED <<loop, status, sent, forgotten>>

Abort == AbortRequest /\ UNCHANGED detok

DecodeIds(msg) == Prompt \o SubSeq(outputIds, 1, msg.n)

\* First loop over a batch: the request's state is found or made.
LookUp ==
  /\ loop = "look up" /\ channel # <<>> /\ loop' = "decode"
  /\ status' = IF status.known THEN status
               ELSE [known |-> TRUE, text |-> <<>>, surr |-> 0, read |-> Len(Prompt)]
  /\ UNCHANGED <<channel, sent, forgotten, vars>>

\* Mutant: the surrounding tokens start where the new ones do.
AdvanceAll(st, n) == [st EXCEPT !.surr = n, !.read = n]

\* A text that ends a character moves both offsets on.
Advance(st, n) == [st EXCEPT !.surr = st.read, !.read = n]

\* Mutant: a text that ends within a character is kept as it is.
ShownAsIs(text) == text

Shown(text) == Printable(text)

\* Batch decoding and the second loop, which looks the state up again.
DecodeBatch ==
  /\ loop = "decode" /\ status.known
  /\ LET msg == Head(channel)
         ids == DecodeIds(msg)
         surr == Rendered(SubSeq(ids, status.surr + 1, status.read))
         new == AfterFirst(Rendered(TrimToken(AfterFirst(ids, status.surr), msg.reason)), Len(surr))
         whole == msg.reason # "none" \/ (new # <<>> /\ Last(new) # "?")
     IN  /\ sent' = TrimText(status.text \o (IF whole THEN new ELSE Shown(new)), msg.reason)
         /\ status' = IF msg.reason = "none" /\ whole
                      THEN [Advance(status, Len(ids)) EXCEPT !.text = @ \o new] ELSE status
  /\ channel' = Tail(channel) /\ loop' = "look up"
  /\ UNCHANGED <<forgotten, vars>>

\* The state was dropped after it was looked up: KeyError, and the process ends.
KeyError ==
  /\ loop = "decode" /\ ~status.known /\ loop' = "dead"
  /\ UNCHANGED <<channel, status, sent, forgotten, vars>>

\* LimitedCapacityDict is full and another request's state is put in: in a former batch,
\* or for a request behind this one in the same batch.
Forget ==
  /\ loop # "dead" /\ status.known /\ forgotten < MaxForget
  /\ status' = NoStatus /\ forgotten' = forgotten + 1
  /\ UNCHANGED <<channel, loop, sent, vars>>

DNext == (\E t \in Token : Sample(t)) \/ Abort \/ LookUp \/ DecodeBatch \/ KeyError \/ Forget

DSpec == DInit /\ [][DNext]_<<vars, detok>>

-----------------------------------------------------------------------------
\* What the client should get in the end: the text of all tokens after the prompt's, without
\* the stop token, or up to the first place of the stop string.
Answer == TrimText(AfterFirst(Rendered(Prompt \o TrimToken(outputIds, finishedReason)),
                              Len(Rendered(Prompt))), finishedReason)

\* The answer of a request that has ended is the text of its tokens, however they were split
\* into messages, whatever bytes they end with and whenever the state was dropped.
AnswerIsOutput ==
  finishedReason # "none" /\ channel = <<>> /\ loop = "look up" => sent = Answer

\* Only the last character of the output is not complete yet.
WellFormed == LET text == Rendered(Prompt \o outputIds)
              IN  \A i \in DOMAIN text : i < Len(text) => text[i] # "?"

\* A streaming client is sent longer and longer parts of one text: what was shown is never
\* taken back until the request ends, even if the tokens stop within a character.  It can
\* be if the decoding state was dropped on the way, or the bytes are no text.
NothingTakenBack ==
  [][forgotten = 0 /\ WellFormed /\ sent' # sent /\ Head(channel).reason = "none"
       => IsPrefix(sent, sent')]_<<vars, detok>>

=============================================================================
