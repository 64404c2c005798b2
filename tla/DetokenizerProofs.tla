------------------------- MODULE DetokenizerProofs -------------------------
(***************************************************************************)
(* The limit of output tokens, for every tokenizer and every               *)
(* max_new_tokens.  Streaming a request to the detokenizer leaves alone    *)
(* when it ends, for every tokenizer, stream interval and number of lost   *)
(* decoding states; what the detokenizer keeps of a request always fits    *)
(* the messages.                                                           *)
(***************************************************************************)
EXTENDS Detokenizer, TLAPS

\* The larger of two numbers, as the limit of LengthBound uses it.
LEMMA MaxOfPair ==
  ASSUME NEW n \in Nat
  PROVE  /\ Max({1, n}) \in Nat
         /\ Max({1, n}) >= 1 /\ Max({1, n}) >= n
         /\ Max({1, n}) = 1 \/ Max({1, n}) = n
<1>1. \E x \in {1, n} : \A y \in {1, n} : x >= y
  <2>1. CASE n >= 1  BY <2>1
  <2>2. CASE n < 1   BY <2>2
  <2> QED  BY <2>1, <2>2
<1>2. Max({1, n}) \in {1, n} /\ \A y \in {1, n} : Max({1, n}) >= y
  BY <1>1 DEF Max
<1> QED  BY <1>2

\* What the proof needs to know of the output: it is a sequence of tokens.
OutputType == outputIds \in Seq(Token)

\* check_finished gives no reason, or the length as one, only on the right side of the limit.
LEMMA ReasonAndLength ==
  ASSUME NEW ids
  PROVE  /\ CheckFinished(ids) = "none"   => ~AtLength(ids)
         /\ CheckFinished(ids) = "length" => AtLength(ids)
BY DEF CheckFinished

\* process_batch_result appends tokens to unfinished requests only, and check_finished
\* compares their number with max_new_tokens after every one: a request never has more than
\* max_new_tokens tokens, but for the one that is always computed, and is unfinished only
\* below that limit.
THEOREM LengthLimited == Spec => []LengthBound
<1> USE FinishAssumption
<1> DEFINE IInv == OutputType /\ LengthBound
<1>1. Init => IInv
  <2> SUFFICES ASSUME Init PROVE IInv
    OBVIOUS
  <2>1. outputIds \in Seq(Token) /\ Len(outputIds) = 0
    BY DEF Init
  <2>2. MaxNew \in Nat
    BY DEF FinishAssumption
  <2> QED  BY <2>1, <2>2, MaxOfPair DEF Init, LengthBound, OutputType
<1>2. IInv /\ [Next]_vars => IInv'
  <2> SUFFICES ASSUME IInv, [Next]_vars PROVE IInv'
    OBVIOUS
  <2>0. MaxNew \in Nat
    BY DEF FinishAssumption
  <2>1. ASSUME NEW t \in Token, AppendToken(t) PROVE IInv'
    <3>1. outputIds' \in Seq(Token) /\ Len(outputIds') = Len(outputIds) + 1
      BY <2>1 DEF AppendToken, OutputType
    <3>2. finishedReason = "none" /\ Len(outputIds) \in Nat
      BY <2>1 DEF AppendToken, OutputType
    <3>3. Len(outputIds) < Max({1, MaxNew})
      BY <3>2 DEF LengthBound
    <3>4. finishedReason' = CheckFinished(outputIds')
      BY <2>1 DEF AppendToken
    <3>5. /\ finishedReason' = "none"   => Len(outputIds') < MaxNew
          /\ finishedReason' = "length" => Len(outputIds') >= MaxNew
      BY <3>1, <3>2, <3>4, <2>0, ReasonAndLength DEF AtLength
    <3> HIDE DEF Max
    <3> QED  BY <3>1, <3>2, <3>3, <3>5, <2>0, MaxOfPair DEF LengthBound, OutputType
  <2>2. CASE AbortRequest
    BY <2>2 DEF AbortRequest, LengthBound, OutputType
  <2>3. CASE UNCHANGED vars
    BY <2>3 DEF vars, LengthBound, OutputType
  <2> QED  BY <2>1, <2>2, <2>3 DEF Next
<1>3. IInv => LengthBound
  OBVIOUS
<1> QED  BY <1>1, <1>2, <1>3, PTL DEF Spec

----------------------------------------------------------------------------
(* Streaming.                                                               *)

\* Every step is a step of the request or leaves it alone.
LEMMA StepOfRequest ==
  ASSUME [DNext]_<<vars, detok>>
  PROVE  [Next]_vars
<1>1. ASSUME NEW t \in Token, Sample(t) PROVE Next
  BY <1>1 DEF Sample, Next
<1>2. CASE Abort BY <1>2 DEF Abort, Next
<1>3. CASE LookUp \/ DecodeBatch \/ KeyError \/ Forget
  BY <1>3 DEF LookUp, DecodeBatch, KeyError, Forget
<1>4. CASE UNCHANGED <<vars, detok>> BY <1>4
<1>5. QED BY <1>1, <1>2, <1>3, <1>4 DEF DNext

\* The request with its stream and detokenizer implements the request alone: stream_output
\* and the detokenizer never change what check_finished decides.
THEOREM ImplementsFinishCheck == DSpec => Spec
<1>1. DInit => Init BY DEF DInit
<1>2. [DNext]_<<vars, detok>> => [Next]_vars BY StepOfRequest
<1>3. QED BY <1>1, <1>2, PTL DEF DSpec, Spec

\* What is sent to the client never exceeds max_new_tokens tokens, but for the one that is
\* always computed (check_finished).
THEOREM LengthLimitedInStream == DSpec => []LengthBound
BY ImplementsFinishCheck, LengthLimited, PTL

-----------------------------------------------------------------------------
\* The messages that wait tell of ever more tokens, none of more than there are, and the
\* decoding state's offsets lie in order within the tokens of every one of them: the slices
\* of event_loop never reach beyond a message, or over each other.
OffsetsInOrder ==
  /\ \A i \in DOMAIN channel : channel[i].n \in 1 .. Len(outputIds)
  /\ \A i, j \in DOMAIN channel : i < j => channel[i].n < channel[j].n
  /\ status.surr <= status.read /\ status.read <= Len(Prompt) + Len(outputIds)
  /\ \A i \in DOMAIN channel : status.read <= Len(Prompt) + channel[i].n

Message == [n : Nat, reason : {"none", "abort", "length", "token", "str"}]

StreamType ==
  /\ outputIds \in Seq(Token) /\ channel \in Seq(Message)
  /\ status = [known |-> status.known, text |-> status.text,
                surr |-> status.surr, read |-> status.read]
  /\ status.surr \in Nat /\ status.read \in Nat

InOrder == StreamType /\ OffsetsInOrder

\* What the types say of lengths and numbers.
LEMMA StreamFacts ==
  ASSUME StreamType
  PROVE  /\ Len(outputIds) \in Nat /\ Len(Prompt) \in Nat /\ Len(channel) \in Nat
         /\ DOMAIN channel = 1 .. Len(channel)
         /\ \A i \in DOMAIN channel : channel[i] \in Message /\ channel[i].n \in Nat
         /\ status.surr \in Nat /\ status.read \in Nat
<1>1. Len(outputIds) \in Nat /\ Len(Prompt) \in Nat BY DetokenizerAssumption DEF StreamType
<1>2. channel \in Seq(Message) BY DEF StreamType
<1>3. /\ Len(channel) \in Nat /\ DOMAIN channel = 1 .. Len(channel)
      /\ \A i \in DOMAIN channel : channel[i] \in Message
  BY <1>2
<1>4. \A m \in Message : m.n \in Nat BY DEF Message
<1>5. status.surr \in Nat /\ status.read \in Nat BY DEF StreamType
<1>6. QED BY <1>1, <1>3, <1>4, <1>5

\* A message for a new token goes behind those that wait.
LEMMA SampleKeepsOrder ==
  ASSUME InOrder, NEW t \in Token, Sample(t)
  PROVE  InOrder'
<1> DEFINE m == [n |-> Len(outputIds'), reason |-> finishedReason']
<1>0. StreamType /\ OffsetsInOrder BY DEF InOrder
<1>1. /\ outputIds' \in Seq(Token) /\ status' = status
      /\ Len(outputIds') = Len(outputIds) + 1
  BY <1>0 DEF StreamType, Sample, AppendToken
<1>2. finishedReason' \in {"none", "abort", "length", "token", "str"}
  BY DEF Sample, AppendToken, CheckFinished
<1>3. channel' = channel \/ channel' = Append(channel, m)
  BY DEF Sample, Stream
<1>4. m \in Message /\ m.n = Len(outputIds) + 1
  BY <1>0, <1>1, <1>2, StreamFacts DEF Message
<1> HIDE DEF m
<1>5. CASE channel' = channel
  <2>1. StreamType' BY <1>0, <1>1, <1>5 DEF StreamType
  <2>2. OffsetsInOrder'
    BY <1>0, <1>1, <1>5, StreamFacts DEF OffsetsInOrder
  <2>3. QED BY <2>1, <2>2 DEF InOrder
<1>6. CASE channel' = Append(channel, m)
  <2>1. channel \in Seq(Message) BY <1>0 DEF StreamType
  <2>2. /\ channel' \in Seq(Message) /\ DOMAIN channel' = 1 .. Len(channel) + 1
        /\ \A i \in DOMAIN channel : channel'[i] = channel[i]
        /\ channel'[Len(channel) + 1] = m
    BY <1>4, <1>6, <2>1
  <2>3. StreamType' BY <1>0, <1>1, <2>2 DEF StreamType
  <2>4. \A i \in DOMAIN channel' : i \in DOMAIN channel \/ i = Len(channel) + 1
    BY <1>0, <2>2, StreamFacts
  <2>5. \A i \in DOMAIN channel' : channel'[i].n \in 1 .. Len(outputIds')
    BY <1>0, <1>1, <1>4, <2>2, <2>4, StreamFacts DEF OffsetsInOrder
  <2>6. \A i, j \in DOMAIN channel' : i < j => channel'[i].n < channel'[j].n
    <3> SUFFICES ASSUME NEW i \in DOMAIN channel', NEW j \in DOMAIN channel', i < j
                 PROVE  channel'[i].n < channel'[j].n
      OBVIOUS
    <3>1. i \in DOMAIN channel BY <1>0, <2>2, StreamFacts
    <3>2. channel'[i].n = channel[i].n /\ channel[i].n \in 1 .. Len(outputIds)
      BY <1>0, <2>2, <3>1 DEF OffsetsInOrder
    <3>3. CASE j \in DOMAIN channel BY <1>0, <2>2, <3>1, <3>2, <3>3 DEF OffsetsInOrder
    <3>4. CASE j = Len(channel) + 1 BY <1>0, <1>4, <2>2, <3>2, <3>4, StreamFacts
    <3>5. QED BY <2>4, <3>3, <3>4
  <2>7. \A i \in DOMAIN channel' : status'.read <= Len(Prompt) + channel'[i].n
    BY <1>0, <1>1, <1>4, <2>2, <2>4, StreamFacts DEF OffsetsInOrder
  <2>8. status'.surr <= status'.read /\ status'.read <= Len(Prompt) + Len(outputIds')
    BY <1>0, <1>1, StreamFacts DEF OffsetsInOrder
  <2>9. QED BY <2>3, <2>5, <2>6, <2>7, <2>8 DEF InOrder, OffsetsInOrder
<1>7. QED BY <1>3, <1>5, <1>6

\* Taking a message leaves later ones, beyond which no offset was moved.
LEMMA DecodeKeepsOrder ==
  ASSUME InOrder, DecodeBatch, channel # <<>>
  PROVE  InOrder'
<1>0. StreamType /\ OffsetsInOrder BY DEF InOrder
<1>1. outputIds' = outputIds /\ channel' = Tail(channel)
  BY DEF DecodeBatch, vars
<1>2. channel \in Seq(Message) /\ outputIds \in Seq(Token) /\ Prompt \in Seq(Token)
  BY <1>0, DetokenizerAssumption DEF StreamType
<1>3. /\ channel' \in Seq(Message) /\ DOMAIN channel' = 1 .. Len(channel) - 1
      /\ \A i \in DOMAIN channel' : channel'[i] = channel[i + 1] /\ i + 1 \in DOMAIN channel
      /\ 1 \in DOMAIN channel /\ Head(channel) = channel[1]
  BY <1>1, <1>2
<1>4. Len(DecodeIds(Head(channel))) = Len(Prompt) + channel[1].n
  <2>1. channel[1].n \in 1 .. Len(outputIds) BY <1>0, <1>3 DEF OffsetsInOrder
  <2>2. /\ SubSeq(outputIds, 1, channel[1].n) \in Seq(Token)
        /\ Len(SubSeq(outputIds, 1, channel[1].n)) = channel[1].n
    BY <1>2, <2>1
  <2>3. QED BY <1>2, <1>3, <2>2 DEF DecodeIds
<1> DEFINE read == Len(Prompt) + channel[1].n
<1>5. \/ status' = status
      \/ \E text : status' = [[status EXCEPT !.surr = status.read, !.read = read] EXCEPT !.text = text]
  BY <1>4 DEF DecodeBatch, Advance
<1> HIDE DEF read
<1>6. status = [known |-> status.known, text |-> status.text,
                surr |-> status.surr, read |-> status.read]
  BY <1>0 DEF StreamType
<1>7. \/ status' = status
      \/ \E new : status' = [known |-> status.known, text |-> new, surr |-> status.read, read |-> read]
  <2>1. ASSUME NEW new, status' = [[status EXCEPT !.surr = status.read, !.read = read] EXCEPT !.text = new]
        PROVE  status' = [known |-> status.known, text |-> new, surr |-> status.read, read |-> read]
    BY <1>6, <2>1
  <2>2. QED BY <1>5, <2>1
<1>8. read \in Nat /\ status.read \in Nat /\ status.read <= read
  BY <1>0, <1>3, StreamFacts DEF OffsetsInOrder, read
<1>9. /\ status' = [known |-> status'.known, text |-> status'.text,
                    surr |-> status'.surr, read |-> status'.read]
      /\ status'.surr \in Nat /\ status'.read \in Nat
      /\ status'.read = status.read \/ status'.read = read
      /\ status'.surr <= status'.read
  <2>1. CASE status' = status
    BY <1>0, <1>6, <2>1 DEF StreamType, OffsetsInOrder
  <2>2. ASSUME NEW new,
               status' = [known |-> status.known, text |-> new, surr |-> status.read, read |-> read]
        PROVE  /\ status' = [known |-> status'.known, text |-> status'.text,
                             surr |-> status'.surr, read |-> status'.read]
               /\ status'.surr \in Nat /\ status'.read = read /\ status'.surr <= status'.read
    <3>1. /\ status'.known = status.known /\ status'.text = new
          /\ status'.surr = status.read /\ status'.read = read
      BY <2>2
    <3>2. QED BY <1>8, <2>2, <3>1
  <2>3. QED BY <1>7, <1>8, <2>1, <2>2
<1>10. StreamType' BY <1>1, <1>2, <1>3, <1>9 DEF StreamType
<1>11. \A i \in DOMAIN channel' : status'.read <= Len(Prompt) + channel'[i].n
  <2> SUFFICES ASSUME NEW i \in DOMAIN channel' PROVE status'.read <= Len(Prompt) + channel'[i].n
    OBVIOUS
  <2>1. i + 1 \in DOMAIN channel /\ channel'[i] = channel[i + 1] /\ 1 < i + 1 BY <1>3
  <2>2. channel[1].n < channel[i + 1].n BY <1>0, <1>3, <2>1 DEF OffsetsInOrder
  <2>3. status.read <= Len(Prompt) + channel[i + 1].n BY <1>0, <2>1 DEF OffsetsInOrder
  <2>4. channel[1].n \in Nat /\ channel[i + 1].n \in Nat /\ Len(Prompt) \in Nat
    BY <1>0, <1>3, <2>1, StreamFacts
  <2>5. QED BY <1>9, <2>1, <2>2, <2>3, <2>4 DEF read
<1>12. \A i, j \in DOMAIN channel' : i < j => channel'[i].n < channel'[j].n
  <2> SUFFICES ASSUME NEW i \in DOMAIN channel', NEW j \in DOMAIN channel', i < j
               PROVE  channel'[i].n < channel'[j].n
    OBVIOUS
  <2>1. i \in Int /\ j \in Int /\ i + 1 < j + 1 BY <1>3
  <2>2. channel[i + 1].n < channel[j + 1].n BY <1>0, <1>3, <2>1 DEF OffsetsInOrder
  <2>3. QED BY <1>3, <2>2
<1>13. \A i \in DOMAIN channel' : channel'[i].n \in 1 .. Len(outputIds')
  BY <1>0, <1>1, <1>3 DEF OffsetsInOrder
<1>14. status'.read <= Len(Prompt) + Len(outputIds')
  BY <1>0, <1>1, <1>3, <1>9, StreamFacts DEF OffsetsInOrder, read
<1>15. QED BY <1>9, <1>10, <1>11, <1>12, <1>13, <1>14 DEF InOrder, OffsetsInOrder

\* A state that is made anew starts at the end of the prompt.
LEMMA StateKeepsOrder ==
  ASSUME InOrder, LookUp \/ Forget \/ KeyError \/ Abort \/ UNCHANGED <<vars, detok>>
  PROVE  InOrder'
<1>0. StreamType /\ OffsetsInOrder BY DEF InOrder
<1>1. /\ outputIds' = outputIds /\ channel' = channel
      /\ \/ status' = status \/ status' = NoStatus
         \/ status' = [known |-> TRUE, text |-> <<>>, surr |-> 0, read |-> Len(Prompt)]
  BY DEF LookUp, Forget, KeyError, Abort, AbortRequest, vars, detok
<1>2. Len(Prompt) \in Nat BY <1>0, StreamFacts
<1>3. CASE status' = status
  BY <1>0, <1>1, <1>3 DEF InOrder, StreamType, OffsetsInOrder
<1>4. CASE status' = NoStatus
  <2>1. StreamType' BY <1>0, <1>1, <1>4 DEF StreamType, NoStatus
  <2>2. status'.surr = 0 /\ status'.read = 0 BY <1>4 DEF NoStatus
  <2>3. QED BY <1>0, <1>1, <2>1, <2>2, StreamFacts DEF InOrder, OffsetsInOrder
<1>5. CASE status' = [known |-> TRUE, text |-> <<>>, surr |-> 0, read |-> Len(Prompt)]
  <2>1. StreamType' BY <1>0, <1>1, <1>2, <1>5 DEF StreamType
  <2>2. status'.surr = 0 /\ status'.read = Len(Prompt) BY <1>5
  <2>3. QED BY <1>0, <1>1, <1>2, <2>1, <2>2, StreamFacts DEF InOrder, OffsetsInOrder
<1>6. QED BY <1>1, <1>3, <1>4, <1>5

\* A message is taken only when there is one.
MessageTaken == loop = "decode" => channel # <<>>

LEMMA MessageStays ==
  ASSUME StreamType, MessageTaken, [DNext]_<<vars, detok>>
  PROVE  MessageTaken'
<1>1. ASSUME NEW t \in Token, Sample(t) PROVE MessageTaken'
  <2>1. loop' = loop BY <1>1 DEF Sample
  <2>2. channel \in Seq(Message) BY DEF StreamType
  <2>3. \/ channel' = channel
        \/ channel' = Append(channel, [n |-> Len(outputIds'), reason |-> finishedReason'])
    BY <1>1 DEF Sample, Stream
  <2>4. Append(channel, [n |-> Len(outputIds'), reason |-> finishedReason']) # <<>>
    BY <2>2
  <2>5. QED BY <2>1, <2>3, <2>4 DEF MessageTaken
<1>2. CASE LookUp BY <1>2 DEF LookUp, MessageTaken
<1>3. CASE DecodeBatch BY <1>3 DEF DecodeBatch, MessageTaken
<1>4. CASE KeyError \/ Forget \/ Abort \/ UNCHANGED <<vars, detok>>
  BY <1>4 DEF KeyError, Forget, Abort, MessageTaken, detok
<1>5. QED BY <1>1, <1>2, <1>3, <1>4 DEF DNext

\* event_loop slices decode_ids at offsets that are in order and within the message, for
\* every interval, every prompt and however often the decoding state is lost.
THEOREM OffsetsStayInOrder == DSpec => []OffsetsInOrder
<1> DEFINE Inv == InOrder /\ MessageTaken
<1>1. DInit => Inv
  <2> SUFFICES ASSUME DInit PROVE Inv
    OBVIOUS
  <2>1. /\ channel = <<>> /\ outputIds = <<>> /\ loop = "look up" /\ status = NoStatus
    BY DEF DInit, Init
  <2>2. /\ status.surr = 0 /\ status.read = 0 /\ status.known = FALSE /\ status.text = <<>>
    BY <2>1 DEF NoStatus
  <2>3. StreamType
    <3>1. outputIds \in Seq(Token) /\ channel \in Seq(Message)
      <4>1. \A S : <<>> \in Seq(S) OBVIOUS
      <4>2. QED BY <2>1, <4>1
    <3>2. status = [known |-> status.known, text |-> status.text,
                    surr |-> status.surr, read |-> status.read]
      BY <2>1, <2>2 DEF NoStatus
    <3>3. QED BY <2>2, <3>1, <3>2 DEF StreamType
  <2>4. DOMAIN channel = {} /\ Len(outputIds) = 0 /\ Len(Prompt) \in Nat
    <3>1. Len(<<>>) = 0 OBVIOUS
    <3>2. Len(channel) = 0 /\ Len(outputIds) = 0 BY <2>1, <3>1
    <3>3. DOMAIN channel = 1 .. Len(channel) /\ Len(Prompt) \in Nat BY <2>3, StreamFacts
    <3>4. QED BY <3>2, <3>3
  <2>5. OffsetsInOrder BY <2>2, <2>4 DEF OffsetsInOrder
  <2>6. MessageTaken BY <2>1 DEF MessageTaken
  <2>7. QED BY <2>3, <2>5, <2>6 DEF InOrder
<1>2. Inv /\ [DNext]_<<vars, detok>> => Inv'
  <2> SUFFICES ASSUME Inv, [DNext]_<<vars, detok>> PROVE Inv'
    OBVIOUS
  <2>0. InOrder /\ StreamType /\ MessageTaken BY DEF InOrder
  <2>1. MessageTaken' BY <2>0, MessageStays
  <2>2. ASSUME NEW t \in Token, Sample(t) PROVE InOrder'
    BY <2>0, <2>2, SampleKeepsOrder
  <2>3. ASSUME DecodeBatch PROVE InOrder'
    <3>1. channel # <<>> BY <2>0, <2>3 DEF DecodeBatch, MessageTaken
    <3>2. QED BY <2>0, <2>3, <3>1, DecodeKeepsOrder
  <2>4. ASSUME LookUp \/ Forget \/ KeyError \/ Abort \/ UNCHANGED <<vars, detok>>
        PROVE  InOrder'
    BY <2>0, <2>4, StateKeepsOrder
  <2>5. QED BY <2>1, <2>2, <2>3, <2>4 DEF DNext
<1>3. Inv => OffsetsInOrder BY DEF InOrder
<1>4. QED BY <1>1, <1>2, <1>3, PTL DEF DSpec

============================================================================
