\* A stop string that no tokenization of it spreads beyond the window; every token is sent.
SPECIFICATION DSpec
CONSTANTS
  a = a
  b = b
  ab = ab
  space = space
  first = first
  second = second
  both = both
  eos = eos
  Token = {a, b, ab, space, first, second, both, eos}
  Text <- MCText
  StopTokens = {eos}
  IgnoreEos = FALSE
  StopStrs <- MCStopStrs
  EncodedLen <- MCEncodedLen
  MaxNew = 4
  Prompt <- MCPrompt
  Interval = 1
  NoStopTrim = FALSE
  MaxForget = 1
INVARIANTS
  LengthBound
  StopStringEnds
  AnswerIsOutput
PROPERTIES
  NothingTakenBack
CHECK_DEADLOCK FALSE
