\* A stop token after the first token.
SPECIFICATION Spec
CONSTANTS
  a = a
  b = b
  ab = ab
  eos = eos
  Token = {a, b, ab, eos}
  Text <- MCText
  StopTokens = {eos}
  IgnoreEos = FALSE
  StopStrs <- MCStopStrs
  EncodedLen <- MCEncodedLen
  MaxNew = 5
INVARIANTS
  StopTokenEnds
CHECK_DEADLOCK FALSE
