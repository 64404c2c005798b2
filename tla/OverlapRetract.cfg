SPECIFICATION Spec
CONSTANTS
  r1 = r1
  r2 = r2
  r3 = r3
  NoReq = NoReq
  Req = {r1, r2, r3}
  Prompt <- MCPrompt
  MaxNew <- MCMaxNew
  Grammar = {r2}
  MaxRunning = 6
  MixedModes = {FALSE}
  ProfiledModes = {TRUE}
  MaxRetract = 1
INVARIANT
  NeverExits
