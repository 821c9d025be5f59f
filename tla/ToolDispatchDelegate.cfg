\* A delegate and a send declared in one turn.
SPECIFICATION Spec
CONSTANTS
  s1 = s1  s2 = s2
  fetch = fetch  send = send  post = post  helper = helper  note = note  ghost = ghost
  NoTool = NoTool  NoOverride = NoOverride
  Slot = {s1, s2}
  Tool = {send, helper}
  Registered <- MCRegistered
  Caps <- MCCaps
  OutputTrust <- MCOutputTrust
  NeedsAuth = {}
  Delegates <- MCDelegates
  SubRunTaint <- MCSubRunTaint
  AllowedCaps <- MCAllowed
  Permits = 1
  MaxTurns = 1
CHECK_DEADLOCK FALSE
INVARIANTS FirstWaveTaintMerged
