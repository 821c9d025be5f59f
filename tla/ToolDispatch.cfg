\* Two calls a turn, two turns, every kind of tool.
SPECIFICATION FairSpec
CONSTANTS
  s1 = s1  s2 = s2
  fetch = fetch  send = send  post = post  helper = helper  note = note  ghost = ghost
  NoTool = NoTool  NoOverride = NoOverride
  Slot = {s1, s2}
  Tool = {fetch, send, post, helper, note, ghost}
  Registered <- MCRegistered
  Caps <- MCCaps
  OutputTrust <- MCOutputTrust
  NeedsAuth = {note}
  Delegates <- MCDelegates
  SubRunTaint <- MCSubRunTaint
  AllowedCaps <- MCAllowed
  Permits = 1
  MaxTurns = 2
CHECK_DEADLOCK FALSE
INVARIANTS SendsHeldBack NothingLost
PROPERTIES ImplementsTurn TurnEnds
