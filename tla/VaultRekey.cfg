SPECIFICATION Spec
CONSTANTS
  cli = cli
  window = window
  old = old
  new = new
  typo = typo
  Procs = {cli}
  Changers = {cli}
  Passphrases = {old, new}
  Typos = {typo}
  NoFile = NoFile
  NoKey = NoKey
  Nobody = Nobody
  First = old
  Formats = {1, 2}
  Mistakes = FALSE
  Errors = FALSE
  MaxCalls = 4
INVARIANTS
  KeysRetrievable
  NoStaleConnection
  
PROPERTIES
  ChangeHolds
  RightIsNotWrong
CHECK_DEADLOCK FALSE
