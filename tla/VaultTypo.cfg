SPECIFICATION Spec
CONSTANTS
  cli = cli
  window = window
  old = old
  new = new
  typo = typo
  Procs = {cli}
  Changers = {}
  Passphrases = {old, new}
  Typos = {typo}
  NoFile = NoFile
  NoKey = NoKey
  Nobody = Nobody
  First = old
  Formats = {1}
  Mistakes = TRUE
  Errors = FALSE
  MaxCalls = 3
INVARIANTS
  KeysRetrievable
CHECK_DEADLOCK FALSE
