SPECIFICATION Spec
CONSTANTS
  cli = cli
  window = window
  old = old
  new = new
  typo = typo
  Procs = {cli, window}
  Changers = {cli}
  Passphrases = {old, new}
  Typos = {typo}
  NoFile = NoFile
  NoKey = NoKey
  Nobody = Nobody
  First = old
  Formats = {0, 3}
  Mistakes = TRUE
  Errors = TRUE
  MaxCalls = 4
INVARIANTS
  KeysRetrievable
  CompanionsReadable
PROPERTIES
  ChangeHolds
CHECK_DEADLOCK FALSE
