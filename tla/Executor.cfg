SPECIFICATION FairSpec
CONSTANTS
  window = window
  cli = cli
  agent = agent
  archive = archive
  update = update
  record = record
  k1 = k1
  papers = papers
  expense = expense
  Clients <- MCClients
  Agents <- MCAgents
  Commands <- MCCommands
  Confirming <- MCConfirming
  Revised <- MCRevised
  KeyOf <- MCKeyOf
  DocOf <- MCDocOf
  Docs = {papers, expense}
  Keys = {k1}
  NoKey = NoKey
  Nobody = Nobody
  Revisions = {0, 1, 2, 3}
  MaxCalls = 3
INVARIANTS
  TypeOK
  LogExplainsBook
  OneEffectPerKey
  AgentsNeedAHuman
  ConfirmedHasOneEffect
  NoLostUpdate
PROPERTIES
  ImplementsJournal
  CallsAreAnswered
CHECK_DEADLOCK FALSE
