----------------------------- MODULE MCExecutor -----------------------------
(* A window and a CLI (humans) and an agent session share one vault. They   *)
(* archive a paper under a key (ArchivePaper), update an expense at the      *)
(* revision shown (UpdateExpense) and record one (RecordExpense); an agent  *)
(* may only leave the last two for a human.                                 *)
EXTENDS Executor, TLC

CONSTANTS window, cli, agent, archive, update, record, k1, papers, expense

MCClients == {window, cli, agent}
MCAgents == {agent}
MCCommands == {archive, update, record}
MCConfirming == {update, record}
MCRevised == {update}
MCKeyOf == (archive :> k1) @@ (update :> NoKey) @@ (record :> NoKey)
MCDocOf == (archive :> papers) @@ (update :> expense) @@ (record :> expense)
=============================================================================
