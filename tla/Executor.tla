------------------------------ MODULE Executor ------------------------------
(***************************************************************************)
(* griffe-core's executor: the only way to write in the vault. Several      *)
(* facades (the window, the CLI, agent sessions) open the same file; each   *)
(* command runs in one IMMEDIATE transaction, modelled statement by         *)
(* statement, so that a crash or a failing statement may fall between any   *)
(* two of them. `db` is what is committed, `work` what the open transaction *)
(* sees, `holder` who holds SQLite's writer lock.                           *)
(***************************************************************************)
EXTENDS Integers, Sequences

CONSTANTS
    Clients, Agents, Commands, Confirming, Revised, Revisions,
    Keys, NoKey, KeyOf, Docs, DocOf,
    MaxCalls,       \* bound: calls made in a behaviour
    Nobody

ASSUME ClientsAssumption ==
    /\ Agents \subseteq Clients
    /\ Nobody \notin Clients
    /\ MaxCalls \in Nat

\* No command of the repository has both a key and a confirmation:
\* ArchivePaper alone has a key, and it asks for no confirmation.
ASSUME CommandsAssumption ==
    /\ NoKey \notin Keys
    /\ KeyOf \in [Commands -> Keys \cup {NoKey}]
    /\ DocOf \in [Commands -> Docs]
    /\ Confirming \subseteq Commands
    /\ Revised \subseteq Commands
    /\ \A cmd \in Confirming : KeyOf[cmd] = NoKey

ASSUME RevisionsAssumption == Revisions \subseteq Nat

VARIABLES
    db,         \* the committed database
    work,       \* the database as the open transaction has changed it
    holder,     \* the client whose transaction is open
    pc, req,    \* where each client's call is, and what it asked
    seen,       \* the revisions each client last read
    calls,      \* calls made so far
    told        \* history: every success a client was told

Journal == INSTANCE CommandJournal WITH log <- db

storage == <<db, work, holder>>
vars == <<db, work, holder, pc, req, seen, calls, told>>

NoRequest == [op |-> "none"]
ExecuteRequest(cmd, expected) == [op |-> "execute", cmd |-> cmd, expected |-> expected]
ConfirmRequest(id) == [op |-> "confirm", id |-> id]

Init ==
    /\ db = Journal!EmptyLog
    /\ work = Journal!EmptyLog
    /\ holder = Nobody
    /\ pc = [c \in Clients |-> "idle"]
    /\ req = [c \in Clients |-> NoRequest]
    /\ seen = [c \in Clients |-> [d \in Docs |-> 0]]
    /\ calls = 0
    /\ told = {}

----------------------------------------------------------------------------
(* What a client does outside a transaction. A dry run returns before any   *)
(* transaction is opened: it is a stuttering step here.                     *)

(* A facade shows the rows, with the revision it will quote.                *)
Read(c) ==
    /\ pc[c] = "idle"
    /\ seen[c] # db.revision
    /\ seen' = [seen EXCEPT ![c] = db.revision]
    /\ UNCHANGED <<storage, pc, req, calls, told>>

Ask(c, r) ==
    /\ pc[c] = "idle"
    /\ calls < MaxCalls
    /\ calls' = calls + 1
    /\ pc' = [pc EXCEPT ![c] = "waiting"]
    /\ req' = [req EXCEPT ![c] = r]
    /\ UNCHANGED <<storage, seen, told>>

AskExecute(c, cmd) ==
    /\ seen[c][DocOf[cmd]] \in Revisions
    /\ Ask(c, ExecuteRequest(cmd, seen[c][DocOf[cmd]]))

(* Only a human confirms, from the CLI or the window; the id may be one     *)
(* that another facade has just confirmed.                                  *)
AskConfirm(c, id) ==
    /\ c \notin Agents
    /\ Ask(c, ConfirmRequest(id))

----------------------------------------------------------------------------
(* The transaction.                                                         *)

IsExecute(c) == req[c].op = "execute"

(* The command a call carries: its own, or the one that was deposited.      *)
CommandOf(c) == IF IsExecute(c) THEN req[c].cmd ELSE db.pending[req[c].id].cmd
ExpectedOf(c) == IF IsExecute(c) THEN req[c].expected
                 ELSE db.pending[req[c].id].expected

AlreadyDone(c) == IsExecute(c) /\ Journal!KeyUsed(work, req[c].cmd)
\* mutant: the confirmation policy asks humans instead of agents
NeedsHumanSwapped(c) == IsExecute(c) /\ req[c].cmd \in Confirming /\ c \notin Agents
NeedsHuman(c) == IsExecute(c) /\ Journal!NeedsHuman(c, req[c].cmd)

\* mutant: the status of the deposited action is not looked at
FoundInAnyStatus(c) == IF IsExecute(c) THEN TRUE ELSE req[c].id \in DOMAIN work.pending

(* confirm finds the deposited action, still pending.                       *)
Found(c) ==
    IF IsExecute(c) THEN TRUE
    ELSE IF req[c].id \in DOMAIN work.pending
    THEN work.pending[req[c].id].status = "pending"
    ELSE FALSE

(* The transaction ends without effect: the lock is free, the copy dropped. *)
Rollback(c) ==
    /\ holder' = Nobody
    /\ work' = db
    /\ pc' = [pc EXCEPT ![c] = "idle"]
    /\ req' = [req EXCEPT ![c] = NoRequest]
    /\ UNCHANGED <<db, seen, calls, told>>

(* BEGIN IMMEDIATE takes the writer lock.                                   *)
Begin(c) ==
    /\ pc[c] = "waiting"
    /\ holder = Nobody
    /\ holder' = c
    /\ work' = db
    /\ pc' = [pc EXCEPT ![c] = "opened"]
    /\ UNCHANGED <<db, req, seen, calls, told>>

(* busy_timeout expires while another client writes.                        *)
Busy(c) ==
    /\ pc[c] = "waiting"
    /\ holder # Nobody
    /\ pc' = [pc EXCEPT ![c] = "idle"]
    /\ req' = [req EXCEPT ![c] = NoRequest]
    /\ UNCHANGED <<storage, seen, calls, told>>

(* The key is known: the recorded output is returned, nothing is written.   *)
Replay(c) ==
    /\ pc[c] = "opened" /\ holder = c
    /\ AlreadyDone(c)
    /\ holder' = Nobody
    /\ work' = db
    /\ pc' = [pc EXCEPT ![c] = "idle"]
    /\ req' = [req EXCEPT ![c] = NoRequest]
    /\ told' = told \cup {[cmd |-> req[c].cmd, output |-> work.keys[KeyOf[req[c].cmd]]]}
    /\ UNCHANGED <<db, seen, calls>>

Deposit(c) ==
    /\ pc[c] = "opened" /\ holder = c
    /\ ~AlreadyDone(c) /\ NeedsHuman(c)
    /\ work' = Journal!Deposited(work, req[c].cmd, req[c].expected)
    /\ pc' = [pc EXCEPT ![c] = "deposited"]
    /\ UNCHANGED <<db, holder, req, seen, calls, told>>

AuditDeposit(c) ==
    /\ pc[c] = "deposited" /\ holder = c
    /\ work' = Journal!Audited(work, Journal!DepositEntry(req[c].cmd, req[c].expected))
    /\ pc' = [pc EXCEPT ![c] = "audited"]
    /\ UNCHANGED <<db, holder, req, seen, calls, told>>

\* mutant: an action already resolved leaves the caller without an answer
UnresolvableIfUnknown(c) ==
    /\ pc[c] = "opened" /\ holder = c
    /\ ~IsExecute(c) /\ req[c].id \notin DOMAIN work.pending
    /\ Rollback(c)

(* confirm: unknown id, or an action another human already resolved.        *)
Unresolvable(c) ==
    /\ pc[c] = "opened" /\ holder = c
    /\ ~Found(c)
    /\ Rollback(c)

Conflict(c) ==
    /\ pc[c] = "opened" /\ holder = c
    /\ Found(c) /\ ~AlreadyDone(c) /\ ~NeedsHuman(c)
    /\ ~Journal!Applicable(work, CommandOf(c), ExpectedOf(c))
    /\ Rollback(c)

Apply(c) ==
    /\ pc[c] = "opened" /\ holder = c
    /\ Found(c) /\ ~AlreadyDone(c) /\ ~NeedsHuman(c)
    /\ Journal!Applicable(work, CommandOf(c), ExpectedOf(c))
    /\ work' = Journal!Applied(work, CommandOf(c))
    /\ pc' = [pc EXCEPT ![c] = "applied"]
    /\ UNCHANGED <<db, holder, req, seen, calls, told>>

\* mutants: the key is not recorded, the status is not updated
RecordNoKey(c) ==
    /\ pc[c] = "applied" /\ holder = c
    /\ work' = IF IsExecute(c) THEN work ELSE Journal!Confirmed(work, req[c].id)
    /\ pc' = [pc EXCEPT ![c] = "recorded"]
    /\ UNCHANGED <<db, holder, req, seen, calls, told>>
RecordNoStatus(c) ==
    /\ pc[c] = "applied" /\ holder = c
    /\ work' = IF IsExecute(c) THEN Journal!Keyed(work, req[c].cmd) ELSE work
    /\ pc' = [pc EXCEPT ![c] = "recorded"]
    /\ UNCHANGED <<db, holder, req, seen, calls, told>>

(* The second write: the idempotency key (execute), the status (confirm).   *)
Record(c) ==
    /\ pc[c] = "applied" /\ holder = c
    /\ work' = IF IsExecute(c) THEN Journal!Keyed(work, req[c].cmd)
               ELSE Journal!Confirmed(work, req[c].id)
    /\ pc' = [pc EXCEPT ![c] = "recorded"]
    /\ UNCHANGED <<db, holder, req, seen, calls, told>>

(* The third: audit::append. A confirmation is audited as a human's.        *)
Audit(c) ==
    /\ pc[c] = "recorded" /\ holder = c
    /\ work' = Journal!Audited(work,
         IF IsExecute(c) THEN Journal!DirectEntry(work, c, req[c].cmd, req[c].expected)
         ELSE Journal!ConfirmEntry(work, db.pending[req[c].id], req[c].id))
    /\ pc' = [pc EXCEPT ![c] = "audited"]
    /\ UNCHANGED <<db, holder, req, seen, calls, told>>

LastEntry(l) == l.audit[Len(l.audit)]

(* COMMIT, and the answer reaches the caller or is lost with it.            *)
Commit(c, delivered) ==
    /\ pc[c] = "audited" /\ holder = c
    /\ db' = work
    /\ work' = work
    /\ holder' = Nobody
    /\ pc' = [pc EXCEPT ![c] = "idle"]
    /\ req' = [req EXCEPT ![c] = NoRequest]
    /\ LET last == LastEntry(work) IN
         told' = IF delivered /\ last.outcome # "pending_confirmation"
                 THEN told \cup {[cmd |-> last.cmd, output |-> last.output]}
                 ELSE told
    /\ UNCHANGED <<seen, calls>>

\* mutant: the transaction of a failing call is committed, not rolled back
FailCommitting(c) ==
    /\ pc[c] \in {"opened", "deposited", "applied", "recorded", "audited"}
    /\ holder = c
    /\ holder' = Nobody
    /\ db' = work
    /\ pc' = [pc EXCEPT ![c] = "idle"]
    /\ req' = [req EXCEPT ![c] = NoRequest]
    /\ UNCHANGED <<work, seen, calls, told>>

(* Any statement may fail, or the process die: SQLite rolls back.           *)
Fail(c) ==
    /\ pc[c] \in {"opened", "deposited", "applied", "recorded", "audited"}
    /\ holder = c
    /\ Rollback(c)

----------------------------------------------------------------------------
Progress(c) ==
    \/ Begin(c) \/ Busy(c) \/ Replay(c) \/ Deposit(c) \/ AuditDeposit(c)
    \/ Unresolvable(c) \/ Conflict(c) \/ Apply(c) \/ Record(c) \/ Audit(c)
    \/ Commit(c, TRUE) \/ Commit(c, FALSE)

Next ==
    \E c \in Clients :
      \/ Read(c)
      \/ \E cmd \in Commands : AskExecute(c, cmd)
      \/ \E id \in 1..Len(db.pending) : AskConfirm(c, id)
      \/ Progress(c)
      \/ Fail(c)

Spec == Init /\ [][Next]_vars

(* A call runs to its end by itself: SQLite answers a waiting writer        *)
(* (the lock, or busy after the timeout), and the code waits for nothing    *)
(* else. Nothing makes a client call, or a statement fail.                  *)
FairSpec == Spec /\ \A c \in Clients : WF_vars(Progress(c))

----------------------------------------------------------------------------
(* Properties.                                                              *)

Statuses == {"pending", "confirmed"}
Outcomes == {"applied", "pending_confirmation", "confirmed"}
Requests == {NoRequest}
    \cup [op : {"execute"}, cmd : Commands, expected : Revisions]
    \cup [op : {"confirm"}, id : Nat]
PendingRows == [cmd : Commands, expected : Revisions, status : Statuses]
AuditRows == [actor : {"agent", "human"}, cmd : Commands, expected : Revisions,
              outcome : Outcomes, output : Nat, from : Nat]
Databases == [revision : [Docs -> Nat], keys : [Keys -> Nat],
              pending : Seq(PendingRows), audit : Seq(AuditRows)]

TypeOK ==
    /\ db \in Databases /\ work \in Databases
    /\ holder \in Clients \cup {Nobody}
    /\ pc \in [Clients -> {"idle", "waiting", "opened", "deposited", "applied",
                           "recorded", "audited"}]
    /\ req \in [Clients -> Requests]
    /\ seen \in [Clients -> [Docs -> Nat]]
    /\ calls \in Nat
    /\ told \in SUBSET [cmd : Commands, output : Nat]

(* The audit log explains the book: the revisions of a row are exactly the  *)
(* outputs of its audited effects, one entry each. A write without its      *)
(* entry, an entry without its write, or two effects counted as one, break  *)
(* it (executor.rs:109-128, one transaction for the three writes).          *)
LogExplainsBook == Journal!Explained(db)

(* Two executions under one key have one effect, whatever crash, lost       *)
(* answer, retry or concurrent caller lies between them (command.rs:18-19). *)
OneEffectPerKey == Journal!OncePerKey(db)

(* A command that needs a human never takes effect on an agent's word: the  *)
(* entry of its effect says human (executor.rs:89-107).                     *)
AgentsNeedAHuman == Journal!HumanEffects(db)

(* A deposited action has exactly one effect once it is confirmed and none  *)
(* before, though two humans may confirm it at once (executor.rs:159-177).  *)
ConfirmedHasOneEffect == Journal!ConfirmedOnce(db)

(* No lost update: of two facades that showed the same revision of a row,   *)
(* one at most writes over it (revision.rs:29-46). A deposited command      *)
(* quotes the revision its agent saw, whenever the human confirms.          *)
NoLostUpdate == Journal!Unlost(db)

(* Two commands under one idempotency key.                                  *)
SameKey(a, b) == KeyOf[a] # NoKey /\ KeyOf[a] = KeyOf[b]

(* What a client was told stays true: every success it was answered is an   *)
(* audited effect with that output, of its command or, when the output was  *)
(* replayed, of one under the same key.                                     *)
ToldIsAudited ==
    \A t \in told : \E i \in Journal!Effects(db) :
      /\ db.audit[i].cmd = t.cmd \/ SameKey(db.audit[i].cmd, t.cmd)
      /\ db.audit[i].output = t.output

(* The audit log is append-only and nothing is committed without an entry:  *)
(* a step that changes the database extends the log by exactly one entry.   *)
EveryCommitAudited ==
    [][db' # db => /\ Len(db'.audit) = Len(db.audit) + 1
                   /\ \A i \in DOMAIN db.audit : db'.audit[i] = db.audit[i]]_vars

(* Every call is answered: no client waits for ever on another's lock.      *)
CallsAreAnswered == \A c \in Clients : pc[c] = "waiting" ~> pc[c] = "idle"

(* The executor implements the journal.                                     *)
ImplementsJournal == Journal!Spec
=============================================================================
