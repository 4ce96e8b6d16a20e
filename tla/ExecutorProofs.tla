--------------------------- MODULE ExecutorProofs ---------------------------
(***************************************************************************)
(* Theorems on the executor, for any number of clients, commands, rows and  *)
(* keys. The argument: as long as a transaction is open, `work` is a known  *)
(* function of `db` at each of its stages (WorkTracksDb), so a commit is    *)
(* one step of CommandJournal; what a log promises is kept by each step of  *)
(* the journal, hence by each commit.                                       *)
(***************************************************************************)
EXTENDS Executor, TLAPS

InTransaction == {"opened", "deposited", "applied", "recorded", "audited"}

(* The lock and the program counters agree.                                 *)
HolderInv ==
    /\ \A c \in Clients : pc[c] \in InTransaction <=> holder = c
    /\ holder = Nobody => work = db

(* What a call may do is settled when its transaction opens.                *)
ExecuteAllowed(c) ==
    /\ IsExecute(c)
    /\ ~Journal!KeyUsed(db, req[c].cmd)
    /\ ~Journal!NeedsHuman(c, req[c].cmd)
    /\ Journal!Applicable(db, req[c].cmd, req[c].expected)

DepositAllowed(c) ==
    /\ IsExecute(c)
    /\ ~Journal!KeyUsed(db, req[c].cmd)
    /\ Journal!NeedsHuman(c, req[c].cmd)

ConfirmAllowed(c) ==
    /\ req[c].op = "confirm"
    /\ req[c].id \in DOMAIN db.pending
    /\ db.pending[req[c].id].status = "pending"
    /\ Journal!Applicable(db, db.pending[req[c].id].cmd, db.pending[req[c].id].expected)

KeptOf(c) ==
    IF IsExecute(c)
    THEN Journal!Keyed(Journal!Applied(db, req[c].cmd), req[c].cmd)
    ELSE Journal!Confirmed(Journal!Applied(db, db.pending[req[c].id].cmd), req[c].id)

ResultOf(c) ==
    Journal!Audited(KeptOf(c),
      IF IsExecute(c) THEN Journal!DirectEntry(KeptOf(c), c, req[c].cmd, req[c].expected)
      ELSE Journal!ConfirmEntry(KeptOf(c), db.pending[req[c].id], req[c].id))

DepositOf(c) == Journal!Deposited(db, req[c].cmd, req[c].expected)

DepositResultOf(c) ==
    Journal!Audited(DepositOf(c), Journal!DepositEntry(req[c].cmd, req[c].expected))

(* What the open transaction sees, at each stage of the call.               *)
WorkTracksDb ==
    \A c \in Clients :
      /\ pc[c] = "opened" => work = db /\ req[c] \in Requests \ {NoRequest}
      /\ pc[c] = "waiting" => req[c] \in Requests \ {NoRequest}
      /\ pc[c] = "deposited" => DepositAllowed(c) /\ work = DepositOf(c)
      /\ pc[c] = "applied" =>
           /\ ExecuteAllowed(c) \/ ConfirmAllowed(c)
           /\ work = Journal!Applied(db, CommandOf(c))
      /\ pc[c] = "recorded" =>
           /\ ExecuteAllowed(c) \/ ConfirmAllowed(c)
           /\ work = KeptOf(c)
      /\ pc[c] = "audited" =>
           \/ DepositAllowed(c) /\ work = DepositResultOf(c)
           \/ (ExecuteAllowed(c) \/ ConfirmAllowed(c)) /\ work = ResultOf(c)

ExecutorInv == TypeOK /\ HolderInv /\ WorkTracksDb

----------------------------------------------------------------------------
(* Types of the parts a transaction is made of.                             *)

(* The empty vault is a database.                                           *)
LEMMA EmptyTyped == Journal!EmptyLog \in Databases
  BY DEF Journal!EmptyLog, Databases

(* Each part of a transaction takes a database to a database.               *)
LEMMA AppliedTyped ==
  ASSUME NEW l \in Databases, NEW cmd \in Commands
  PROVE  Journal!Applied(l, cmd) \in Databases
<1>1. DocOf[cmd] \in Docs /\ l.revision \in [Docs -> Nat]
  BY CommandsAssumption DEF Databases
<1>2. [l.revision EXCEPT ![DocOf[cmd]] = @ + 1] \in [Docs -> Nat]
  BY <1>1
<1>3. Journal!Applied(l, cmd) = [l EXCEPT !.revision = [l.revision EXCEPT ![DocOf[cmd]] = @ + 1]]
  BY DEF Journal!Applied, Databases
<1> QED BY <1>2, <1>3 DEF Databases

LEMMA KeyedTyped ==
  ASSUME NEW l \in Databases, NEW cmd \in Commands
  PROVE  Journal!Keyed(l, cmd) \in Databases
  BY CommandsAssumption DEF Journal!Keyed, Journal!OutputOf, Databases

LEMMA ConfirmedTyped ==
  ASSUME NEW l \in Databases, NEW id \in DOMAIN l.pending
  PROVE  Journal!Confirmed(l, id) \in Databases
<1> DEFINE rows == [l.pending EXCEPT ![id].status = "confirmed"]
<1>1. l.pending \in Seq(PendingRows)
  BY DEF Databases
<1>2. l.pending[id] \in PendingRows
  BY <1>1
<1>3. [l.pending[id] EXCEPT !.status = "confirmed"] \in PendingRows
  BY <1>2 DEF PendingRows, Statuses
<1>4. rows \in Seq(PendingRows)
  BY <1>1, <1>3
<1>5. Journal!Confirmed(l, id) = [l EXCEPT !.pending = rows]
  BY DEF Journal!Confirmed, Databases
<1> HIDE DEF rows
<1> QED BY <1>4, <1>5 DEF Databases

LEMMA DepositedTyped ==
  ASSUME NEW l \in Databases, NEW cmd \in Commands, NEW expected \in Revisions
  PROVE  Journal!Deposited(l, cmd, expected) \in Databases
<1> DEFINE row == [cmd |-> cmd, expected |-> expected, status |-> "pending"]
<1>1. row \in PendingRows
  BY DEF PendingRows, Statuses
<1>2. Append(l.pending, row) \in Seq(PendingRows)
  BY <1>1 DEF Databases
<1>3. Journal!Deposited(l, cmd, expected) = [l EXCEPT !.pending = Append(l.pending, row)]
  BY DEF Journal!Deposited, Databases
<1> HIDE DEF row
<1> QED BY <1>2, <1>3 DEF Databases

LEMMA AuditedTyped ==
  ASSUME NEW l \in Databases, NEW e \in AuditRows
  PROVE  Journal!Audited(l, e) \in Databases
<1>1. Append(l.audit, e) \in Seq(AuditRows)
  BY DEF Databases
<1>2. Journal!Audited(l, e) = [l EXCEPT !.audit = Append(l.audit, e)]
  BY DEF Journal!Audited, Databases
<1> QED BY <1>1, <1>2 DEF Databases

(* The entries a transaction appends are entries of the log.                *)
LEMMA EntriesTyped ==
  ASSUME NEW l \in Databases
  PROVE  /\ \A c \in Clients, cmd \in Commands, expected \in Revisions :
              /\ Journal!DirectEntry(l, c, cmd, expected) \in AuditRows
              /\ Journal!DepositEntry(cmd, expected) \in AuditRows
         /\ \A p \in PendingRows, id \in Nat : Journal!ConfirmEntry(l, p, id) \in AuditRows
  BY CommandsAssumption
  DEF Journal!DirectEntry, Journal!DepositEntry, Journal!ConfirmEntry, Journal!Entry,
      Journal!ActorOf, Journal!OutputOf, Databases, AuditRows, PendingRows, Outcomes

(* A request that carries a command carries a command and a revision.       *)
LEMMA RequestTyped ==
  ASSUME TypeOK, NEW c \in Clients
  PROVE  /\ IsExecute(c) => req[c].cmd \in Commands /\ req[c].expected \in Revisions
         /\ req[c].op = "confirm" => req[c].id \in Nat
         /\ req[c] # NoRequest /\ ~IsExecute(c) => req[c].op = "confirm"
  BY DEF TypeOK, Requests, IsExecute, NoRequest

(* The row a confirmation found is a deposited action.                      *)
LEMMA PendingTyped ==
  ASSUME TypeOK, NEW id \in DOMAIN db.pending
  PROVE  /\ db.pending[id] \in PendingRows
         /\ db.pending[id].cmd \in Commands
         /\ db.pending[id].expected \in Revisions
<1>1. db.pending \in Seq(PendingRows)
  BY DEF TypeOK, Databases
<1>2. db.pending[id] \in PendingRows
  BY <1>1
<1> QED BY <1>2 DEF PendingRows

(* The states of the transaction are databases.                             *)
LEMMA StagesTyped ==
  ASSUME TypeOK, NEW c \in Clients, ExecuteAllowed(c) \/ ConfirmAllowed(c)
  PROVE  /\ CommandOf(c) \in Commands
         /\ ExpectedOf(c) \in Revisions
         /\ Journal!Applied(db, CommandOf(c)) \in Databases
         /\ KeptOf(c) \in Databases
         /\ ResultOf(c) \in Databases
<1>1. db \in Databases
  BY DEF TypeOK
<1>2. CASE ExecuteAllowed(c)
  <2>1. IsExecute(c) /\ req[c].cmd \in Commands /\ req[c].expected \in Revisions
    BY <1>2, RequestTyped DEF ExecuteAllowed
  <2>2. CommandOf(c) = req[c].cmd /\ ExpectedOf(c) = req[c].expected
    BY <2>1 DEF CommandOf, ExpectedOf
  <2>3. Journal!Applied(db, req[c].cmd) \in Databases
    BY <1>1, <2>1, AppliedTyped
  <2>4. KeptOf(c) \in Databases
    BY <2>1, <2>3, KeyedTyped DEF KeptOf
  <2>5. Journal!DirectEntry(KeptOf(c), c, req[c].cmd, req[c].expected) \in AuditRows
    BY <2>1, <2>4, EntriesTyped
  <2>6. ResultOf(c) \in Databases
    BY <2>1, <2>4, <2>5, AuditedTyped DEF ResultOf
  <2> QED BY <2>1, <2>2, <2>3, <2>4, <2>6
<1>3. CASE ConfirmAllowed(c)
  <2> DEFINE id == req[c].id
  <2>1. ~IsExecute(c) /\ id \in Nat /\ id \in DOMAIN db.pending
    BY <1>3, RequestTyped DEF ConfirmAllowed, IsExecute
  <2>2. db.pending[id] \in PendingRows /\ db.pending[id].cmd \in Commands
        /\ db.pending[id].expected \in Revisions
    BY <2>1, PendingTyped
  <2>3. CommandOf(c) = db.pending[id].cmd /\ ExpectedOf(c) = db.pending[id].expected
    BY <2>1 DEF CommandOf, ExpectedOf
  <2>4. Journal!Applied(db, db.pending[id].cmd) \in Databases
    BY <1>1, <2>2, AppliedTyped
  <2>5. Journal!Applied(db, db.pending[id].cmd).pending = db.pending
    BY <1>1 DEF Journal!Applied, Databases
  <2>6. KeptOf(c) \in Databases
    BY <2>1, <2>4, <2>5, ConfirmedTyped DEF KeptOf
  <2>7. Journal!ConfirmEntry(KeptOf(c), db.pending[id], id) \in AuditRows
    BY <2>1, <2>2, <2>6, EntriesTyped
  <2>8. ResultOf(c) \in Databases
    BY <2>1, <2>6, <2>7, AuditedTyped DEF ResultOf
  <2> QED BY <2>2, <2>3, <2>4, <2>6, <2>8
<1> QED BY <1>2, <1>3

LEMMA DepositTyped ==
  ASSUME TypeOK, NEW c \in Clients, IsExecute(c)
  PROVE  DepositOf(c) \in Databases /\ DepositResultOf(c) \in Databases
<1>1. db \in Databases /\ req[c].cmd \in Commands /\ req[c].expected \in Revisions
  BY RequestTyped DEF TypeOK
<1>2. DepositOf(c) \in Databases
  BY <1>1, DepositedTyped DEF DepositOf
<1>3. Journal!DepositEntry(req[c].cmd, req[c].expected) \in AuditRows
  BY <1>1, EntriesTyped
<1> QED BY <1>2, <1>3, AuditedTyped DEF DepositResultOf

(* What is ready to be committed ends with its audit entry.                 *)
LEMMA AuditedLast ==
  ASSUME NEW l \in Databases, NEW e \in AuditRows
  PROVE  LastEntry(Journal!Audited(l, e)) = e
<1>1. Journal!Audited(l, e).audit = Append(l.audit, e)
  BY DEF Journal!Audited, Databases
<1>2. l.audit \in Seq(AuditRows)
  BY DEF Databases
<1> QED BY <1>1, <1>2 DEF LastEntry

----------------------------------------------------------------------------
(* The inductive invariant.                                                 *)

(* The empty vault, with no call, satisfies it.                             *)
LEMMA InvInit == Init => ExecutorInv
<1> SUFFICES ASSUME Init PROVE ExecutorInv
  OBVIOUS
<1>1. TypeOK
  BY EmptyTyped, ClientsAssumption DEF Init, TypeOK, Requests, NoRequest
<1>2. HolderInv
  BY ClientsAssumption DEF Init, HolderInv, InTransaction
<1>3. WorkTracksDb
  BY DEF Init, WorkTracksDb
<1> QED BY <1>1, <1>2, <1>3 DEF ExecutorInv

(* The client that holds the lock keeps what it was allowed while it only   *)
(* moves its own transaction: the committed database does not change.       *)
LEMMA FrameAllowed ==
  ASSUME NEW c \in Clients, db' = db, req'[c] = req[c]
  PROVE  /\ ExecuteAllowed(c)' = ExecuteAllowed(c)
         /\ DepositAllowed(c)' = DepositAllowed(c)
         /\ ConfirmAllowed(c)' = ConfirmAllowed(c)
         /\ CommandOf(c)' = CommandOf(c)
         /\ KeptOf(c)' = KeptOf(c)
         /\ ResultOf(c)' = ResultOf(c)
         /\ DepositOf(c)' = DepositOf(c)
         /\ DepositResultOf(c)' = DepositResultOf(c)
  BY DEF ExecuteAllowed, DepositAllowed, ConfirmAllowed, CommandOf, KeptOf, ResultOf,
         DepositOf, DepositResultOf, IsExecute

(* A step that changes neither database, nor the lock, and moves only a     *)
(* client that is outside any transaction, keeps the invariant's second     *)
(* and third parts.                                                         *)
LEMMA OutsideStep ==
  ASSUME ExecutorInv, NEW c \in Clients, UNCHANGED <<db, work, holder>>,
         pc[c] \in {"idle", "waiting"},
         pc'[c] \in {"idle", "waiting"},
         pc' = [pc EXCEPT ![c] = pc'[c]],
         \A o \in Clients \ {c} : req'[o] = req[o],
         pc'[c] = "waiting" => req'[c] \in Requests \ {NoRequest}
  PROVE  HolderInv' /\ WorkTracksDb'
<1>1. pc \in [Clients -> {"idle", "waiting", "opened", "deposited", "applied",
                          "recorded", "audited"}]
  BY DEF ExecutorInv, TypeOK
<1>2. \A o \in Clients \ {c} : pc'[o] = pc[o]
  BY <1>1
<1>3. HolderInv'
  BY <1>1, <1>2 DEF ExecutorInv, HolderInv, InTransaction
<1>4. WorkTracksDb'
  <2> SUFFICES ASSUME NEW o \in Clients
               PROVE  WorkTracksDb!(o)'
    BY DEF WorkTracksDb
  <2>1. CASE o = c
    BY <2>1 DEF WorkTracksDb
  <2>2. CASE o # c
    BY <1>2, <2>2, FrameAllowed DEF ExecutorInv, WorkTracksDb
  <2> QED BY <2>1, <2>2
<1> QED BY <1>3, <1>4

(* The end of a transaction, committed or not, keeps them: no other client  *)
(* is in one.                                                               *)
LEMMA ClosingStep ==
  ASSUME ExecutorInv, NEW c \in Clients, holder = c, pc[c] \in InTransaction,
         holder' = Nobody, work' = db',
         pc' = [pc EXCEPT ![c] = "idle"],
         req' = [req EXCEPT ![c] = NoRequest]
  PROVE  HolderInv' /\ WorkTracksDb'
<1>1. /\ pc \in [Clients -> {"idle", "waiting", "opened", "deposited", "applied",
                             "recorded", "audited"}]
      /\ req \in [Clients -> Requests]
  BY DEF ExecutorInv, TypeOK
<1>2. \A o \in Clients : pc'[o] \notin InTransaction
  BY <1>1 DEF ExecutorInv, HolderInv, InTransaction
<1>3. HolderInv'
  BY <1>2, ClientsAssumption DEF HolderInv
<1>4. \A o \in Clients : pc'[o] = "waiting" => req'[o] = req[o] /\ pc[o] = "waiting"
  BY <1>1
<1>5. WorkTracksDb'
  BY <1>2, <1>4 DEF ExecutorInv, WorkTracksDb, InTransaction
<1> QED BY <1>3, <1>5

(* A statement inside a transaction keeps them if the next stage is right.  *)
LEMMA InsideStep ==
  ASSUME ExecutorInv, NEW c \in Clients, holder = c, pc[c] \in InTransaction,
         UNCHANGED <<db, holder, req>>,
         pc'[c] \in InTransaction,
         pc' = [pc EXCEPT ![c] = pc'[c]],
         WorkTracksDb!(c)'
  PROVE  HolderInv' /\ WorkTracksDb'
<1>1. pc \in [Clients -> {"idle", "waiting", "opened", "deposited", "applied",
                          "recorded", "audited"}]
  BY DEF ExecutorInv, TypeOK
<1>2. \A o \in Clients \ {c} : pc'[o] = pc[o] /\ pc[o] \notin InTransaction
  BY <1>1 DEF ExecutorInv, HolderInv
<1>3. HolderInv'
  BY <1>1, <1>2, ClientsAssumption DEF ExecutorInv, HolderInv
<1>4. WorkTracksDb'
  BY <1>2 DEF ExecutorInv, WorkTracksDb, InTransaction
<1> QED BY <1>3, <1>4

(* Every step of the system keeps the invariant.                            *)
LEMMA InvStep == ExecutorInv /\ [Next]_vars => ExecutorInv'
<1> SUFFICES ASSUME ExecutorInv, [Next]_vars PROVE ExecutorInv'
  OBVIOUS
<1>0. TypeOK /\ HolderInv /\ WorkTracksDb
  BY DEF ExecutorInv
<1>1. CASE UNCHANGED vars
  <2>1. UNCHANGED <<db, work, holder, pc, req, seen, calls, told>>
    BY <1>1 DEF vars, storage
  <2>2. TypeOK' /\ HolderInv'
    BY ONLY <1>0, <2>1 DEF TypeOK, HolderInv
  <2>3. WorkTracksDb'
    <3>1. \A c \in Clients : req'[c] = req[c]
      BY ONLY <2>1
    <3> QED BY ONLY <1>0, <2>1, <3>1, FrameAllowed DEF WorkTracksDb
  <2> QED BY <2>2, <2>3 DEF ExecutorInv
<1>2. ASSUME NEW c \in Clients, Read(c) PROVE ExecutorInv'
  <2>1. TypeOK'
    BY <1>0, <1>2 DEF Read, storage, TypeOK, Databases
  <2>2. HolderInv' /\ WorkTracksDb'
    BY <1>0, <1>2, OutsideStep DEF Read, storage, TypeOK
  <2> QED BY <2>1, <2>2 DEF ExecutorInv
<1>3. ASSUME NEW c \in Clients, NEW r \in Requests \ {NoRequest}, Ask(c, r)
      PROVE  ExecutorInv'
  <2>1. TypeOK'
    BY <1>0, <1>3 DEF Ask, storage, TypeOK
  <2>2. HolderInv' /\ WorkTracksDb'
    BY <1>0, <1>3, OutsideStep DEF Ask, storage, TypeOK
  <2> QED BY <2>1, <2>2 DEF ExecutorInv
<1>4. ASSUME NEW c \in Clients, Begin(c) PROVE ExecutorInv'
  <2>1. TypeOK'
    BY <1>0, <1>4 DEF Begin, TypeOK
  <2>2. \A o \in Clients : pc[o] \notin InTransaction
    BY <1>0, <1>4, ClientsAssumption DEF Begin, HolderInv
  <2>3. \A o \in Clients \ {c} : pc'[o] = pc[o]
    BY <1>0, <1>4 DEF Begin, TypeOK
  <2>4. HolderInv'
    BY <1>0, <1>4, <2>2, <2>3, ClientsAssumption DEF Begin, HolderInv, InTransaction, TypeOK
  <2>5. WorkTracksDb'
    BY <1>0, <1>4, <2>2, <2>3 DEF Begin, WorkTracksDb, InTransaction, TypeOK
  <2> QED BY <2>1, <2>4, <2>5 DEF ExecutorInv
<1>5. ASSUME NEW c \in Clients, Busy(c) PROVE ExecutorInv'
  <2>1. TypeOK'
    BY <1>0, <1>5 DEF Busy, storage, TypeOK, Requests
  <2>2. HolderInv' /\ WorkTracksDb'
    BY <1>0, <1>5, OutsideStep DEF Busy, storage, TypeOK
  <2> QED BY <2>1, <2>2 DEF ExecutorInv
<1>6. ASSUME NEW c \in Clients, holder = c, pc[c] \in InTransaction, Rollback(c)
      PROVE  ExecutorInv'
  <2>1. TypeOK'
    BY <1>0, <1>6 DEF Rollback, TypeOK, Requests
  <2>2. HolderInv' /\ WorkTracksDb'
    BY <1>0, <1>6, ClosingStep DEF Rollback
  <2> QED BY <2>1, <2>2 DEF ExecutorInv
<1>7. ASSUME NEW c \in Clients, Replay(c) PROVE ExecutorInv'
  <2>1. req[c].cmd \in Commands
    BY <1>0, <1>7, RequestTyped DEF Replay, AlreadyDone
  <2>2. work.keys[KeyOf[req[c].cmd]] \in Nat
    BY <1>0, <1>7, <2>1, CommandsAssumption
    DEF Replay, AlreadyDone, Journal!KeyUsed, TypeOK, Databases
  <2>3. TypeOK'
    BY <1>0, <1>7, <2>1, <2>2 DEF Replay, TypeOK, Requests
  <2>4. HolderInv' /\ WorkTracksDb'
    BY <1>0, <1>7, ClosingStep DEF Replay, InTransaction
  <2> QED BY <2>3, <2>4 DEF ExecutorInv
<1>8. ASSUME NEW c \in Clients, Deposit(c) PROVE ExecutorInv'
  <2>1. DepositAllowed(c) /\ work' = DepositOf(c) /\ work = db
    BY <1>0, <1>8
    DEF Deposit, WorkTracksDb, DepositAllowed, DepositOf, AlreadyDone, NeedsHuman
  <2>2. TypeOK'
    BY <1>0, <1>8, <2>1, DepositTyped DEF Deposit, TypeOK, DepositAllowed
  <2>3. pc' = [pc EXCEPT ![c] = "deposited"] /\ pc'[c] = "deposited"
    BY <1>0, <1>8 DEF Deposit, TypeOK
  <2>4. WorkTracksDb!(c)'
    BY <1>8, <2>1, <2>3, FrameAllowed DEF Deposit
  <2>5. HolderInv' /\ WorkTracksDb'
    BY <1>0, <1>8, <2>3, <2>4, InsideStep DEF Deposit, InTransaction
  <2> QED BY <2>2, <2>5 DEF ExecutorInv
<1>9. ASSUME NEW c \in Clients, AuditDeposit(c) PROVE ExecutorInv'
  <2>1. DepositAllowed(c) /\ work' = DepositResultOf(c)
    BY <1>0, <1>9 DEF AuditDeposit, WorkTracksDb, DepositResultOf
  <2>2. TypeOK'
    BY <1>0, <1>9, <2>1, DepositTyped DEF AuditDeposit, TypeOK, DepositAllowed
  <2>3. pc' = [pc EXCEPT ![c] = "audited"] /\ pc'[c] = "audited"
    BY <1>0, <1>9 DEF AuditDeposit, TypeOK
  <2>4. WorkTracksDb!(c)'
    BY <1>9, <2>1, <2>3, FrameAllowed DEF AuditDeposit
  <2>5. HolderInv' /\ WorkTracksDb'
    BY <1>0, <1>9, <2>3, <2>4, InsideStep DEF AuditDeposit, InTransaction
  <2> QED BY <2>2, <2>5 DEF ExecutorInv
<1>10. ASSUME NEW c \in Clients, Apply(c) PROVE ExecutorInv'
  <2>1. work = db /\ req[c] \in Requests \ {NoRequest}
    BY <1>0, <1>10 DEF Apply, WorkTracksDb
  <2>2. ExecuteAllowed(c) \/ ConfirmAllowed(c)
    <3>1. CASE IsExecute(c)
      BY <1>10, <2>1, <3>1
      DEF Apply, ExecuteAllowed, AlreadyDone, NeedsHuman, CommandOf, ExpectedOf
    <3>2. CASE ~IsExecute(c)
      <4>1. req[c].op = "confirm"
        BY <1>0, <2>1, <3>2, RequestTyped
      <4> QED BY <1>10, <2>1, <3>2, <4>1
              DEF Apply, ConfirmAllowed, Found, CommandOf, ExpectedOf
    <3> QED BY <3>1, <3>2
  <2>3. work' = Journal!Applied(db, CommandOf(c))
    BY <1>10, <2>1 DEF Apply
  <2>4. TypeOK'
    BY <1>0, <1>10, <2>2, <2>3, StagesTyped DEF Apply, TypeOK
  <2>5. pc' = [pc EXCEPT ![c] = "applied"] /\ pc'[c] = "applied"
    BY <1>0, <1>10 DEF Apply, TypeOK
  <2>6. WorkTracksDb!(c)'
    BY <1>10, <2>2, <2>3, <2>5, FrameAllowed DEF Apply
  <2>7. HolderInv' /\ WorkTracksDb'
    BY <1>0, <1>10, <2>5, <2>6, InsideStep DEF Apply, InTransaction
  <2> QED BY <2>4, <2>7 DEF ExecutorInv
<1>11. ASSUME NEW c \in Clients, Record(c) PROVE ExecutorInv'
  <2>1. /\ ExecuteAllowed(c) \/ ConfirmAllowed(c)
        /\ work = Journal!Applied(db, CommandOf(c))
    BY <1>0, <1>11 DEF Record, WorkTracksDb
  <2>2. work' = KeptOf(c)
    BY <1>11, <2>1 DEF Record, KeptOf, CommandOf
  <2>3. TypeOK'
    BY <1>0, <1>11, <2>1, <2>2, StagesTyped DEF Record, TypeOK
  <2>4. pc' = [pc EXCEPT ![c] = "recorded"] /\ pc'[c] = "recorded"
    BY <1>0, <1>11 DEF Record, TypeOK
  <2>5. WorkTracksDb!(c)'
    BY <1>11, <2>1, <2>2, <2>4, FrameAllowed DEF Record
  <2>6. HolderInv' /\ WorkTracksDb'
    BY <1>0, <1>11, <2>4, <2>5, InsideStep DEF Record, InTransaction
  <2> QED BY <2>3, <2>6 DEF ExecutorInv
<1>12. ASSUME NEW c \in Clients, Audit(c) PROVE ExecutorInv'
  <2>1. /\ ExecuteAllowed(c) \/ ConfirmAllowed(c)
        /\ work = KeptOf(c)
    BY <1>0, <1>12 DEF Audit, WorkTracksDb
  <2>2. work' = ResultOf(c)
    BY <1>12, <2>1 DEF Audit, ResultOf
  <2>3. TypeOK'
    BY <1>0, <1>12, <2>1, <2>2, StagesTyped DEF Audit, TypeOK
  <2>4. pc' = [pc EXCEPT ![c] = "audited"] /\ pc'[c] = "audited"
    BY <1>0, <1>12 DEF Audit, TypeOK
  <2>5. WorkTracksDb!(c)'
    BY <1>12, <2>1, <2>2, <2>4, FrameAllowed DEF Audit
  <2>6. HolderInv' /\ WorkTracksDb'
    BY <1>0, <1>12, <2>4, <2>5, InsideStep DEF Audit, InTransaction
  <2> QED BY <2>3, <2>6 DEF ExecutorInv
<1>13. ASSUME NEW c \in Clients, NEW delivered \in BOOLEAN, Commit(c, delivered)
       PROVE  ExecutorInv'
  <2>1. LastEntry(work) \in AuditRows
    <3>1. CASE DepositAllowed(c) /\ work = DepositResultOf(c)
      <4>1. DepositOf(c) \in Databases /\ IsExecute(c)
        BY <1>0, <3>1, DepositTyped DEF DepositAllowed
      <4>2. Journal!DepositEntry(req[c].cmd, req[c].expected) \in AuditRows
        BY <1>0, <4>1, RequestTyped, EntriesTyped
      <4> QED BY <3>1, <4>1, <4>2, AuditedLast DEF DepositResultOf
    <3>2. CASE ExecuteAllowed(c) /\ work = ResultOf(c)
      <4>1. KeptOf(c) \in Databases /\ IsExecute(c)
        BY <1>0, <3>2, StagesTyped DEF ExecuteAllowed
      <4>2. Journal!DirectEntry(KeptOf(c), c, req[c].cmd, req[c].expected) \in AuditRows
        BY <1>0, <4>1, RequestTyped, EntriesTyped
      <4> QED BY <3>2, <4>1, <4>2, AuditedLast DEF ResultOf
    <3>3. CASE ConfirmAllowed(c) /\ work = ResultOf(c)
      <4>1. KeptOf(c) \in Databases /\ ~IsExecute(c)
        BY <1>0, <3>3, StagesTyped DEF ConfirmAllowed, IsExecute
      <4>2. Journal!ConfirmEntry(KeptOf(c), db.pending[req[c].id], req[c].id) \in AuditRows
        BY <1>0, <3>3, <4>1, RequestTyped, PendingTyped, EntriesTyped DEF ConfirmAllowed
      <4> QED BY <3>3, <4>1, <4>2, AuditedLast DEF ResultOf
    <3> QED BY <1>0, <1>13, <3>1, <3>2, <3>3 DEF Commit, WorkTracksDb
  <2>2. [cmd |-> LastEntry(work).cmd, output |-> LastEntry(work).output]
          \in [cmd : Commands, output : Nat]
    BY <2>1 DEF AuditRows
  <2>3. TypeOK'
    BY <1>0, <1>13, <2>2 DEF Commit, TypeOK, Requests
  <2>4. HolderInv' /\ WorkTracksDb'
    BY <1>0, <1>13, ClosingStep DEF Commit, InTransaction
  <2> QED BY <2>3, <2>4 DEF ExecutorInv
<1>14. ASSUME NEW c \in Clients, NEW cmd \in Commands, AskExecute(c, cmd)
       PROVE  ExecutorInv'
  <2>1. ExecuteRequest(cmd, seen[c][DocOf[cmd]]) \in Requests \ {NoRequest}
    BY <1>14 DEF AskExecute, ExecuteRequest, Requests, NoRequest
  <2> QED BY <1>3, <1>14, <2>1 DEF AskExecute
<1>15. ASSUME NEW c \in Clients, NEW id \in 1..Len(db.pending), AskConfirm(c, id)
       PROVE  ExecutorInv'
  <2>1. ConfirmRequest(id) \in Requests \ {NoRequest}
    BY <1>15 DEF ConfirmRequest, Requests, NoRequest
  <2> QED BY <1>3, <1>15, <2>1 DEF AskConfirm
<1>16. ASSUME NEW c \in Clients, Unresolvable(c) \/ Conflict(c) \/ Fail(c)
       PROVE  ExecutorInv'
  BY <1>6, <1>16 DEF Unresolvable, Conflict, Fail, InTransaction
<1> QED
  BY <1>1, <1>2, <1>4, <1>5, <1>7, <1>8, <1>9, <1>10, <1>11, <1>12, <1>13, <1>14,
     <1>15, <1>16
  DEF Next, Progress

(* The invariant holds in every reachable state: in particular, no state of *)
(* any number of clients leaves the types of TypeOK.                        *)
THEOREM Invariance == Spec => []ExecutorInv
<1> QED BY InvInit, InvStep, PTL DEF Spec

THEOREM TypeCorrect == Spec => []TypeOK
<1>1. ExecutorInv => TypeOK
  BY DEF ExecutorInv
<1> QED BY <1>1, Invariance, PTL

----------------------------------------------------------------------------
(* The executor implements the journal: only a commit changes `db`, and a   *)
(* commit is one step of the journal.                                       *)

LEMMA CommitIsJournalStep ==
  ASSUME ExecutorInv, NEW c \in Clients, NEW delivered \in BOOLEAN, Commit(c, delivered)
  PROVE  Journal!Next
<1>0. /\ TypeOK
      /\ db' = work
      /\ \/ DepositAllowed(c) /\ work = DepositResultOf(c)
         \/ (ExecuteAllowed(c) \/ ConfirmAllowed(c)) /\ work = ResultOf(c)
  BY DEF Commit, ExecutorInv, WorkTracksDb
<1>1. CASE DepositAllowed(c) /\ work = DepositResultOf(c)
  <2>1. req[c].cmd \in Commands /\ req[c].expected \in Revisions
    BY <1>0, <1>1, RequestTyped DEF DepositAllowed
  <2>2. Journal!Deposit(c, req[c].cmd, req[c].expected)
    BY <1>0, <1>1 DEF Journal!Deposit, DepositAllowed, DepositResultOf, DepositOf
  <2> QED BY <2>1, <2>2 DEF Journal!Next
<1>2. CASE ExecuteAllowed(c) /\ work = ResultOf(c)
  <2>1. req[c].cmd \in Commands /\ req[c].expected \in Revisions
    BY <1>0, <1>2, RequestTyped DEF ExecuteAllowed
  <2>2. Journal!Effect(c, req[c].cmd, req[c].expected)
    BY <1>0, <1>2 DEF Journal!Effect, ExecuteAllowed, ResultOf, KeptOf
  <2> QED BY <2>1, <2>2 DEF Journal!Next
<1>3. CASE ConfirmAllowed(c) /\ work = ResultOf(c)
  <2>1. ~IsExecute(c) /\ req[c].id \in DOMAIN db.pending
    BY <1>3 DEF ConfirmAllowed, IsExecute
  <2>2. Journal!Confirm(req[c].id)
    BY <1>0, <1>3, <2>1 DEF Journal!Confirm, ConfirmAllowed, ResultOf, KeptOf
  <2> QED BY <2>1, <2>2 DEF Journal!Next
<1> QED BY <1>0, <1>1, <1>2, <1>3

LEMMA StepIsJournalStep == ExecutorInv /\ [Next]_vars => [Journal!Next]_db
<1> SUFFICES ASSUME ExecutorInv, [Next]_vars, db' # db PROVE Journal!Next
  OBVIOUS
<1>1. PICK c \in Clients, delivered \in BOOLEAN : Commit(c, delivered)
  BY DEF Next, Progress, Read, Ask, AskExecute, AskConfirm, Begin, Busy, Replay, Deposit,
         AuditDeposit, Unresolvable, Conflict, Apply, Record, Audit, Fail, Rollback,
         storage, vars
<1> QED BY <1>1, CommitIsJournalStep

(* Every behaviour of the executor, crashes and rollbacks included, is a    *)
(* behaviour of the journal: effect, key and audit entry land together.     *)
THEOREM Refinement == Spec => ImplementsJournal
<1>1. Init => Journal!Init
  BY DEF Init, Journal!Init
<1> QED BY <1>1, StepIsJournalStep, Invariance, PTL DEF Spec, ImplementsJournal, Journal!Spec

----------------------------------------------------------------------------
(* What a log promises, and what makes it inductive.                        *)

(* An effect under a key leaves its output there.                           *)
KeysRecorded(l) ==
    \A i \in Journal!Effects(l) :
      KeyOf[l.audit[i].cmd] # NoKey => l.keys[KeyOf[l.audit[i].cmd]] # 0

(* An effect that quotes a revision makes the next one.                     *)
QuotesPrevious(l) ==
    \A i \in Journal!Effects(l) :
      l.audit[i].cmd \in Revised => l.audit[i].output = l.audit[i].expected + 1

(* A confirmed effect comes from a deposited action.                        *)
FromDeposits(l) ==
    \A i \in Journal!Effects(l) : l.audit[i].from # 0 => l.audit[i].from \in DOMAIN l.pending

(* Only what needs a human is left for one.                                 *)
LeftForHumans(l) == \A id \in DOMAIN l.pending : l.pending[id].cmd \in Confirming

SoundLog(l) ==
    /\ l \in Databases
    /\ Journal!Explained(l) /\ Journal!OncePerKey(l) /\ Journal!HumanEffects(l)
    /\ Journal!ConfirmedOnce(l)
    /\ KeysRecorded(l) /\ QuotesPrevious(l) /\ FromDeposits(l) /\ LeftForHumans(l)

(* The effects of a log with one more entry.                                *)
LEMMA AppendEffects ==
  ASSUME NEW l \in Databases, NEW n \in Databases, NEW e \in AuditRows,
         n.audit = Append(l.audit, e)
  PROVE  /\ Len(l.audit) \in Nat /\ DOMAIN l.audit = 1..Len(l.audit)
         /\ DOMAIN n.audit = 1..(Len(l.audit) + 1)
         /\ \A i \in DOMAIN l.audit : n.audit[i] = l.audit[i]
         /\ n.audit[Len(l.audit) + 1] = e
         /\ e.outcome # "pending_confirmation" =>
              Journal!Effects(n) = Journal!Effects(l) \cup {Len(l.audit) + 1}
         /\ e.outcome = "pending_confirmation" => Journal!Effects(n) = Journal!Effects(l)
         /\ Journal!Effects(l) \subseteq DOMAIN l.audit
<1>1. l.audit \in Seq(AuditRows)
  BY DEF Databases
<1>2. /\ Len(l.audit) \in Nat /\ DOMAIN l.audit = 1..Len(l.audit)
      /\ DOMAIN n.audit = 1..(Len(l.audit) + 1)
      /\ \A i \in DOMAIN l.audit : n.audit[i] = l.audit[i]
      /\ n.audit[Len(l.audit) + 1] = e
  BY <1>1
<1> QED BY <1>2 DEF Journal!Effects

(* The shape of a log after the effect of a command.                        *)
EffectStep(l, n, e) ==
    /\ e \in AuditRows /\ e.outcome # "pending_confirmation"
    /\ n.audit = Append(l.audit, e)
    /\ n.revision = [l.revision EXCEPT ![DocOf[e.cmd]] = @ + 1]
    /\ e.output = l.revision[DocOf[e.cmd]] + 1
    /\ e.cmd \in Revised => e.expected = l.revision[DocOf[e.cmd]]

LEMMA EffectExplained ==
  ASSUME NEW l \in Databases, NEW n \in Databases, NEW e, EffectStep(l, n, e),
         Journal!Explained(l), QuotesPrevious(l)
  PROVE  Journal!Explained(n) /\ QuotesPrevious(n)
<1> DEFINE k == Len(l.audit) + 1
           row == DocOf[e.cmd]
<1>1. e \in AuditRows /\ e.cmd \in Commands /\ row \in Docs /\ e.expected \in Nat
  BY CommandsAssumption, RevisionsAssumption DEF EffectStep, AuditRows
<1>2. /\ k \in Nat /\ k \notin DOMAIN l.audit
      /\ \A i \in DOMAIN l.audit : n.audit[i] = l.audit[i]
      /\ n.audit[k] = e
      /\ Journal!Effects(n) = Journal!Effects(l) \cup {k}
      /\ Journal!Effects(l) \subseteq DOMAIN l.audit
  BY <1>1, AppendEffects DEF EffectStep
<1>3. l.revision \in [Docs -> Nat] /\ n.revision \in [Docs -> Nat]
  BY DEF Databases
<1>4. n.revision[row] = l.revision[row] + 1
  BY <1>1, <1>3 DEF EffectStep
<1>5. \A d \in Docs \ {row} : n.revision[d] = l.revision[d]
  BY <1>1, <1>3 DEF EffectStep
<1>6. e.output = l.revision[row] + 1
  BY DEF EffectStep
<1> HIDE DEF k, row
<1>7. Journal!Explained(n)
  <2> SUFFICES ASSUME NEW d \in Docs PROVE Journal!Explained(n)!(d)
    BY DEF Journal!Explained
  <2>1. CASE d # row
    <3>1. Journal!EffectsOn(n, d) = Journal!EffectsOn(l, d)
      BY <1>2, <2>1 DEF Journal!EffectsOn, row
    <3>2. \A i \in Journal!EffectsOn(l, d) : n.audit[i] = l.audit[i]
      BY <1>2 DEF Journal!EffectsOn
    <3> QED BY <1>5, <2>1, <3>1, <3>2 DEF Journal!Explained
  <2>2. CASE d = row
    <3>1. Journal!EffectsOn(n, d) = Journal!EffectsOn(l, d) \cup {k}
      BY <1>2, <2>2 DEF Journal!EffectsOn, row
    <3>2. /\ \A i \in Journal!EffectsOn(l, d) : n.audit[i] = l.audit[i]
          /\ k \notin Journal!EffectsOn(l, d)
      BY <1>2 DEF Journal!EffectsOn
    <3>3. /\ \A i \in Journal!EffectsOn(l, d) : l.audit[i].output \in 1..l.revision[d]
          /\ \A r \in 1..l.revision[d] : \E i \in Journal!EffectsOn(l, d) : l.audit[i].output = r
          /\ \A i, j \in Journal!EffectsOn(l, d) : l.audit[i].output = l.audit[j].output => i = j
      BY DEF Journal!Explained
    <3>4. l.revision[d] \in Nat /\ n.revision[d] = l.revision[d] + 1
          /\ n.audit[k].output = l.revision[d] + 1
      BY <1>2, <1>3, <1>4, <1>6, <2>2
    <3>5. \A i \in Journal!EffectsOn(n, d) : n.audit[i].output \in 1..n.revision[d]
      BY <3>1, <3>2, <3>3, <3>4
    <3>6. \A r \in 1..n.revision[d] : \E i \in Journal!EffectsOn(n, d) : n.audit[i].output = r
      BY <3>1, <3>2, <3>3, <3>4
    <3>7. \A i, j \in Journal!EffectsOn(n, d) : n.audit[i].output = n.audit[j].output => i = j
      BY <3>1, <3>2, <3>3, <3>4
    <3> QED BY <3>5, <3>6, <3>7
  <2> QED BY <2>1, <2>2
<1>8. QuotesPrevious(n)
  <2>1. e.cmd \in Revised => e.output = e.expected + 1
    BY <1>6 DEF EffectStep, row
  <2> QED BY <1>2, <2>1 DEF QuotesPrevious
<1> QED BY <1>7, <1>8

(* A command applied by a facade keeps what a log promises.                 *)
LEMMA DirectKeeps ==
  ASSUME NEW l, SoundLog(l), NEW n, NEW c \in Clients, NEW cmd \in Commands,
         NEW expected \in Revisions, NEW kept,
         ~Journal!NeedsHuman(c, cmd), ~Journal!KeyUsed(l, cmd),
         Journal!Applicable(l, cmd, expected),
         kept = Journal!Keyed(Journal!Applied(l, cmd), cmd),
         n = Journal!Audited(kept, Journal!DirectEntry(kept, c, cmd, expected))
  PROVE  SoundLog(n)
<1> DEFINE e == Journal!DirectEntry(kept, c, cmd, expected)
           k == Len(l.audit) + 1
<1>1. l \in Databases /\ DocOf[cmd] \in Docs /\ KeyOf[cmd] \in Keys \cup {NoKey}
  BY CommandsAssumption DEF SoundLog
<1>2. kept \in Databases
  BY <1>1, AppliedTyped, KeyedTyped
<1>3. e \in AuditRows
  BY <1>2, EntriesTyped
<1>4. n \in Databases
  BY <1>2, <1>3, AuditedTyped
<1>5. Journal!Applied(l, cmd) \in Databases
      /\ Journal!Applied(l, cmd).revision = [l.revision EXCEPT ![DocOf[cmd]] = @ + 1]
      /\ Journal!Applied(l, cmd).keys = l.keys
      /\ Journal!Applied(l, cmd).pending = l.pending
      /\ Journal!Applied(l, cmd).audit = l.audit
  BY <1>1, AppliedTyped DEF Journal!Applied, Databases
<1>6. kept.revision = [l.revision EXCEPT ![DocOf[cmd]] = @ + 1]
      /\ kept.pending = l.pending /\ kept.audit = l.audit
  BY <1>5 DEF Journal!Keyed, Databases
<1>7. Journal!OutputOf(Journal!Applied(l, cmd), cmd) = l.revision[DocOf[cmd]] + 1
  BY <1>1, <1>5 DEF Journal!OutputOf, Databases
<1>8. kept.keys = IF KeyOf[cmd] = NoKey THEN l.keys
                  ELSE [l.keys EXCEPT ![KeyOf[cmd]] = l.revision[DocOf[cmd]] + 1]
  BY <1>5, <1>7 DEF Journal!Keyed, Databases
<1>9. n.revision = kept.revision /\ n.keys = kept.keys /\ n.pending = kept.pending
      /\ n.audit = Append(kept.audit, e)
  BY <1>2 DEF Journal!Audited, Databases
<1>10. e.cmd = cmd /\ e.outcome = "applied" /\ e.from = 0 /\ e.expected = expected
       /\ e.output = l.revision[DocOf[cmd]] + 1
       /\ e.actor = Journal!ActorOf(c)
  BY <1>1, <1>6 DEF Journal!DirectEntry, Journal!Entry, Journal!OutputOf, Databases
<1> HIDE DEF e
<1>11. EffectStep(l, n, e)
  BY <1>3, <1>6, <1>9, <1>10 DEF EffectStep, Journal!Applicable
<1>12. Journal!Explained(n) /\ QuotesPrevious(n)
  BY <1>1, <1>4, <1>11, EffectExplained DEF SoundLog
<1>13. /\ k \in Nat /\ k \notin DOMAIN l.audit
       /\ \A i \in DOMAIN l.audit : n.audit[i] = l.audit[i]
       /\ n.audit[k] = e
       /\ Journal!Effects(n) = Journal!Effects(l) \cup {k}
       /\ Journal!Effects(l) \subseteq DOMAIN l.audit
  BY <1>1, <1>3, <1>4, <1>6, <1>9, <1>10, AppendEffects
<1> HIDE DEF k
<1>14. l.keys \in [Keys -> Nat] /\ l.revision \in [Docs -> Nat]
  BY <1>1 DEF Databases
<1>15. /\ KeyOf[cmd] # NoKey => n.keys[KeyOf[cmd]] # 0 /\ l.keys[KeyOf[cmd]] = 0
       /\ \A key \in Keys : key # KeyOf[cmd] => n.keys[key] = l.keys[key]
  BY <1>1, <1>8, <1>9, <1>14 DEF Journal!KeyUsed
<1>16. \A i \in Journal!Effects(l) :
         KeyOf[l.audit[i].cmd] # NoKey =>
           KeyOf[l.audit[i].cmd] \in Keys /\ l.keys[KeyOf[l.audit[i].cmd]] # 0
  <2>1. \A i \in DOMAIN l.audit : l.audit[i].cmd \in Commands
    <3>1. l.audit \in Seq(AuditRows)
      BY <1>1 DEF Databases
    <3>2. \A i \in DOMAIN l.audit : l.audit[i] \in AuditRows
      BY <3>1
    <3> QED BY <3>2 DEF AuditRows
  <2> QED BY <1>13, <2>1, CommandsAssumption DEF SoundLog, KeysRecorded
<1>17. Journal!OncePerKey(n)
  <2>1. \A i, j \in Journal!Effects(l) :
          /\ KeyOf[l.audit[i].cmd] # NoKey
          /\ KeyOf[l.audit[i].cmd] = KeyOf[l.audit[j].cmd]
          => i = j
    BY DEF SoundLog, Journal!OncePerKey
  <2>2. \A i \in Journal!Effects(l) :
          KeyOf[l.audit[i].cmd] # NoKey => KeyOf[l.audit[i].cmd] # KeyOf[cmd]
    BY <1>15, <1>16
  <2>3. \A i \in Journal!Effects(l) : n.audit[i] = l.audit[i]
    BY <1>13
  <2>4. n.audit[k].cmd = cmd
    BY <1>10, <1>13
  <2> QED BY <1>13, <2>1, <2>2, <2>3, <2>4 DEF Journal!OncePerKey
<1>18. KeysRecorded(n)
  BY <1>10, <1>13, <1>15, <1>16 DEF KeysRecorded
<1>19. Journal!HumanEffects(n)
  BY <1>10, <1>13 DEF SoundLog, Journal!HumanEffects, Journal!NeedsHuman, Journal!ActorOf
<1>20. Journal!ConfirmedOnce(n)
  <2>1. Journal!ConfirmedOnce(l)
    BY DEF SoundLog
  <2>2. 0 \notin DOMAIN n.pending /\ n.pending = l.pending
    BY <1>1, <1>6, <1>9 DEF Databases
  <2>3. n.audit[k].from = 0 /\ \A i \in Journal!Effects(l) : n.audit[i] = l.audit[i]
    BY <1>10, <1>13
  <2> QED BY <1>13, <2>1, <2>2, <2>3 DEF Journal!ConfirmedOnce
<1>21. FromDeposits(n)
  <2>1. FromDeposits(l) /\ n.pending = l.pending
    BY <1>6, <1>9 DEF SoundLog
  <2>2. n.audit[k].from = 0 /\ \A i \in Journal!Effects(l) : n.audit[i] = l.audit[i]
    BY <1>10, <1>13
  <2> QED BY <1>13, <2>1, <2>2 DEF FromDeposits
<1>22. LeftForHumans(n)
  BY <1>6, <1>9 DEF SoundLog, LeftForHumans
<1> QED BY <1>4, <1>12, <1>17, <1>18, <1>19, <1>20, <1>21, <1>22 DEF SoundLog

(* So does a deposited action: it has no effect yet.                        *)
LEMMA DepositKeeps ==
  ASSUME NEW l, SoundLog(l), NEW n, NEW cmd \in Confirming, NEW expected \in Revisions,
         n = Journal!Audited(Journal!Deposited(l, cmd, expected),
                             Journal!DepositEntry(cmd, expected))
  PROVE  SoundLog(n)
<1> DEFINE left == Journal!Deposited(l, cmd, expected)
           e == Journal!DepositEntry(cmd, expected)
           row == [cmd |-> cmd, expected |-> expected, status |-> "pending"]
<1>1. l \in Databases /\ cmd \in Commands
  BY CommandsAssumption DEF SoundLog
<1>2. left \in Databases
  BY <1>1, DepositedTyped
<1>3. e \in AuditRows
  BY <1>1, EntriesTyped, EmptyTyped DEF Journal!DepositEntry, Journal!Entry, AuditRows, Outcomes
<1>4. n \in Databases
  BY <1>2, <1>3, AuditedTyped
<1>5. left.revision = l.revision /\ left.keys = l.keys /\ left.audit = l.audit
      /\ left.pending = Append(l.pending, row)
  BY <1>1 DEF Journal!Deposited, Databases
<1>6. n.revision = l.revision /\ n.keys = l.keys /\ n.pending = left.pending
      /\ n.audit = Append(l.audit, e)
  BY <1>2, <1>5 DEF Journal!Audited, Databases
<1>7. e.outcome = "pending_confirmation"
  BY DEF Journal!DepositEntry, Journal!Entry
<1> HIDE DEF e, left
<1>8. /\ \A i \in DOMAIN l.audit : n.audit[i] = l.audit[i]
      /\ Journal!Effects(n) = Journal!Effects(l)
      /\ Journal!Effects(l) \subseteq DOMAIN l.audit
  BY <1>1, <1>3, <1>4, <1>6, <1>7, AppendEffects
<1>9. l.pending \in Seq(PendingRows) /\ row.status = "pending" /\ row.cmd = cmd
  BY <1>1 DEF Databases
<1> HIDE DEF row
<1>10. /\ DOMAIN l.pending = 1..Len(l.pending) /\ Len(l.pending) \in Nat
       /\ DOMAIN n.pending = 1..(Len(l.pending) + 1)
       /\ \A id \in DOMAIN l.pending : n.pending[id] = l.pending[id]
       /\ n.pending[Len(l.pending) + 1] = row
  BY <1>5, <1>6, <1>9
<1>11. \A i \in Journal!Effects(l) : n.audit[i] = l.audit[i]
  BY <1>8
<1>12. Journal!Explained(n)
  <2>1. \A d \in Docs : Journal!EffectsOn(n, d) = Journal!EffectsOn(l, d)
    BY <1>8, <1>11 DEF Journal!EffectsOn
  <2>2. \A d \in Docs : Journal!EffectsOn(l, d) \subseteq Journal!Effects(l)
    BY DEF Journal!EffectsOn
  <2>3. \A d \in Docs : \A i \in Journal!EffectsOn(l, d) : n.audit[i] = l.audit[i]
    BY <1>11, <2>2
  <2> SUFFICES ASSUME NEW d \in Docs PROVE Journal!Explained(n)!(d)
    BY DEF Journal!Explained
  <2>4. Journal!Explained(l)!(d)
    BY DEF SoundLog, Journal!Explained
  <2>5. Journal!EffectsOn(n, d) = Journal!EffectsOn(l, d) /\ n.revision[d] = l.revision[d]
    BY <1>6, <2>1
  <2>6. \A i \in Journal!EffectsOn(l, d) : n.audit[i] = l.audit[i]
    BY <2>3
  <2> QED BY <2>4, <2>5, <2>6
<1>13. Journal!OncePerKey(n) /\ Journal!HumanEffects(n) /\ KeysRecorded(n)
       /\ QuotesPrevious(n)
  BY <1>6, <1>8, <1>11 DEF SoundLog, Journal!OncePerKey, Journal!HumanEffects, KeysRecorded,
     QuotesPrevious
<1>14. \A i \in Journal!Effects(n) : n.audit[i].from # 0 => n.audit[i].from \in DOMAIN l.pending
  BY <1>8, <1>11 DEF SoundLog, FromDeposits
<1>15. FromDeposits(n)
  BY <1>10, <1>14 DEF FromDeposits
<1>16. Journal!ConfirmedOnce(n)
  <2>1. \A i, j \in Journal!Effects(n) :
          n.audit[i].from # 0 /\ n.audit[i].from = n.audit[j].from => i = j
    BY <1>8, <1>11 DEF SoundLog, Journal!ConfirmedOnce
  <2>2. ASSUME NEW id \in DOMAIN n.pending
        PROVE  n.pending[id].status = "confirmed"
                 <=> \E i \in Journal!Effects(n) : n.audit[i].from = id
    <3>1. CASE id \in DOMAIN l.pending
      BY <1>8, <1>10, <1>11, <3>1 DEF SoundLog, Journal!ConfirmedOnce
    <3>2. CASE id = Len(l.pending) + 1
      <4>1. id \notin DOMAIN l.pending /\ id # 0 /\ n.pending[id].status = "pending"
        BY <1>9, <1>10, <3>2
      <4> QED BY <1>14, <4>1
    <3> QED BY <1>10, <2>2, <3>1, <3>2
  <2> QED BY <2>1, <2>2 DEF Journal!ConfirmedOnce
<1>17. LeftForHumans(n)
  BY <1>9, <1>10 DEF SoundLog, LeftForHumans
<1> QED BY <1>4, <1>12, <1>13, <1>15, <1>16, <1>17 DEF SoundLog

(* And a confirmation: its action had no effect, and has one.               *)
LEMMA ConfirmKeeps ==
  ASSUME NEW l, SoundLog(l), NEW n, NEW id \in DOMAIN l.pending, NEW p, NEW kept,
         p = l.pending[id], p.status = "pending",
         Journal!Applicable(l, p.cmd, p.expected),
         kept = Journal!Confirmed(Journal!Applied(l, p.cmd), id),
         n = Journal!Audited(kept, Journal!ConfirmEntry(kept, p, id))
  PROVE  SoundLog(n)
<1> DEFINE e == Journal!ConfirmEntry(kept, p, id)
           k == Len(l.audit) + 1
           rows == [l.pending EXCEPT ![id].status = "confirmed"]
<1>1. l \in Databases /\ l.pending \in Seq(PendingRows)
  BY DEF SoundLog, Databases
<1>2. p \in PendingRows /\ p.cmd \in Commands /\ p.expected \in Revisions
      /\ id \in Nat /\ id # 0 /\ DocOf[p.cmd] \in Docs
  <2>1. p \in PendingRows /\ id \in Nat /\ id # 0
    <3>1. id \in DOMAIN l.pending /\ p = l.pending[id]
      OBVIOUS
    <3> QED BY ONLY <1>1, <3>1
  <2> QED BY ONLY <2>1, CommandsAssumption DEF PendingRows
<1>3. Journal!Applied(l, p.cmd) \in Databases
      /\ Journal!Applied(l, p.cmd).revision = [l.revision EXCEPT ![DocOf[p.cmd]] = @ + 1]
      /\ Journal!Applied(l, p.cmd).keys = l.keys
      /\ Journal!Applied(l, p.cmd).pending = l.pending
      /\ Journal!Applied(l, p.cmd).audit = l.audit
  BY ONLY <1>1, <1>2, AppliedTyped DEF Journal!Applied, Databases
<1>4. kept \in Databases
  BY <1>3, ConfirmedTyped
<1>5. kept.revision = [l.revision EXCEPT ![DocOf[p.cmd]] = @ + 1]
      /\ kept.keys = l.keys /\ kept.audit = l.audit /\ kept.pending = rows
  <2>1. kept = Journal!Confirmed(Journal!Applied(l, p.cmd), id)
    OBVIOUS
  <2> QED BY ONLY <1>3, <2>1 DEF Journal!Confirmed, Databases
<1>6. e \in AuditRows
  BY <1>2, <1>4, EntriesTyped
<1>7. n \in Databases
  BY <1>4, <1>6, AuditedTyped
<1>8. n.revision = kept.revision /\ n.keys = l.keys /\ n.pending = rows
      /\ n.audit = Append(l.audit, e)
  <2>1. n = Journal!Audited(kept, e)
    OBVIOUS
  <2> QED BY ONLY <1>4, <1>5, <2>1 DEF Journal!Audited, Databases
<1>9. e.cmd = p.cmd /\ e.outcome = "confirmed" /\ e.from = id /\ e.expected = p.expected
      /\ e.output = l.revision[DocOf[p.cmd]] + 1 /\ e.actor = "human"
  BY <1>1, <1>2, <1>5 DEF Journal!ConfirmEntry, Journal!Entry, Journal!OutputOf, Databases
<1> HIDE DEF e
<1>10. EffectStep(l, n, e)
  <2>1. Journal!Applicable(l, p.cmd, p.expected)
    OBVIOUS
  <2> QED BY ONLY <1>5, <1>6, <1>8, <1>9, <2>1 DEF EffectStep, Journal!Applicable
<1>11. Journal!Explained(n) /\ QuotesPrevious(n)
  <2>1. Journal!Explained(l) /\ QuotesPrevious(l)
    BY DEF SoundLog
  <2> QED BY ONLY <1>1, <1>7, <1>10, <2>1, EffectExplained
<1>12. /\ k \in Nat /\ k \notin DOMAIN l.audit
       /\ \A i \in DOMAIN l.audit : n.audit[i] = l.audit[i]
       /\ n.audit[k] = e
       /\ Journal!Effects(n) = Journal!Effects(l) \cup {k}
       /\ Journal!Effects(l) \subseteq DOMAIN l.audit
  BY ONLY <1>1, <1>6, <1>7, <1>8, <1>9, AppendEffects
<1> HIDE DEF k
<1>13. /\ DOMAIN rows = DOMAIN l.pending
       /\ rows[id].status = "confirmed"
       /\ \A o \in DOMAIN l.pending : o # id => rows[o] = l.pending[o]
       /\ rows[id].cmd = p.cmd
  <2>1. DOMAIN rows = DOMAIN l.pending /\ rows[id] = [l.pending[id] EXCEPT !.status = "confirmed"]
    OBVIOUS
  <2>2. /\ [l.pending[id] EXCEPT !.status = "confirmed"].status = "confirmed"
        /\ [l.pending[id] EXCEPT !.status = "confirmed"].cmd = p.cmd
    BY <1>2 DEF PendingRows
  <2> QED BY <2>1, <2>2
<1> HIDE DEF rows
<1>14. \A i \in Journal!Effects(l) : n.audit[i] = l.audit[i]
  BY ONLY <1>12
<1>15. p.cmd \in Confirming /\ KeyOf[p.cmd] = NoKey
  BY CommandsAssumption DEF SoundLog, LeftForHumans
<1>16. Journal!ConfirmedOnce(l) /\ \A i \in Journal!Effects(l) : l.audit[i].from # id
  BY DEF SoundLog, Journal!ConfirmedOnce
<1>17. n.audit[k].cmd = p.cmd /\ n.audit[k].from = id /\ n.audit[k].actor = "human"
  BY ONLY <1>9, <1>12
<1>18. Journal!HumanEffects(n)
  <2>1. Journal!HumanEffects(l)
    BY DEF SoundLog
  <2> QED BY ONLY <1>12, <1>14, <1>17, <2>1 DEF Journal!HumanEffects
<1>19. Journal!ConfirmedOnce(n)
  <2>1. ASSUME NEW i \in Journal!Effects(n), NEW j \in Journal!Effects(n),
               n.audit[i].from # 0, n.audit[i].from = n.audit[j].from
        PROVE  i = j
    <3>1. \A x, y \in Journal!Effects(l) :
            l.audit[x].from # 0 /\ l.audit[x].from = l.audit[y].from => x = y
      BY ONLY <1>16 DEF Journal!ConfirmedOnce
    <3> QED BY ONLY <1>12, <1>14, <1>16, <1>17, <2>1, <3>1
  <2>2. ASSUME NEW o \in DOMAIN n.pending
        PROVE  n.pending[o].status = "confirmed"
                 <=> \E i \in Journal!Effects(n) : n.audit[i].from = o
    <3>1. CASE o = id
      BY ONLY <1>8, <1>12, <1>13, <1>17, <3>1
    <3>2. CASE o # id
      <4>1. o \in DOMAIN l.pending /\ n.pending[o] = l.pending[o]
        BY ONLY <1>8, <1>13, <2>2, <3>2
      <4>2. l.pending[o].status = "confirmed"
              <=> \E i \in Journal!Effects(l) : l.audit[i].from = o
        BY ONLY <1>16, <4>1 DEF Journal!ConfirmedOnce
      <4> QED BY ONLY <1>12, <1>14, <1>17, <3>2, <4>1, <4>2
    <3> QED BY <3>1, <3>2
  <2> QED BY ONLY <2>1, <2>2 DEF Journal!ConfirmedOnce
<1>20. FromDeposits(n)
  <2>1. FromDeposits(l) /\ DOMAIN n.pending = DOMAIN l.pending
    BY <1>8, <1>13 DEF SoundLog
  <2> QED BY ONLY <1>12, <1>14, <1>17, <2>1 DEF FromDeposits
<1>21. LeftForHumans(n)
  <2>1. LeftForHumans(l)
    BY DEF SoundLog
  <2> QED BY ONLY <1>8, <1>13, <1>15, <2>1 DEF LeftForHumans
<1>22. Journal!OncePerKey(n) /\ KeysRecorded(n)
  <2>1. Journal!OncePerKey(l) /\ KeysRecorded(l) /\ n.keys = l.keys
    BY <1>8 DEF SoundLog
  <2>2. \A i \in Journal!Effects(n) :
          KeyOf[n.audit[i].cmd] # NoKey => i \in Journal!Effects(l) /\ n.audit[i] = l.audit[i]
    BY ONLY <1>12, <1>14, <1>15, <1>17
  <2>3. ASSUME NEW i \in Journal!Effects(n), NEW j \in Journal!Effects(n),
               KeyOf[n.audit[i].cmd] # NoKey, KeyOf[n.audit[i].cmd] = KeyOf[n.audit[j].cmd]
        PROVE  i = j
    <3>1. \A x, y \in Journal!Effects(l) :
            KeyOf[l.audit[x].cmd] # NoKey /\ KeyOf[l.audit[x].cmd] = KeyOf[l.audit[y].cmd]
            => x = y
      BY ONLY <2>1 DEF Journal!OncePerKey
    <3>2. /\ i \in Journal!Effects(l) /\ n.audit[i] = l.audit[i]
          /\ j \in Journal!Effects(l) /\ n.audit[j] = l.audit[j]
      BY ONLY <2>2, <2>3
    <3> QED BY ONLY <2>3, <3>1, <3>2
  <2>4. ASSUME NEW i \in Journal!Effects(n), KeyOf[n.audit[i].cmd] # NoKey
        PROVE  n.keys[KeyOf[n.audit[i].cmd]] # 0
    <3>1. i \in Journal!Effects(l) /\ n.audit[i] = l.audit[i]
      BY ONLY <2>2, <2>4
    <3>2. l.keys[KeyOf[l.audit[i].cmd]] # 0
      BY ONLY <2>1, <2>4, <3>1 DEF KeysRecorded
    <3> QED BY ONLY <2>1, <3>1, <3>2
  <2> QED BY ONLY <2>3, <2>4 DEF Journal!OncePerKey, KeysRecorded
<1> QED BY <1>7, <1>11, <1>18, <1>19, <1>20, <1>21, <1>22 DEF SoundLog

----------------------------------------------------------------------------
(* The promises of the log, at every commit.                                *)

(* The empty log keeps them.                                                *)
LEMMA SoundInit == SoundLog(Journal!EmptyLog)
<1> DEFINE l == Journal!EmptyLog
<1>1. l \in Databases
  BY EmptyTyped
<1>2. /\ l.revision = [d \in Docs |-> 0] /\ DOMAIN l.pending = {}
      /\ Journal!Effects(l) = {} /\ \A d \in Docs : Journal!EffectsOn(l, d) = {}
  BY DEF Journal!EmptyLog, Journal!Effects, Journal!EffectsOn
<1> HIDE DEF l
<1>3. Journal!Explained(l)
  BY <1>2 DEF Journal!Explained
<1>4. /\ Journal!OncePerKey(l) /\ Journal!HumanEffects(l) /\ Journal!ConfirmedOnce(l)
      /\ KeysRecorded(l) /\ QuotesPrevious(l) /\ FromDeposits(l) /\ LeftForHumans(l)
  BY <1>2 DEF Journal!OncePerKey, Journal!HumanEffects, Journal!ConfirmedOnce, KeysRecorded,
     QuotesPrevious, FromDeposits, LeftForHumans
<1>5. SoundLog(l)
  BY <1>1, <1>3, <1>4 DEF SoundLog
<1> QED BY <1>5 DEF l

(* Every step of the journal keeps them.                                    *)
LEMMA SoundStep == SoundLog(db) /\ [Journal!Next]_db => SoundLog(db')
<1> SUFFICES ASSUME SoundLog(db), [Journal!Next]_db PROVE SoundLog(db')
  OBVIOUS
<1>1. ASSUME NEW c \in Clients, NEW cmd \in Commands, NEW expected \in Revisions,
             Journal!Effect(c, cmd, expected)
      PROVE  SoundLog(db')
  BY <1>1, DirectKeeps DEF Journal!Effect
<1>2. ASSUME NEW c \in Clients, NEW cmd \in Commands, NEW expected \in Revisions,
             Journal!Deposit(c, cmd, expected)
      PROVE  SoundLog(db')
  BY <1>2, DepositKeeps DEF Journal!Deposit, Journal!NeedsHuman
<1>3. ASSUME NEW id \in DOMAIN db.pending, Journal!Confirm(id)
      PROVE  SoundLog(db')
  BY <1>3, ConfirmKeeps DEF Journal!Confirm
<1>4. CASE db' = db
  BY <1>4
<1> QED BY <1>1, <1>2, <1>3, <1>4 DEF Journal!Next

(* No two effects of a sound log quote the same revision of a row: each is  *)
(* the only one that made the next revision.                                *)
LEMMA SoundUnlost == ASSUME NEW l, SoundLog(l) PROVE Journal!Unlost(l)
<1>1. Journal!Explained(l) /\ QuotesPrevious(l)
  BY DEF SoundLog
<1>2. ASSUME NEW d \in Docs, NEW i \in Journal!EffectsOn(l, d), NEW j \in Journal!EffectsOn(l, d),
             l.audit[i].cmd \in Revised, l.audit[j].cmd \in Revised,
             l.audit[i].expected = l.audit[j].expected
      PROVE  i = j
  <2>1. i \in Journal!Effects(l) /\ j \in Journal!Effects(l)
    BY DEF Journal!EffectsOn
  <2>2. l.audit[i].output = l.audit[j].output
    BY <1>1, <1>2, <2>1 DEF QuotesPrevious
  <2> QED BY <1>1, <2>2 DEF Journal!Explained
<1> QED BY <1>2 DEF Journal!Unlost

(* The committed log is sound in every reachable state.                     *)
THEOREM Soundness == Spec => []SoundLog(db)
<1>1. Init => SoundLog(db)
  BY SoundInit DEF Init
<1>2. ExecutorInv /\ SoundLog(db) /\ [Next]_vars => SoundLog(db)'
  BY StepIsJournalStep, SoundStep
<1> QED BY <1>1, <1>2, Invariance, PTL DEF Spec

(* The audit log explains the book after any crash and any interleaving.    *)
THEOREM BookExplained == Spec => []LogExplainsBook
<1>1. SoundLog(db) => LogExplainsBook
  BY DEF SoundLog, LogExplainsBook
<1> QED BY <1>1, Soundness, PTL

(* A key never has two effects, whatever is retried or lost.                *)
THEOREM Idempotence == Spec => []OneEffectPerKey
<1>1. SoundLog(db) => OneEffectPerKey
  BY DEF SoundLog, OneEffectPerKey
<1> QED BY <1>1, Soundness, PTL

(* What needs a human never takes effect on an agent's word.                *)
THEOREM HumanInTheLoop == Spec => []AgentsNeedAHuman
<1>1. SoundLog(db) => AgentsNeedAHuman
  BY DEF SoundLog, AgentsNeedAHuman
<1> QED BY <1>1, Soundness, PTL

(* A deposited action has one effect when confirmed, and none before.       *)
THEOREM ConfirmationOnce == Spec => []ConfirmedHasOneEffect
<1>1. SoundLog(db) => ConfirmedHasOneEffect
  BY DEF SoundLog, ConfirmedHasOneEffect
<1> QED BY <1>1, Soundness, PTL

(* No update of a row overwrites one its author had not seen.               *)
THEOREM OptimisticLock == Spec => []NoLostUpdate
<1>1. SoundLog(db) => NoLostUpdate
  BY SoundUnlost DEF NoLostUpdate
<1> QED BY <1>1, Soundness, PTL

----------------------------------------------------------------------------
(* What is committed and what is told.                                      *)

(* Every step of the journal writes one entry, and nothing over another:    *)
(* the entry of an effect is of the command and of the output recorded.     *)
LEMMA JournalAppends ==
  ASSUME db \in Databases, Journal!Next
  PROVE  \E e \in AuditRows :
           /\ db'.audit = Append(db.audit, e)
           /\ \A key \in Keys : db'.keys[key] # db.keys[key] =>
                /\ e.outcome # "pending_confirmation" /\ KeyOf[e.cmd] = key
                /\ db'.keys[key] = e.output
<1>0. db.keys \in [Keys -> Nat]
  BY DEF Databases
<1>1. ASSUME NEW c \in Clients, NEW cmd \in Commands, NEW expected \in Revisions,
             Journal!Effect(c, cmd, expected)
      PROVE  \E e \in AuditRows :
               /\ db'.audit = Append(db.audit, e)
               /\ \A key \in Keys : db'.keys[key] # db.keys[key] =>
                    /\ e.outcome # "pending_confirmation" /\ KeyOf[e.cmd] = key
                    /\ db'.keys[key] = e.output
  <2> DEFINE kept == Journal!Keyed(Journal!Applied(db, cmd), cmd)
             e == Journal!DirectEntry(kept, c, cmd, expected)
  <2>1. Journal!Applied(db, cmd) \in Databases /\ kept \in Databases /\ e \in AuditRows
    BY AppliedTyped, KeyedTyped, EntriesTyped
  <2>2. db' = Journal!Audited(kept, e)
    BY <1>1 DEF Journal!Effect
  <2>3. db'.audit = Append(kept.audit, e) /\ db'.keys = kept.keys
    BY <2>1, <2>2 DEF Journal!Audited, Databases
  <2>4. Journal!Applied(db, cmd).audit = db.audit /\ Journal!Applied(db, cmd).keys = db.keys
    BY DEF Journal!Applied, Databases
  <2>5. /\ kept.audit = db.audit
        /\ kept.revision = Journal!Applied(db, cmd).revision
        /\ kept.keys = IF KeyOf[cmd] = NoKey THEN db.keys
                       ELSE [db.keys EXCEPT ![KeyOf[cmd]] = Journal!OutputOf(Journal!Applied(db, cmd), cmd)]
    BY <2>1, <2>4 DEF Journal!Keyed, Databases
  <2>6. e.cmd = cmd /\ e.outcome = "applied" /\ e.output = Journal!OutputOf(Journal!Applied(db, cmd), cmd)
    BY <2>5 DEF Journal!DirectEntry, Journal!Entry, Journal!OutputOf
  <2> HIDE DEF e, kept
  <2>7. \A key \in Keys : db'.keys[key] # db.keys[key] => KeyOf[cmd] = key /\ db'.keys[key] = e.output
    BY <1>0, <2>3, <2>5, <2>6
  <2> QED
    BY <2>1, <2>3, <2>5, <2>6, <2>7
<1>2. ASSUME NEW c \in Clients, NEW cmd \in Commands, NEW expected \in Revisions,
             Journal!Deposit(c, cmd, expected)
      PROVE  \E e \in AuditRows : db'.audit = Append(db.audit, e) /\ db'.keys = db.keys
  <2> DEFINE kept == Journal!Deposited(db, cmd, expected)
             e == Journal!DepositEntry(cmd, expected)
  <2>1. e \in AuditRows /\ db' = Journal!Audited(kept, e)
    BY <1>2, EntriesTyped DEF Journal!Deposit
  <2>2. kept.audit = db.audit /\ kept.keys = db.keys /\ kept \in Databases
    BY DepositedTyped DEF Journal!Deposited, Databases
  <2> HIDE DEF e, kept
  <2> QED
    BY <2>1, <2>2 DEF Journal!Audited, Databases
<1>3. ASSUME NEW id \in DOMAIN db.pending, Journal!Confirm(id)
      PROVE  \E e \in AuditRows : db'.audit = Append(db.audit, e) /\ db'.keys = db.keys
  <2> DEFINE p == db.pending[id]
             kept == Journal!Confirmed(Journal!Applied(db, p.cmd), id)
             e == Journal!ConfirmEntry(kept, p, id)
  <2>1. p \in PendingRows /\ p.cmd \in Commands /\ id \in Nat
    <3>1. db.pending \in Seq(PendingRows)
      BY DEF Databases
    <3>2. p \in PendingRows /\ id \in Nat
      BY <3>1
    <3> QED
      BY <3>2 DEF PendingRows
  <2>2. /\ Journal!Applied(db, p.cmd) \in Databases
        /\ Journal!Applied(db, p.cmd).audit = db.audit /\ Journal!Applied(db, p.cmd).keys = db.keys
        /\ Journal!Applied(db, p.cmd).pending = db.pending
    BY <2>1, AppliedTyped DEF Journal!Applied, Databases
  <2>3. kept \in Databases /\ kept.audit = db.audit /\ kept.keys = db.keys
    BY <2>2, ConfirmedTyped DEF Journal!Confirmed, Databases
  <2>4. e \in AuditRows
    BY <2>1, <2>3, EntriesTyped
  <2>5. db' = Journal!Audited(kept, e)
    BY <1>3 DEF Journal!Confirm
  <2> HIDE DEF e, kept
  <2> QED
    BY <2>3, <2>4, <2>5 DEF Journal!Audited, Databases
<1> QED
  BY <1>1, <1>2, <1>3 DEF Journal!Next

(* The audit log only grows, by one entry for each commit, whatever crash   *)
(* or failure falls between the statements (audit.rs, append).              *)
THEOREM OneEntryPerCommit == Spec => EveryCommitAudited
<1> DEFINE Grows == db' # db => /\ Len(db'.audit) = Len(db.audit) + 1
                                /\ \A i \in DOMAIN db.audit : db'.audit[i] = db.audit[i]
<1>1. ExecutorInv /\ [Next]_vars => [Grows]_vars
  <2> SUFFICES ASSUME ExecutorInv, [Next]_vars, db' # db PROVE Grows
    BY DEF vars, storage
  <2>1. db \in Databases /\ Journal!Next
    BY StepIsJournalStep DEF ExecutorInv, TypeOK
  <2>2. db.audit \in Seq(AuditRows)
    BY <2>1 DEF Databases
  <2>3. PICK e \in AuditRows : db'.audit = Append(db.audit, e)
    BY <2>1, JournalAppends
  <2> QED
    BY <2>2, <2>3
<1> QED
  BY <1>1, Invariance, PTL DEF Spec, EveryCommitAudited

(* An effect of the log in which an answer is recorded.                     *)
Answers(l, cmd, output) ==
    \E i \in Journal!Effects(l) :
      /\ l.audit[i].cmd = cmd \/ SameKey(l.audit[i].cmd, cmd)
      /\ l.audit[i].output = output

(* What is under a key is the output of an audited effect under that key.   *)
KeysAreAudited ==
    \A key \in Keys : db.keys[key] # 0 =>
      \E i \in Journal!Effects(db) : KeyOf[db.audit[i].cmd] = key /\ db.audit[i].output = db.keys[key]

LEMMA ToldStep ==
  ASSUME ExecutorInv, ExecutorInv', ToldIsAudited, KeysAreAudited, [Next]_vars
  PROVE  ToldIsAudited' /\ KeysAreAudited'
<1>1. db \in Databases /\ db' \in Databases /\ told \in SUBSET [cmd : Commands, output : Nat]
  BY DEF ExecutorInv, TypeOK
<1>2. db' = db \/ Journal!Next
  BY StepIsJournalStep
<1>3. \A i \in Journal!Effects(db) : i \in Journal!Effects(db)' /\ db'.audit[i] = db.audit[i]
  <2>1. CASE db' = db
    BY <2>1
  <2>2. CASE Journal!Next
    <3>1. PICK e \in AuditRows : db'.audit = Append(db.audit, e)
      BY <1>1, <2>2, JournalAppends
    <3>2. db.audit \in Seq(AuditRows)
      BY <1>1 DEF Databases
    <3> QED
      BY <3>1, <3>2 DEF Journal!Effects
  <2> QED
    BY <1>2, <2>1, <2>2
<1>4. KeysAreAudited'
  <2> SUFFICES ASSUME NEW key \in Keys, db'.keys[key] # 0
               PROVE  \E i \in Journal!Effects(db') :
                        KeyOf[db'.audit[i].cmd] = key /\ db'.audit[i].output = db'.keys[key]
    BY DEF KeysAreAudited
  <2>1. CASE db'.keys[key] = db.keys[key]
    BY <1>3, <2>1 DEF KeysAreAudited
  <2>2. CASE db'.keys[key] # db.keys[key]
    <3>1. Journal!Next
      BY <1>2, <2>2
    <3>2. PICK e \in AuditRows :
            /\ db'.audit = Append(db.audit, e)
            /\ e.outcome # "pending_confirmation" /\ KeyOf[e.cmd] = key /\ db'.keys[key] = e.output
      BY <1>1, <2>2, <3>1, JournalAppends
    <3>3. Len(db.audit) + 1 \in Journal!Effects(db') /\ db'.audit[Len(db.audit) + 1] = e
      BY <1>1, <3>2, AppendEffects
    <3> QED
      BY <3>2, <3>3
  <2> QED
    BY <2>1, <2>2
<1>5. \A t \in told : Answers(db', t.cmd, t.output)
  BY <1>3 DEF ToldIsAudited, Answers
<1>6. CASE told' = told
  BY <1>4, <1>5, <1>6 DEF ToldIsAudited, Answers
<1>7. ASSUME NEW c \in Clients, Replay(c) PROVE ToldIsAudited'
  <2>1. pc[c] = "opened" /\ IsExecute(c) /\ Journal!KeyUsed(work, req[c].cmd) /\ db' = db
    BY <1>7 DEF Replay, AlreadyDone
  <2>2. work = db
    BY <2>1 DEF ExecutorInv, WorkTracksDb
  <2>3. req[c].cmd \in Commands
    BY <2>1, RequestTyped DEF ExecutorInv
  <2>4. KeyOf[req[c].cmd] \in Keys /\ db.keys[KeyOf[req[c].cmd]] # 0
    BY <2>1, <2>2, <2>3, CommandsAssumption DEF Journal!KeyUsed
  <2>5. Answers(db, req[c].cmd, db.keys[KeyOf[req[c].cmd]])
    BY <2>4, CommandsAssumption DEF KeysAreAudited, Answers, SameKey
  <2>6. told' = told \cup {[cmd |-> req[c].cmd, output |-> db.keys[KeyOf[req[c].cmd]]]}
    BY <1>7, <2>2 DEF Replay
  <2> QED
    BY <1>5, <2>1, <2>5, <2>6 DEF ToldIsAudited, Answers
<1>8. ASSUME NEW c \in Clients, NEW delivered \in BOOLEAN, Commit(c, delivered) PROVE ToldIsAudited'
  <2> DEFINE last == LastEntry(work)
  <2>1. db' = work /\ pc[c] = "audited"
    BY <1>8 DEF Commit
  <2>2. Journal!Next
    BY <1>8, CommitIsJournalStep
  <2>3. PICK e \in AuditRows : db'.audit = Append(db.audit, e)
    BY <1>1, <2>2, JournalAppends
  <2>4. last = e
    BY <1>1, <2>1, <2>3, AppendEffects DEF LastEntry, Databases
  <2>5. e.outcome # "pending_confirmation" =>
          Len(db.audit) + 1 \in Journal!Effects(db') /\ db'.audit[Len(db.audit) + 1] = e
    BY <1>1, <2>3, AppendEffects
  <2>6. last.outcome # "pending_confirmation" => Answers(db', last.cmd, last.output)
    BY <2>4, <2>5 DEF Answers
  <2>7. told' = told \/ (last.outcome # "pending_confirmation"
                         /\ told' = told \cup {[cmd |-> last.cmd, output |-> last.output]})
    BY <1>8 DEF Commit
  <2> HIDE DEF last
  <2> QED
    BY <1>5, <2>6, <2>7 DEF ToldIsAudited, Answers
<1>9. told' = told \/ (\E c \in Clients : Replay(c)
                        \/ \E delivered \in BOOLEAN : Commit(c, delivered))
  BY DEF Next, Progress, Read, Ask, AskExecute, AskConfirm, Begin, Busy, Deposit,
         AuditDeposit, Unresolvable, Conflict, Apply, Record, Audit, Fail, Rollback, vars
<1> QED
  BY <1>4, <1>6, <1>7, <1>8, <1>9

(* A success that was answered is in the audit log, for good, whether it is *)
(* the first answer or one replayed from the key (executor.rs, execute).    *)
THEOREM AnswersStayTrue == Spec => []ToldIsAudited
<1>1. Init => ToldIsAudited /\ KeysAreAudited
  BY DEF Init, ToldIsAudited, KeysAreAudited, Journal!EmptyLog
<1>2. ExecutorInv /\ ExecutorInv' /\ (ToldIsAudited /\ KeysAreAudited) /\ [Next]_vars
        => (ToldIsAudited /\ KeysAreAudited)'
  BY ToldStep
<1> QED
  BY <1>1, <1>2, Invariance, PTL DEF Spec
=============================================================================
