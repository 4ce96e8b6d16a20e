-------------------------------- MODULE Vault --------------------------------
(***************************************************************************)
(* The vault file, its key sidecar and the ways in: creation, opening by    *)
(* passphrase or by a remembered session, change of passphrase, backups.    *)
(* Several processes share the files; a process may die between any two     *)
(* accesses to them. Encryption is abstracted to "which key opens what".    *)
(***************************************************************************)
EXTENDS Integers, FiniteSets

CONSTANTS
    Procs, Changers, \* the processes, those that create or change the passphrase
    Passphrases, Typos,
    NoFile, NoKey, Nobody,
    First,          \* the passphrase of the vault that exists at the start
    Formats,        \* its sidecar format, 1 to 3; 0 when there is none yet
    Mistakes,       \* whether a wrong passphrase may be typed on format 1
    Errors,         \* whether a file operation may return an error
    MaxCalls        \* bound: calls made in a behaviour

(* A key: derived from a passphrase, or a random master key.                *)
Derived(p) == <<"derived", p>>
Master(n) == <<"master", n>>

Typed == Passphrases \cup Typos
Keys == {Derived(p) : p \in Typed} \cup {"master"} \X Nat

(* Only the sidecar that predates vault ids has the one made from its path, *)
(* and no key to recognise.                                                 *)
Sidecars ==
    [format : {1}, id : {0}, pass : Typed, key : {NoKey}]
      \cup [format : {2, 3}, id : Nat \ {0}, pass : Typed, key : Keys]

ASSUME VaultAssumption ==
    /\ Changers \subseteq Procs
    /\ First \in Passphrases /\ Typos \cap Passphrases = {}
    /\ Formats \subseteq 0..3 /\ {Mistakes, Errors} \subseteq BOOLEAN /\ MaxCalls \in Nat
    /\ Nobody \notin Procs /\ NoFile \notin Keys /\ NoFile \notin Sidecars

VARIABLES
    base,           \* the key of the database file, NoFile without one
    sidecar,        \* <db>.kdf
    staged,         \* <db>.kdf.new
    rekeyed,        \* the key of <db>.rekeyed
    receipts,       \* the keys that seal the files of <db>.receipts/
    mailbox,        \* the key of <db>.mailbox
    backups,        \* the backups written
    sessions,       \* the OS keyring: keys remembered per vault id
    excl,           \* who holds SQLite's exclusive lock on the file
    pc, call,       \* where each process is, and in what call
    mem, key, vid,  \* the sidecar it read, the key it holds, its vault id
    answer,         \* what its last call answered
    right,          \* history: those whose passphrase was right ever since they asked
    fresh, calls

disk == <<base, sidecar, staged, rekeyed, receipts, mailbox, backups, sessions>>
local == <<pc, call, mem, key, vid, answer>>
vars == <<disk, excl, local, right, fresh, calls>>

Sidecar(format, id, pass, k) == [format |-> format, id |-> id, pass |-> pass, key |-> k]

(* What a sidecar says of a passphrase: v1 carries no verifier, v2 the hash *)
(* of the derived key, v3 the master key sealed under the passphrase.       *)
Accepts(s, p) ==
    \/ s.format = 1
    \/ s.format = 2 /\ s.key = Derived(p)
    \/ s.format = 3 /\ s.pass = p
KeyFrom(s, p) == IF s.format = 3 THEN s.key ELSE Derived(p)
Verifies(s, k) == s.format = 1 \/ s.key = k

(* What opening by a passphrase finds, when nothing else happens.           *)
Opens(p) ==
    /\ base # NoFile /\ sidecar # NoFile
    /\ IF Accepts(sidecar, p) THEN KeyFrom(sidecar, p) = base
       ELSE IF staged = NoFile THEN FALSE
       ELSE Accepts(staged, p) /\ KeyFrom(staged, p) = base

NoCall == [op |-> "none", pass |-> First, new |-> First]

FirstKey(f) == IF f = 3 THEN Master(0) ELSE Derived(First)
FirstSidecar(f) ==
    IF f = 1 THEN Sidecar(1, 0, First, NoKey) ELSE Sidecar(f, 1, First, FirstKey(f))

Init ==
    /\ \E f \in Formats :
         /\ base = IF f = 0 THEN NoFile ELSE FirstKey(f)
         /\ sidecar = IF f = 0 THEN NoFile ELSE FirstSidecar(f)
    /\ staged = NoFile /\ rekeyed = NoFile
    /\ receipts = {} /\ mailbox = NoFile
    /\ backups = {} /\ sessions = {}
    /\ excl = Nobody
    /\ pc = [c \in Procs |-> "out"]
    /\ call = [c \in Procs |-> NoCall]
    /\ mem = [c \in Procs |-> NoFile]
    /\ key = [c \in Procs |-> NoKey]
    /\ vid = [c \in Procs |-> 0]
    /\ answer = [c \in Procs |-> "none"]
    /\ right = {} /\ fresh = 2 /\ calls = 0

----------------------------------------------------------------------------
(* A connection that has read a WAL database keeps a shared lock on it.     *)
Connected(c) ==
    pc[c] \in {"clean", "settle", "open", "prove", "wrapbackup", "rewrap", "forget",
               "claim", "backup", "stage", "copy", "close"}

At(c, stage) == pc[c] = stage
Goto(c, stage) == pc' = [pc EXCEPT ![c] = stage]
Holding(c, s, k) == mem' = [mem EXCEPT ![c] = s] /\ key' = [key EXCEPT ![c] = k]

(* The process ends: what it held in memory and its locks go with it.       *)
Leave(c) ==
    /\ pc' = [pc EXCEPT ![c] = "out"]
    /\ call' = [call EXCEPT ![c] = NoCall]
    /\ mem' = [mem EXCEPT ![c] = NoFile]
    /\ key' = [key EXCEPT ![c] = NoKey]
    /\ vid' = [vid EXCEPT ![c] = 0]
    /\ excl' = IF excl = c THEN Nobody ELSE excl

Refuse(c, why) ==
    /\ Leave(c)
    /\ answer' = [answer EXCEPT ![c] = why]

Answer(c, what) ==
    /\ Goto(c, "open")
    /\ answer' = [answer EXCEPT ![c] = what]

Forgotten(id) == {s \in sessions : s.id # id}

(* A file operation of the step returns an error.                           *)
MayFail == Errors

----------------------------------------------------------------------------
(* Opening.                                                                 *)

Start(c, op, p, new) ==
    /\ calls < MaxCalls
    /\ calls' = calls + 1
    /\ call' = [call EXCEPT ![c] = [op |-> op, pass |-> p, new |-> new]]
    /\ answer' = [answer EXCEPT ![c] = "none"]
    /\ UNCHANGED <<disk, excl, mem, key, vid, fresh>>

StartOpen(c, p) ==
    /\ At(c, "out")
    /\ p # First /\ sidecar # NoFile /\ sidecar.format = 1 => Mistakes
    /\ Start(c, "open", p, p) /\ Goto(c, "read")
StartCached(c) == At(c, "out") /\ Start(c, "cached", First, First) /\ Goto(c, "load")

Read(c) ==
    /\ At(c, "read")
    /\ \/ /\ base = NoFile \/ sidecar = NoFile
          /\ Refuse(c, "not_found")
          /\ UNCHANGED <<disk, fresh, calls>>
       \/ /\ base # NoFile /\ sidecar # NoFile
          /\ Accepts(sidecar, call[c].pass)
          /\ Holding(c, sidecar, KeyFrom(sidecar, call[c].pass))
          /\ vid' = [vid EXCEPT ![c] = sidecar.id]
          /\ Goto(c, IF sidecar.format = 1 THEN "upgrade" ELSE "unlock")
          /\ UNCHANGED <<disk, excl, call, answer, fresh, calls>>
       \/ /\ base # NoFile /\ sidecar # NoFile
          /\ ~Accepts(sidecar, call[c].pass)
          /\ Goto(c, "readstaged")
          /\ UNCHANGED <<disk, excl, call, mem, key, vid, answer, fresh, calls>>

(* Mutant: the staged sidecar is not tried.                                 *)
WrongAtOnce(c) ==
    At(c, "readstaged") /\ Refuse(c, "wrong") /\ UNCHANGED <<disk, fresh, calls>>

(* The passphrase is not that of the committed sidecar: perhaps it is that  *)
(* of a change that was interrupted.                                        *)
ReadStaged(c) ==
    /\ At(c, "readstaged")
    /\ \/ /\ staged = NoFile
          /\ Refuse(c, "wrong")
          /\ UNCHANGED <<disk, fresh, calls>>
       \/ /\ staged # NoFile /\ ~Accepts(staged, call[c].pass)
          /\ Refuse(c, "interrupted")
          /\ UNCHANGED <<disk, fresh, calls>>
       \/ /\ staged # NoFile /\ Accepts(staged, call[c].pass)
          /\ Holding(c, staged, KeyFrom(staged, call[c].pass))
          /\ vid' = [vid EXCEPT ![c] = staged.id]
          /\ call' = [call EXCEPT ![c].op = "staged"]
          /\ Goto(c, "unlock")
          /\ UNCHANGED <<disk, excl, answer, fresh, calls>>

(* v1 becomes v2 under the derived key, before the database has confirmed   *)
(* that key.                                                                *)
Upgrade(c) ==
    /\ At(c, "upgrade")
    /\ LET s == Sidecar(2, fresh, First, key[c])
       IN  sidecar' = s /\ mem' = [mem EXCEPT ![c] = s]
    /\ vid' = [vid EXCEPT ![c] = fresh]
    /\ sessions' = Forgotten(mem[c].id)
    /\ fresh' = fresh + 1
    /\ Goto(c, "unlock")
    /\ UNCHANGED <<base, staged, rekeyed, receipts, mailbox, backups, excl, call, key,
                   answer, calls>>

(* A remembered session: checked against the sidecar, purged if it differs. *)
Load(c) ==
    /\ At(c, "load")
    /\ \/ /\ sidecar = NoFile
          /\ Refuse(c, "not_found")
          /\ UNCHANGED <<disk, fresh, calls>>
       \/ /\ sidecar # NoFile
          /\ ~ \E s \in sessions : s.id = sidecar.id /\ Verifies(sidecar, s.key)
          /\ sessions' = Forgotten(sidecar.id)
          /\ Refuse(c, IF staged # NoFile THEN "interrupted" ELSE "locked")
          /\ UNCHANGED <<base, sidecar, staged, rekeyed, receipts, mailbox, backups,
                         fresh, calls>>
       \/ /\ sidecar # NoFile
          /\ \E s \in sessions :
               /\ s.id = sidecar.id /\ Verifies(sidecar, s.key)
               /\ Holding(c, sidecar, s.key)
               /\ call' = [call EXCEPT ![c].pass = s.proof]
          /\ vid' = [vid EXCEPT ![c] = sidecar.id]
          /\ Goto(c, "unlock")
          /\ UNCHANGED <<disk, excl, answer, fresh, calls>>

Busy(c) == excl \notin {Nobody, c}
Unlocks(c) == ~Busy(c) /\ base \in {NoFile, key[c]}

(* SQLCipher opens the file, or creates it, with the key in hand.           *)
Unlock(c) ==
    /\ At(c, "unlock") /\ Unlocks(c)
    /\ base' = key[c]
    /\ IF call[c].op = "create" THEN Answer(c, "ok")
       ELSE /\ Goto(c, IF call[c].op = "staged" THEN "settle" ELSE "clean")
            /\ UNCHANGED answer
    /\ UNCHANGED <<sidecar, staged, rekeyed, receipts, mailbox, backups, sessions, excl,
                   call, mem, key, vid, fresh, calls>>

(* Or refuses: a wrong key, a file locked by a change of passphrase. Seen   *)
(* from outside, a locked file is a wrong passphrase too (only SQLite's and *)
(* I/O errors have an arm of their own, VaultBusy has not).                 *)
Unlockable(c) ==
    /\ At(c, "unlock") /\ ~Unlocks(c) /\ call[c].op # "create"
    /\ Refuse(c, IF staged # NoFile \/ call[c].op = "staged" THEN "interrupted"
                 ELSE IF call[c].op = "cached" /\ Busy(c) THEN "busy" ELSE "wrong")
    /\ UNCHANGED <<disk, fresh, calls>>

(* The committed sidecar opened the base: what a change left is an orphan.  *)
Clean(c) ==
    /\ At(c, "clean")
    /\ staged' = NoFile /\ rekeyed' = NoFile
    /\ Answer(c, "ok")
    /\ UNCHANGED <<base, sidecar, receipts, mailbox, backups, sessions, excl, call, mem, key,
                   vid, fresh, calls>>

(* The staged sidecar opened the base: the change is finished.              *)
Settle(c) ==
    /\ At(c, "settle")
    /\ IF staged # NoFile
       THEN /\ sidecar' = staged /\ staged' = NoFile
            /\ Answer(c, "ok")
            /\ UNCHANGED <<excl, call, mem, key, vid>>
       ELSE /\ Refuse(c, "error") /\ UNCHANGED <<sidecar, staged>>
    /\ UNCHANGED <<base, rekeyed, receipts, mailbox, backups, sessions, fresh, calls>>

----------------------------------------------------------------------------
(* Creation: the sidecar first, then the base; an error takes both back.    *)

StartCreate(c, p) ==
    /\ At(c, "out") /\ base = NoFile
    /\ Start(c, "create", p, p) /\ Goto(c, "create")

CheckSidecar(c) ==
    /\ At(c, "create")
    /\ IF sidecar # NoFile THEN Refuse(c, "exists")
       ELSE Goto(c, "write") /\ UNCHANGED <<call, mem, key, vid, excl, answer>>
    /\ UNCHANGED <<disk, fresh, calls>>

WriteSidecar(c) ==
    /\ At(c, "write")
    /\ LET s == Sidecar(3, fresh, call[c].pass, Master(fresh))
       IN  sidecar' = s /\ Holding(c, s, s.key)
    /\ vid' = [vid EXCEPT ![c] = fresh]
    /\ fresh' = fresh + 1
    /\ Goto(c, "unlock")
    /\ UNCHANGED <<base, staged, rekeyed, receipts, mailbox, backups, sessions, excl, call,
                   answer, calls>>

DiscardArtifacts(c) ==
    /\ At(c, "unlock") /\ call[c].op = "create"
    /\ ~Unlocks(c) \/ MayFail
    /\ base' = NoFile /\ sidecar' = NoFile
    /\ Refuse(c, "error")
    /\ UNCHANGED <<staged, rekeyed, receipts, mailbox, backups, sessions, fresh, calls>>

----------------------------------------------------------------------------
(* What an open vault does.                                                 *)

Remember(c) ==
    /\ At(c, "open")
    /\ sessions' = Forgotten(vid[c]) \cup {[id |-> vid[c], key |-> key[c], proof |-> call[c].pass]}
    /\ sessions' # sessions
    /\ UNCHANGED <<base, sidecar, staged, rekeyed, receipts, mailbox, backups, excl, local,
                   fresh, calls>>

(* A receipt is sealed, or the mailbox created, under the vault's key.      *)
Seal(c) ==
    /\ At(c, "open") /\ key[c] \notin receipts
    /\ receipts' = receipts \cup {key[c]}
    /\ UNCHANGED <<base, sidecar, staged, rekeyed, mailbox, backups, sessions, excl, local,
                   fresh, calls>>
OpenMailbox(c) ==
    /\ At(c, "open") /\ mailbox = NoFile
    /\ mailbox' = key[c]
    /\ UNCHANGED <<base, sidecar, staged, rekeyed, receipts, backups, sessions, excl, local,
                   fresh, calls>>

(* A copy of everything; the mailbox is copied through the vault's key.     *)
MailboxReads(c) == mailbox \in {NoFile, key[c]}
Copyable(c) == sidecar # NoFile /\ MailboxReads(c)
CopyOf(c) == [base |-> key[c], sidecar |-> sidecar]
Archive(c) ==
    /\ At(c, "open") /\ Copyable(c) /\ CopyOf(c) \notin backups
    /\ backups' = backups \cup {CopyOf(c)}
    /\ UNCHANGED <<base, sidecar, staged, rekeyed, receipts, mailbox, sessions, excl, local,
                   fresh, calls>>

Close(c) ==
    /\ At(c, "open")
    /\ Leave(c) /\ UNCHANGED <<disk, answer, fresh, calls>>

(* lock: forgets the session of the vault at this path.                     *)
Lock ==
    /\ sidecar # NoFile /\ Forgotten(sidecar.id) # sessions
    /\ sessions' = Forgotten(sidecar.id)
    /\ UNCHANGED <<base, sidecar, staged, rekeyed, receipts, mailbox, backups, excl, local,
                   fresh, calls>>

(* A session reaches its end and is purged.                                 *)
Expire(s) ==
    /\ s \in sessions
    /\ sessions' = sessions \ {s}
    /\ UNCHANGED <<base, sidecar, staged, rekeyed, receipts, mailbox, backups, excl, local,
                   fresh, calls>>

----------------------------------------------------------------------------
(* Changing the passphrase.                                                 *)

StartChange(c, p, new) == At(c, "open") /\ Start(c, "change", p, new) /\ Goto(c, "prove")

(* Mutant: a v3 vault is encrypted anew as well.                            *)
ProveThenRekey(c) ==
    /\ At(c, "prove") /\ sidecar # NoFile
    /\ IF Accepts(sidecar, call[c].pass)
       THEN /\ mem' = [mem EXCEPT ![c] = sidecar]
            /\ Goto(c, "claim")
            /\ UNCHANGED <<call, key, vid, excl, answer>>
       ELSE Refuse(c, "wrong")
    /\ UNCHANGED <<disk, fresh, calls>>

(* The passphrase is asked again, an unfinished change refused.             *)
Prove(c) ==
    LET refusal == IF sidecar = NoFile THEN "not_found"
                   ELSE IF ~Accepts(sidecar, call[c].pass) THEN "wrong"
                   ELSE IF staged # NoFile THEN "interrupted"
                   ELSE IF sidecar.format < 3 /\ call[c].new = call[c].pass THEN "same"
                   ELSE "none"
    IN  /\ At(c, "prove")
        /\ IF refusal # "none" THEN Refuse(c, refusal) /\ UNCHANGED disk
           ELSE /\ mem' = [mem EXCEPT ![c] = sidecar]
                /\ Goto(c, IF sidecar.format = 3 THEN "wrapbackup" ELSE "claim")
                /\ UNCHANGED <<disk, excl, call, key, vid, answer>>
        /\ UNCHANGED <<fresh, calls>>

(* The mandatory backup; without it nothing changes.                        *)
BackUp(c, from, to) ==
    /\ At(c, from)
    /\ \/ /\ Copyable(c)
          /\ backups' = backups \cup {CopyOf(c)}
          /\ Goto(c, to)
          /\ UNCHANGED <<base, sidecar, staged, rekeyed, receipts, mailbox, sessions, excl,
                         call, mem, key, vid, answer>>
       \/ /\ ~Copyable(c) \/ MayFail
          /\ Refuse(c, "error") /\ UNCHANGED disk
    /\ UNCHANGED <<fresh, calls>>

(* Mutants: a fresh master key is sealed; the old passphrase seals again.   *)
RewrapFresh(c) ==
    /\ At(c, "rewrap")
    /\ sidecar' = Sidecar(3, mem[c].id, call[c].new, Master(fresh))
    /\ Goto(c, "forget")
    /\ UNCHANGED <<base, staged, rekeyed, receipts, mailbox, backups, sessions, excl, call,
                   mem, key, vid, answer, fresh, calls>>
RewrapUnderOld(c) ==
    /\ At(c, "rewrap") /\ call[c].new # call[c].pass
    /\ sidecar' = Sidecar(3, mem[c].id, call[c].pass, mem[c].key)
    /\ Goto(c, "forget")
    /\ UNCHANGED <<base, staged, rekeyed, receipts, mailbox, backups, sessions, excl, call,
                   mem, key, vid, answer, fresh, calls>>

(* v3: the master key of the sidecar that was read, under the new one.      *)
Rewrap(c) ==
    /\ At(c, "rewrap") /\ call[c].new # call[c].pass
    /\ sidecar' = Sidecar(3, mem[c].id, call[c].new, mem[c].key)
    /\ Goto(c, "forget")
    /\ UNCHANGED <<base, staged, rekeyed, receipts, mailbox, backups, sessions, excl, call,
                   mem, key, vid, answer, fresh, calls>>
RefuseRewrap(c) ==
    /\ At(c, "rewrap")
    /\ call[c].new = call[c].pass \/ MayFail
    /\ Refuse(c, IF call[c].new = call[c].pass THEN "same" ELSE "error")
    /\ UNCHANGED <<disk, fresh, calls>>

(* A session does not survive the change.                                   *)
ForgetSession(c) ==
    /\ At(c, "forget")
    /\ sessions' = Forgotten(vid[c])
    /\ call' = [call EXCEPT ![c].pass = call[c].new]
    /\ Answer(c, "changed")
    /\ UNCHANGED <<base, sidecar, staged, rekeyed, receipts, mailbox, backups, excl,
                   mem, key, vid, fresh, calls>>

(* v1 and v2: the database is encrypted anew, which needs it exclusively.   *)
Claim(c) ==
    /\ At(c, "claim")
    /\ IF excl = Nobody /\ \A o \in Procs \ {c} : ~Connected(o)
       THEN /\ excl' = c /\ Goto(c, "backup") /\ UNCHANGED <<call, mem, key, vid, answer>>
       ELSE Refuse(c, "busy")
    /\ UNCHANGED <<disk, fresh, calls>>

(* Mutants: the new sidecar replaces the committed one at once; it is       *)
(* sealed under the passphrase that was typed first.                        *)
StageInPlace(c) ==
    /\ At(c, "stage") /\ mem[c].format # 1
    /\ LET s == Sidecar(3, mem[c].id, call[c].new, Master(fresh))
       IN  sidecar' = s /\ mem' = [mem EXCEPT ![c] = s]
    /\ fresh' = fresh + 1
    /\ Goto(c, "copy")
    /\ UNCHANGED <<base, staged, rekeyed, receipts, mailbox, backups, sessions, excl, call,
                   key, vid, answer, calls>>
StageUnderOld(c) ==
    /\ At(c, "stage") /\ mem[c].format # 1
    /\ LET s == Sidecar(3, mem[c].id, call[c].pass, Master(fresh))
       IN  staged' = s /\ mem' = [mem EXCEPT ![c] = s]
    /\ fresh' = fresh + 1
    /\ Goto(c, "copy")
    /\ UNCHANGED <<base, sidecar, rekeyed, receipts, mailbox, backups, sessions, excl, call,
                   key, vid, answer, calls>>

Stage(c) ==
    /\ At(c, "stage") /\ mem[c].format # 1
    /\ LET s == Sidecar(3, mem[c].id, call[c].new, Master(fresh))
       IN  staged' = s /\ mem' = [mem EXCEPT ![c] = s]
    /\ fresh' = fresh + 1
    /\ Goto(c, "copy")
    /\ UNCHANGED <<base, sidecar, rekeyed, receipts, mailbox, backups, sessions, excl, call,
                   key, vid, answer, calls>>

Copy(c) ==
    /\ At(c, "copy")
    /\ rekeyed' = mem[c].key
    /\ Goto(c, "close")
    /\ UNCHANGED <<base, sidecar, staged, receipts, mailbox, backups, sessions, excl, call,
                   mem, key, vid, answer, fresh, calls>>

(* The connection goes, and its exclusive lock with it.                     *)
Disconnect(c) ==
    /\ At(c, "close")
    /\ excl' = Nobody
    /\ Goto(c, "swap")
    /\ UNCHANGED <<disk, call, mem, key, vid, answer, fresh, calls>>

SwapBase(c) ==
    /\ At(c, "swap") /\ rekeyed # NoFile
    /\ base' = rekeyed /\ rekeyed' = NoFile
    /\ Goto(c, "commit")
    /\ UNCHANGED <<sidecar, staged, receipts, mailbox, backups, sessions, excl, call, mem,
                   key, vid, answer, fresh, calls>>

CommitStaged(c) ==
    /\ At(c, "commit") /\ staged # NoFile
    /\ sidecar' = staged /\ staged' = NoFile
    /\ Goto(c, "reopen")
    /\ UNCHANGED <<base, rekeyed, receipts, mailbox, backups, sessions, excl, call, mem, key,
                   vid, answer, fresh, calls>>

(* Mutant: the vault in memory keeps the old key.                           *)
ReopenOldKey(c) ==
    /\ At(c, "reopen") /\ ~Busy(c) /\ base = mem[c].key
    /\ Goto(c, "forget")
    /\ UNCHANGED <<disk, excl, call, mem, key, vid, answer, fresh, calls>>

Reopen(c) ==
    /\ At(c, "reopen") /\ ~Busy(c) /\ base = mem[c].key
    /\ key' = [key EXCEPT ![c] = mem[c].key]
    /\ Goto(c, "forget")
    /\ UNCHANGED <<disk, excl, call, mem, vid, answer, fresh, calls>>

(* An error on the way: the staged sidecar and the copy are removed.        *)
Abandon(c) ==
    /\ \/ At(c, "stage") /\ mem[c].format = 1
       \/ At(c, "swap") /\ rekeyed = NoFile
       \/ At(c, "commit") /\ staged = NoFile
       \/ At(c, "reopen") /\ (Busy(c) \/ base # mem[c].key)
       \/ MayFail /\ pc[c] \in {"stage", "copy", "close", "swap", "commit", "reopen"}
    /\ staged' = NoFile /\ rekeyed' = NoFile
    /\ Refuse(c, "error")
    /\ UNCHANGED <<base, sidecar, receipts, mailbox, backups, sessions, fresh, calls>>

(* A process dies. The files stay as they are.                              *)
Crash(c) ==
    /\ pc[c] # "out"
    /\ Leave(c)
    /\ UNCHANGED <<disk, answer, fresh, calls>>

----------------------------------------------------------------------------
Progress(c) ==
    \/ Read(c) \/ ReadStaged(c) \/ Upgrade(c) \/ Load(c) \/ Unlock(c) \/ Unlockable(c)
    \/ Clean(c) \/ Settle(c) \/ CheckSidecar(c) \/ WriteSidecar(c) \/ DiscardArtifacts(c)
    \/ Prove(c) \/ BackUp(c, "wrapbackup", "rewrap") \/ Rewrap(c) \/ RefuseRewrap(c)
    \/ ForgetSession(c) \/ Claim(c) \/ BackUp(c, "backup", "stage")
    \/ Stage(c) \/ Copy(c) \/ Disconnect(c)
    \/ SwapBase(c) \/ CommitStaged(c) \/ Reopen(c) \/ Abandon(c)

Step ==
    \/ \E c \in Procs :
         \/ \E p \in Typed : StartOpen(c, p)
         \/ StartCached(c) \/ Remember(c) \/ Seal(c) \/ OpenMailbox(c) \/ Archive(c)
         \/ Close(c) \/ Progress(c) \/ Crash(c)
    \/ \E c \in Changers, new \in Passphrases :
         StartCreate(c, new) \/ \E p \in Typed : StartChange(c, p, new)
    \/ Lock
    \/ \E s \in sessions : Expire(s)

Asking == {"read", "readstaged", "upgrade", "unlock"}

Next ==
    /\ Step
    /\ right' = {c \in Procs : /\ pc'[c] \in Asking /\ call'[c].op = "open"
                               /\ pc[c] = "out" \/ c \in right
                               /\ Opens(call[c].pass)'}

Spec == Init /\ [][Next]_vars

----------------------------------------------------------------------------
(* Properties.                                                              *)

Stages == {"out", "load", "read", "readstaged", "upgrade", "unlock", "clean", "settle",
           "open", "create", "write", "prove", "wrapbackup", "rewrap", "forget", "claim",
           "backup", "stage", "copy", "close", "swap", "commit", "reopen"}

(* The state has its shape.                                                 *)
TypeOK ==
    /\ base \in Keys \cup {NoFile} /\ sidecar \in Sidecars \cup {NoFile}
    /\ staged \in Sidecars \cup {NoFile} /\ rekeyed \in Keys \cup {NoFile}
    /\ receipts \subseteq Keys /\ mailbox \in Keys \cup {NoFile}
    /\ backups \subseteq [base : Keys, sidecar : Sidecars]
    /\ sessions \subseteq [id : Nat, key : Keys, proof : Typed]
    /\ excl \in Procs \cup {Nobody}
    /\ pc \in [Procs -> Stages]
    /\ call \in [Procs -> [op : {"none", "open", "staged", "cached", "create", "change"},
                           pass : Typed, new : Typed]]
    /\ mem \in [Procs -> Sidecars \cup {NoFile}]
    /\ key \in [Procs -> Keys \cup {NoKey}] /\ vid \in [Procs -> Nat]
    /\ answer \in [Procs -> {"none", "ok", "changed", "not_found", "exists", "wrong",
                             "same", "interrupted", "locked", "busy", "error"}]
    /\ right \subseteq Procs /\ fresh \in Nat \ {0} /\ calls \in 0..MaxCalls

(* The vault is never lost: some passphrase of its users opens it, by the   *)
(* committed sidecar or by the one an interrupted change left.              *)
KeysRetrievable == base # NoFile => \E p \in Passphrases : Opens(p)

(* Whoever has the vault open has the file the next one will open: nothing  *)
(* is written under a key the sidecar no longer gives.                      *)
NoStaleConnection == \A c \in Procs : At(c, "open") => key[c] = base

(* Receipts and mailbox live outside the database, under the same key: an   *)
(* open vault reads them.                                                   *)
CompanionsReadable ==
    \A c \in Procs : At(c, "open") => receipts \subseteq {key[c]} /\ MailboxReads(c)

(* Every backup opens with a passphrase.                                    *)
BackupsOpen ==
    \A b \in backups : \E p \in Passphrases :
      Accepts(b.sidecar, p) /\ KeyFrom(b.sidecar, p) = b.base

(* A change that is acknowledged is in force: its passphrase opens the      *)
(* vault and no other does.                                                 *)
InForceOnceTold ==
    \A c \in Procs : answer[c] # "changed" /\ answer'[c] = "changed" =>
      \A p \in Passphrases : Opens(p)' <=> p = call[c].new
ChangeHolds == [][InForceOnceTold]_vars

(* A passphrase right for as long as it is tried is not answered wrong.     *)
RightIsNotWrong == [][\A c \in right : answer'[c] # "wrong"]_vars
=============================================================================
