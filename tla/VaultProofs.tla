----------------------------- MODULE VaultProofs -----------------------------
(***************************************************************************)
(* What is proved of the vault, for any processes, passphrases and number   *)
(* of calls. The shape of its state, whatever the format. That a vault      *)
(* whose sidecar wraps a master key (format 3), or that is being created,   *)
(* survives every interleaving, failure and crash of creation, openings,    *)
(* backups and changes of passphrase. And that a vault of any format, used  *)
(* by one process at a time, survives a crash at any point of an upgrade or *)
(* of a re-encryption.                                                      *)
(***************************************************************************)
EXTENDS Vault, TLAPS

----------------------------------------------------------------------------
(* Type correctness needs to know, stage by stage, what a process holds.    *)

KeyedStages ==
    {"unlock", "upgrade", "clean", "settle", "open", "prove", "wrapbackup", "rewrap", "forget",
     "claim", "backup", "stage", "copy", "close"}
MemStages ==
    {"upgrade", "wrapbackup", "rewrap", "claim", "backup", "stage", "copy", "close", "swap",
     "commit", "reopen"}
MasterStages == {"rewrap", "copy", "close", "swap", "commit", "reopen"}

HoldsInHand ==
    \A c \in Procs :
      /\ pc[c] \in KeyedStages => key[c] \in Keys
      /\ pc[c] \in MemStages => mem[c] \in Sidecars
      /\ pc[c] \in MasterStages \cup {"wrapbackup"} => mem[c].format = 3

DiskTypes ==
    /\ base \in Keys \cup {NoFile} /\ sidecar \in Sidecars \cup {NoFile}
    /\ staged \in Sidecars \cup {NoFile} /\ rekeyed \in Keys \cup {NoFile}
    /\ receipts \subseteq Keys /\ mailbox \in Keys \cup {NoFile}
    /\ backups \subseteq [base : Keys, sidecar : Sidecars]
    /\ sessions \subseteq [id : Nat, key : Keys, proof : Typed]

LocalTypes ==
    /\ excl \in Procs \cup {Nobody}
    /\ pc \in [Procs -> Stages]
    /\ call \in [Procs -> [op : {"none", "open", "staged", "cached", "create", "change"},
                           pass : Typed, new : Typed]]
    /\ mem \in [Procs -> Sidecars \cup {NoFile}]
    /\ key \in [Procs -> Keys \cup {NoKey}] /\ vid \in [Procs -> Nat]
    /\ answer \in [Procs -> {"none", "ok", "changed", "not_found", "exists", "wrong",
                             "same", "interrupted", "locked", "busy", "error"}]
    /\ fresh \in Nat \ {0} /\ calls \in 0..MaxCalls

TypeInv == DiskTypes /\ LocalTypes /\ HoldsInHand

(* What the provers need of keys and sidecars, so that they need not look   *)
(* inside.                                                                  *)
LEMMA KeysAreKeys ==
    /\ \A n \in Nat : Master(n) \in Keys
    /\ \A p \in Typed : Derived(p) \in Keys
BY DEF Keys, Master, Derived

LEMMA SidecarParts ==
    ASSUME NEW s \in Sidecars
    PROVE  /\ s.format \in 1..3 /\ s.id \in Nat /\ s.pass \in Typed
           /\ s.format # 1 => s.id \in Nat \ {0} /\ s.key \in Keys
BY DEF Sidecars

LEMMA NewSidecar ==
    ASSUME NEW f \in {2, 3}, NEW id \in Nat \ {0}, NEW p \in Typed, NEW k \in Keys
    PROVE  /\ Sidecar(f, id, p, k) \in Sidecars
           /\ Sidecar(f, id, p, k).format = f /\ Sidecar(f, id, p, k).id = id
           /\ Sidecar(f, id, p, k).pass = p /\ Sidecar(f, id, p, k).key = k
BY DEF Sidecars, Sidecar

LEMMA KeyFromIsKey ==
    ASSUME NEW s \in Sidecars, NEW p \in Typed
    PROVE  KeyFrom(s, p) \in Keys
BY SidecarParts, KeysAreKeys DEF KeyFrom

LEMMA TypeInit == Init => TypeInv
<1>1. /\ First \in Typed /\ Formats \subseteq 0..3
      /\ Nobody \notin Procs /\ MaxCalls \in Nat
  BY VaultAssumption DEF Typed
<1>2. Sidecar(1, 0, First, NoKey) \in Sidecars
  BY <1>1 DEF Sidecars, Sidecar
<1>3. ASSUME NEW f \in Formats, f # 0
      PROVE  FirstKey(f) \in Keys /\ FirstSidecar(f) \in Sidecars
  <2>1. FirstKey(f) \in Keys
    BY <1>1, KeysAreKeys DEF FirstKey
  <2>2. f # 1 => Sidecar(f, 1, First, FirstKey(f)) \in Sidecars
    BY <1>1, <1>3, <2>1, NewSidecar
  <2> QED
    BY <1>2, <2>1, <2>2 DEF FirstSidecar
<1>4. NoCall \in [op : {"none", "open", "staged", "cached", "create", "change"},
                 pass : Typed, new : Typed]
  BY <1>1 DEF NoCall
<1> QED
  BY <1>1, <1>2, <1>3, <1>4
  DEF Init, TypeInv, DiskTypes, LocalTypes, HoldsInHand, Stages, KeyedStages, MemStages,
      MasterStages

(* A process that leaves holds nothing, and disturbs nobody's hold.         *)
LEMMA Refusing ==
    ASSUME TypeInv, NEW c \in Procs, fresh' = fresh, calls' = calls,
           NEW why \in {"not_found", "exists", "wrong", "same", "interrupted", "locked", "busy",
                        "error"},
           Refuse(c, why)
    PROVE  LocalTypes' /\ HoldsInHand'
<1>1. NoCall \in [op : {"none", "open", "staged", "cached", "create", "change"},
                 pass : Typed, new : Typed]
  BY VaultAssumption DEF NoCall, Typed
<1> QED
  BY <1>1 DEF TypeInv, LocalTypes, HoldsInHand, Refuse, Leave, Stages, KeyedStages, MemStages,
              MasterStages

LEMMA TypeStep == TypeInv /\ Next => TypeInv'
<1> SUFFICES ASSUME TypeInv, Next PROVE TypeInv'
  OBVIOUS
<1> USE VaultAssumption
    DEF TypeInv, DiskTypes, LocalTypes, HoldsInHand, KeyedStages, MemStages, MasterStages,
        Stages, disk, local, At, Goto
<1>t. First \in Typed /\ Passphrases \subseteq Typed
  BY DEF Typed
<1>n. NoCall \in [op : {"none", "open", "staged", "cached", "create", "change"},
                 pass : Typed, new : Typed]
  BY <1>t DEF NoCall
<1>1. ASSUME NEW c \in Procs, NEW p \in Typed, StartOpen(c, p)
      PROVE  TypeInv'
  BY <1>1, <1>t, <1>n DEF StartOpen, Start
<1>2. ASSUME NEW c \in Procs, NEW p \in Passphrases, StartCreate(c, p)
      PROVE  TypeInv'
  BY <1>2, <1>t, <1>n DEF StartCreate, Start
<1>3. ASSUME NEW c \in Procs, StartCached(c)
      PROVE  TypeInv'
  BY <1>3, <1>t, <1>n DEF StartCached, Start
<1>4. ASSUME NEW c \in Procs, NEW p \in Typed, NEW new \in Passphrases, StartChange(c, p, new)
      PROVE  TypeInv'
  BY <1>4, <1>t, <1>n DEF StartChange, Start
<1>5. ASSUME NEW c \in Procs, Read(c)
      PROVE  TypeInv'
  <2>1. CASE Refuse(c, "not_found") /\ UNCHANGED <<disk, fresh, calls>>
    BY <2>1, Refusing
  <2>2. CASE /\ base # NoFile /\ sidecar # NoFile /\ Accepts(sidecar, call[c].pass)
             /\ Holding(c, sidecar, KeyFrom(sidecar, call[c].pass))
             /\ vid' = [vid EXCEPT ![c] = sidecar.id]
             /\ Goto(c, IF sidecar.format = 1 THEN "upgrade" ELSE "unlock")
             /\ UNCHANGED <<disk, excl, call, answer, fresh, calls>>
    <3>1. sidecar \in Sidecars /\ call[c].pass \in Typed
      BY <2>2
    <3>2. KeyFrom(sidecar, call[c].pass) \in Keys /\ sidecar.id \in Nat
      BY <3>1, KeyFromIsKey, SidecarParts
    <3> QED
      BY <2>2, <3>1, <3>2 DEF Holding
  <2>3. CASE /\ Goto(c, "readstaged")
             /\ UNCHANGED <<disk, excl, call, mem, key, vid, answer, fresh, calls>>
    BY <2>3
  <2> QED
    BY <1>5, <2>1, <2>2, <2>3 DEF Read
<1>6. ASSUME NEW c \in Procs, ReadStaged(c)
      PROVE  TypeInv'
  <2>1. CASE \/ Refuse(c, "wrong") /\ UNCHANGED <<disk, fresh, calls>>
             \/ Refuse(c, "interrupted") /\ UNCHANGED <<disk, fresh, calls>>
    BY <2>1, Refusing
  <2>2. CASE /\ staged # NoFile
             /\ Holding(c, staged, KeyFrom(staged, call[c].pass))
             /\ vid' = [vid EXCEPT ![c] = staged.id]
             /\ call' = [call EXCEPT ![c].op = "staged"]
             /\ Goto(c, "unlock")
             /\ UNCHANGED <<disk, excl, answer, fresh, calls>>
    <3>1. staged \in Sidecars /\ call[c].pass \in Typed
      BY <2>2
    <3>2. KeyFrom(staged, call[c].pass) \in Keys /\ staged.id \in Nat
      BY <3>1, KeyFromIsKey, SidecarParts
    <3> QED
      BY <2>2, <3>1, <3>2 DEF Holding
  <2> QED
    BY <1>6, <2>1, <2>2 DEF ReadStaged
<1>7. ASSUME NEW c \in Procs, Upgrade(c)
      PROVE  TypeInv'
  <2> DEFINE s == Sidecar(2, fresh, First, key[c])
  <2>1. key[c] \in Keys /\ First \in Typed /\ fresh \in Nat \ {0}
    BY <1>7, <1>t DEF Upgrade
  <2>2. s \in Sidecars
    BY ONLY <2>1, NewSidecar
  <2>3. /\ sidecar' = s /\ mem' = [mem EXCEPT ![c] = s] /\ vid' = [vid EXCEPT ![c] = fresh]
        /\ sessions' \subseteq sessions /\ fresh' = fresh + 1
        /\ pc' = [pc EXCEPT ![c] = "unlock"]
        /\ UNCHANGED <<base, staged, rekeyed, receipts, mailbox, backups, excl, call, key,
                       answer, calls>>
    BY <1>7 DEF Upgrade, Forgotten
  <2> HIDE DEF s
  <2> QED
    BY <2>1, <2>2, <2>3
<1>8. ASSUME NEW c \in Procs, Load(c)
      PROVE  TypeInv'
  <2>1. CASE Refuse(c, "not_found") /\ UNCHANGED <<disk, fresh, calls>>
    BY <2>1, Refusing
  <2>2. CASE /\ sessions' = Forgotten(sidecar.id)
             /\ Refuse(c, IF staged # NoFile THEN "interrupted" ELSE "locked")
             /\ UNCHANGED <<base, sidecar, staged, rekeyed, receipts, mailbox, backups,
                            fresh, calls>>
    <3>1. LocalTypes' /\ HoldsInHand'
      BY <2>2, Refusing
    <3> QED
      BY <2>2, <3>1 DEF Forgotten
  <2>3. ASSUME NEW s \in sessions, sidecar # NoFile, Holding(c, sidecar, s.key),
               call' = [call EXCEPT ![c].pass = s.proof],
               vid' = [vid EXCEPT ![c] = sidecar.id], Goto(c, "unlock"),
               UNCHANGED <<disk, excl, answer, fresh, calls>>
        PROVE  TypeInv'
    <3>1. sidecar \in Sidecars /\ s.key \in Keys /\ s.proof \in Typed
      BY <2>3
    <3>2. sidecar.id \in Nat
      BY <3>1, SidecarParts
    <3>3. DiskTypes'
      BY <2>3
    <3>4. LocalTypes'
      <4>1. call' \in [Procs -> [op : {"none", "open", "staged", "cached", "create", "change"},
                                pass : Typed, new : Typed]]
        BY <2>3, <3>1
      <4>2. /\ mem' \in [Procs -> Sidecars \cup {NoFile}]
            /\ key' \in [Procs -> Keys \cup {NoKey}] /\ vid' \in [Procs -> Nat]
        BY <2>3, <3>1, <3>2 DEF Holding
      <4>3. pc' \in [Procs -> Stages]
        BY <2>3
      <4> QED
        BY <2>3, <4>1, <4>2, <4>3
    <3>5. HoldsInHand'
      BY <2>3, <3>1, <3>2 DEF Holding
    <3> QED
      BY <3>3, <3>4, <3>5
  <2> QED
    BY <1>8, <2>1, <2>2, <2>3 DEF Load
<1>9. ASSUME NEW c \in Procs, Unlock(c)
      PROVE  TypeInv'
  BY <1>9, <1>t, <1>n DEF Unlock, Answer
<1>10. ASSUME NEW c \in Procs, Unlockable(c)
      PROVE  TypeInv'
  BY <1>10, <1>t, <1>n DEF Unlockable, Refuse, Leave
<1>11. ASSUME NEW c \in Procs, Clean(c)
      PROVE  TypeInv'
  BY <1>11, <1>t, <1>n DEF Clean, Answer
<1>12. ASSUME NEW c \in Procs, Settle(c)
      PROVE  TypeInv'
  <2>1. CASE staged = NoFile
    <3>1. LocalTypes' /\ HoldsInHand'
      BY <1>12, <2>1, Refusing DEF Settle
    <3> QED
      BY <1>12, <2>1, <3>1 DEF Settle
  <2>2. CASE staged # NoFile
    BY <1>12, <2>2 DEF Settle, Answer
  <2> QED
    BY <2>1, <2>2
<1>13. ASSUME NEW c \in Procs, CheckSidecar(c)
      PROVE  TypeInv'
  <2>1. CASE sidecar # NoFile
    BY <1>13, <2>1, Refusing DEF CheckSidecar
  <2>2. CASE sidecar = NoFile
    BY <1>13, <2>2 DEF CheckSidecar
  <2> QED
    BY <2>1, <2>2
<1>14. ASSUME NEW c \in Procs, WriteSidecar(c)
      PROVE  TypeInv'
  <2> DEFINE s == Sidecar(3, fresh, call[c].pass, Master(fresh))
  <2>1. s \in Sidecars /\ s.key \in Keys
    <3>1. call[c].pass \in Typed /\ Master(fresh) \in Keys /\ fresh \in Nat \ {0}
      BY KeysAreKeys
    <3> QED
      BY ONLY <3>1, NewSidecar
  <2>2. /\ sidecar' = s /\ mem' = [mem EXCEPT ![c] = s] /\ key' = [key EXCEPT ![c] = s.key]
        /\ vid' = [vid EXCEPT ![c] = fresh] /\ fresh' = fresh + 1
        /\ pc' = [pc EXCEPT ![c] = "unlock"]
        /\ UNCHANGED <<base, staged, rekeyed, receipts, mailbox, backups, sessions, excl,
                       call, answer, calls>>
    BY <1>14 DEF WriteSidecar, Holding
  <2> HIDE DEF s
  <2> QED
    BY <2>1, <2>2
<1>15. ASSUME NEW c \in Procs, DiscardArtifacts(c)
      PROVE  TypeInv'
  BY <1>15, <1>t, <1>n DEF DiscardArtifacts, Refuse, Leave
<1>16. ASSUME NEW c \in Procs, Remember(c)
      PROVE  TypeInv'
  BY <1>16, <1>t, <1>n DEF Remember, Forgotten
<1>17. ASSUME NEW c \in Procs, Seal(c)
      PROVE  TypeInv'
  BY <1>17, <1>t, <1>n DEF Seal
<1>18. ASSUME NEW c \in Procs, OpenMailbox(c)
      PROVE  TypeInv'
  BY <1>18, <1>t, <1>n DEF OpenMailbox
<1>19. ASSUME NEW c \in Procs, Archive(c)
      PROVE  TypeInv'
  BY <1>19, <1>t, <1>n DEF Archive, CopyOf, Copyable
<1>20. ASSUME NEW c \in Procs, Close(c)
      PROVE  TypeInv'
  BY <1>20, <1>t, <1>n DEF Close, Leave
<1>21. ASSUME NEW c \in Procs, Prove(c)
      PROVE  TypeInv'
  <2>1. CASE \E why \in {"not_found", "wrong", "interrupted", "same"} :
               Refuse(c, why) /\ UNCHANGED <<disk, fresh, calls>>
    BY <2>1, Refusing
  <2>2. CASE /\ sidecar # NoFile
             /\ mem' = [mem EXCEPT ![c] = sidecar]
             /\ Goto(c, IF sidecar.format = 3 THEN "wrapbackup" ELSE "claim")
             /\ UNCHANGED <<disk, excl, call, key, vid, answer, fresh, calls>>
        /\ At(c, "prove")
    BY <2>2
  <2> QED
    BY <1>21, <2>1, <2>2 DEF Prove
<1>22. ASSUME NEW c \in Procs, BackUp(c, "wrapbackup", "rewrap")
      PROVE  TypeInv'
  <2>1. CASE Refuse(c, "error") /\ UNCHANGED <<disk, fresh, calls>>
    BY <2>1, Refusing
  <2>2. CASE /\ At(c, "wrapbackup") /\ Copyable(c)
             /\ backups' = backups \cup {CopyOf(c)}
             /\ Goto(c, "rewrap")
             /\ UNCHANGED <<base, sidecar, staged, rekeyed, receipts, mailbox, sessions, excl,
                            call, mem, key, vid, answer, fresh, calls>>
    BY <2>2 DEF Copyable, CopyOf
  <2> QED
    BY <1>22, <2>1, <2>2 DEF BackUp
<1>23. ASSUME NEW c \in Procs, BackUp(c, "backup", "stage")
      PROVE  TypeInv'
  <2>1. CASE Refuse(c, "error") /\ UNCHANGED <<disk, fresh, calls>>
    BY <2>1, Refusing
  <2>2. CASE /\ At(c, "backup") /\ Copyable(c)
             /\ backups' = backups \cup {CopyOf(c)}
             /\ Goto(c, "stage")
             /\ UNCHANGED <<base, sidecar, staged, rekeyed, receipts, mailbox, sessions, excl,
                            call, mem, key, vid, answer, fresh, calls>>
    BY <2>2 DEF Copyable, CopyOf
  <2> QED
    BY <1>23, <2>1, <2>2 DEF BackUp
<1>24. ASSUME NEW c \in Procs, Rewrap(c)
      PROVE  TypeInv'
  <2> DEFINE s == Sidecar(3, mem[c].id, call[c].new, mem[c].key)
  <2>1. mem[c] \in Sidecars /\ mem[c].format = 3
    BY <1>24 DEF Rewrap
  <2>2. s \in Sidecars
    <3>1. mem[c].id \in Nat \ {0} /\ mem[c].key \in Keys /\ call[c].new \in Typed
      BY <2>1, SidecarParts
    <3> QED
      BY <3>1, NewSidecar, ZenonT(60)
  <2>3. /\ sidecar' = s /\ pc' = [pc EXCEPT ![c] = "forget"] /\ pc[c] = "rewrap"
        /\ UNCHANGED <<base, staged, rekeyed, receipts, mailbox, backups, sessions, excl,
                       call, mem, key, vid, answer, fresh, calls>>
    BY <1>24 DEF Rewrap
  <2> HIDE DEF s
  <2> QED
    BY <2>2, <2>3
<1>25. ASSUME NEW c \in Procs, RefuseRewrap(c)
      PROVE  TypeInv'
  BY <1>25, <1>t, <1>n DEF RefuseRewrap, Refuse, Leave
<1>26. ASSUME NEW c \in Procs, ForgetSession(c)
      PROVE  TypeInv'
  BY <1>26, <1>t, <1>n, SMTT(60) DEF ForgetSession, Answer, Forgotten
<1>27. ASSUME NEW c \in Procs, Claim(c)
      PROVE  TypeInv'
  <2>1. CASE Refuse(c, "busy") /\ UNCHANGED <<disk, fresh, calls>>
    BY <2>1, Refusing
  <2>2. CASE /\ At(c, "claim") /\ excl' = c /\ Goto(c, "backup")
             /\ UNCHANGED <<disk, call, mem, key, vid, answer, fresh, calls>>
    BY <2>2
  <2> QED
    BY <1>27, <2>1, <2>2 DEF Claim
<1>28. ASSUME NEW c \in Procs, Stage(c)
      PROVE  TypeInv'
  <2> DEFINE s == Sidecar(3, mem[c].id, call[c].new, Master(fresh))
  <2>1. mem[c] \in Sidecars /\ mem[c].format # 1
    BY <1>28 DEF Stage
  <2>2. s \in Sidecars /\ s.format = 3
    <3>1. mem[c].id \in Nat \ {0} /\ Master(fresh) \in Keys /\ call[c].new \in Typed
      BY <2>1, SidecarParts, KeysAreKeys
    <3>2. s \in Sidecars
      BY <3>1, NewSidecar
    <3>3. s.format = 3
      BY DEF Sidecar
    <3> QED
      BY <3>2, <3>3
  <2>3. /\ staged' = s /\ mem' = [mem EXCEPT ![c] = s] /\ fresh' = fresh + 1
        /\ pc' = [pc EXCEPT ![c] = "copy"] /\ pc[c] = "stage"
        /\ UNCHANGED <<base, sidecar, rekeyed, receipts, mailbox, backups, sessions, excl,
                       call, key, vid, answer, calls>>
    BY <1>28 DEF Stage
  <2> HIDE DEF s
  <2> QED
    BY <2>2, <2>3
<1>29. ASSUME NEW c \in Procs, Copy(c)
      PROVE  TypeInv'
  BY <1>29, <1>t, <1>n, SidecarParts DEF Copy
<1>30. ASSUME NEW c \in Procs, Disconnect(c)
      PROVE  TypeInv'
  BY <1>30, <1>t, <1>n DEF Disconnect
<1>31. ASSUME NEW c \in Procs, SwapBase(c)
      PROVE  TypeInv'
  BY <1>31, <1>t, <1>n DEF SwapBase
<1>32. ASSUME NEW c \in Procs, CommitStaged(c)
      PROVE  TypeInv'
  BY <1>32, <1>t, <1>n DEF CommitStaged
<1>33. ASSUME NEW c \in Procs, Reopen(c)
      PROVE  TypeInv'
  BY <1>33, <1>t, <1>n, SidecarParts DEF Reopen
<1>34. ASSUME NEW c \in Procs, Abandon(c)
      PROVE  TypeInv'
  BY <1>34, <1>t, <1>n DEF Abandon, Refuse, Leave
<1>35. ASSUME NEW c \in Procs, Crash(c)
      PROVE  TypeInv'
  BY <1>35, <1>t, <1>n DEF Crash, Leave
<1>36. ASSUME Lock PROVE TypeInv'
  BY <1>36 DEF Lock, Forgotten
<1>37. ASSUME NEW s \in sessions, Expire(s) PROVE TypeInv'
  BY <1>37 DEF Expire
<1> QED
  BY <1>1, <1>2, <1>3, <1>4, <1>5, <1>6, <1>7, <1>8, <1>9, <1>10, <1>11, <1>12, <1>13, <1>14,
     <1>15, <1>16, <1>17, <1>18, <1>19, <1>20, <1>21, <1>22, <1>23, <1>24, <1>25, <1>26, <1>27,
     <1>28, <1>29, <1>30, <1>31, <1>32, <1>33, <1>34, <1>35, <1>36, <1>37
  DEF Next, Step, Progress

(* Type correctness, whatever the format of the vault: what a process holds *)
(* at each stage is there when the next file operation needs it.            *)
THEOREM VaultTypes == Spec => []TypeOK
<1>1. Init => TypeInv /\ right \subseteq Procs
  BY TypeInit DEF Init
<1>2. TypeInv /\ right \subseteq Procs /\ [Next]_vars => (TypeInv /\ right \subseteq Procs)'
  <2>1. TypeInv /\ Next => TypeInv' /\ right' \subseteq Procs
    BY TypeStep DEF Next
  <2>2. TypeInv /\ right \subseteq Procs /\ UNCHANGED vars
          => (TypeInv /\ right \subseteq Procs)'
    BY DEF vars, disk, local, TypeInv, DiskTypes, LocalTypes, HoldsInHand
  <2> QED
    BY <2>1, <2>2
<1>3. TypeInv /\ right \subseteq Procs => TypeOK
  BY DEF TypeInv, DiskTypes, LocalTypes, TypeOK
<1> QED
  BY <1>1, <1>2, <1>3, PTL DEF Spec

----------------------------------------------------------------------------
(* A vault of format 3, or that is yet to be created. Its master key never  *)
(* changes, no sidecar is ever staged, and no process enters a stage of the *)
(* re-encryption.                                                           *)

Seals(s, k) ==
    s \in Sidecars /\ s.format = 3 /\ s.key = k /\ s.pass \in Passphrases

FilesWrapped ==
    /\ base # NoFile /\ Seals(sidecar, base) /\ staged = NoFile
    /\ receipts \subseteq {base} /\ mailbox \in {NoFile, base}
    /\ \A b \in backups : b.base = base /\ Seals(b.sidecar, base)
    /\ \A s \in sessions : s.key = base
    /\ excl = Nobody

ChangeStages == {"prove", "wrapbackup", "rewrap", "forget"}
WrapStages ==
    {"out", "load", "read", "readstaged", "unlock", "clean", "open"} \cup ChangeStages

ProcsWrapped ==
    \A c \in Procs :
      /\ pc[c] \in WrapStages
      /\ pc[c] \in {"load", "read", "readstaged", "unlock"} =>
           call[c].op \notin {"create", "staged"}
      /\ pc[c] \in {"unlock", "clean", "open"} \cup ChangeStages => key[c] = base
      /\ pc[c] \in {"wrapbackup", "rewrap"} => Seals(mem[c], base)
      /\ pc[c] \in ChangeStages => c \in Changers /\ call[c].new \in Passphrases

(* With one process that changes passphrases, nobody overwrites its change  *)
(* before it is acknowledged.                                               *)
OneChanger == \A c, d \in Changers : c = d
ChangeInForce == \A c \in Procs : pc[c] = "forget" => sidecar.pass = call[c].new

Born == FilesWrapped /\ ProcsWrapped /\ (OneChanger => ChangeInForce)

(* Before it exists, one process at most is creating it, and the key it has *)
(* in hand is that of the sidecar it wrote.                                 *)
FilesUnborn ==
    /\ base = NoFile /\ staged = NoFile
    /\ sidecar # NoFile => Seals(sidecar, sidecar.key)
    /\ receipts = {} /\ mailbox = NoFile /\ backups = {} /\ sessions = {}
    /\ excl = Nobody
ProcsUnborn ==
    \A c \in Procs :
      /\ pc[c] \in {"out", "load", "read", "create", "write", "unlock"}
      /\ pc[c] \in {"load", "read"} => call[c].op \notin {"create", "staged"}
      /\ pc[c] \in {"create", "write", "unlock"} =>
           c \in Changers /\ call[c].op = "create" /\ call[c].pass \in Passphrases
      /\ pc[c] = "unlock" => sidecar # NoFile /\ key[c] = sidecar.key
Unborn == FilesUnborn /\ ProcsUnborn /\ OneChanger

Wrapped == Unborn \/ Born

(* The vaults of this section: those of format 3, and the one that a single *)
(* process creates.                                                         *)
Wrapping == Formats \subseteq {0, 3} /\ (0 \in Formats => OneChanger)

LEMMA SealsIsAFile == ASSUME NEW s, NEW k, Seals(s, k) PROVE s # NoFile
BY VaultAssumption DEF Seals

(* The one passphrase that opens a wrapped vault is the one its sidecar is  *)
(* sealed under.                                                            *)
LEMMA WrappedOpens ==
    ASSUME FilesWrapped, NEW p
    PROVE  Opens(p) <=> p = sidecar.pass
<1>1. base # NoFile /\ sidecar # NoFile /\ sidecar.format = 3 /\ sidecar.key = base
  BY SealsIsAFile DEF FilesWrapped, Seals
<1> QED
  BY <1>1 DEF FilesWrapped, Opens, Accepts, KeyFrom

LEMMA Resealed ==
    ASSUME NEW s, NEW k \in Keys, Seals(s, k), NEW p \in Passphrases
    PROVE  Seals(Sidecar(3, s.id, p, s.key), k) /\ Sidecar(3, s.id, p, s.key).pass = p
<1>1. s.id \in Nat \ {0} /\ p \in Typed
  BY SidecarParts DEF Seals, Typed
<1>2. /\ Sidecar(3, s.id, p, s.key) \in Sidecars
      /\ Sidecar(3, s.id, p, s.key).format = 3
      /\ Sidecar(3, s.id, p, s.key).pass = p /\ Sidecar(3, s.id, p, s.key).key = s.key
  BY <1>1, NewSidecar DEF Seals
<1> QED
  BY <1>2 DEF Seals

LEMMA WrapInit == ASSUME Wrapping, Init PROVE Wrapped
<1>1. First \in Passphrases /\ First \in Typed /\ Master(0) \in Keys /\ Master(0) # NoFile
  BY KeysAreKeys, VaultAssumption DEF Typed
<1>2. Seals(Sidecar(3, 1, First, Master(0)), Master(0))
  BY <1>1, NewSidecar DEF Seals
<1>3. PICK f \in Formats :
        /\ base = IF f = 0 THEN NoFile ELSE FirstKey(f)
        /\ sidecar = IF f = 0 THEN NoFile ELSE FirstSidecar(f)
  BY DEF Init
<1>4. \A c \in Procs : pc[c] = "out"
  BY DEF Init
<1>5. CASE f = 0
  BY <1>3, <1>4, <1>5 DEF Init, Wrapping, Wrapped, Unborn, FilesUnborn, ProcsUnborn
<1>6. CASE f = 3
  <2>1. base = Master(0) /\ sidecar = Sidecar(3, 1, First, Master(0))
    BY <1>3, <1>6 DEF FirstKey, FirstSidecar
  <2> QED
    BY <1>1, <1>2, <1>4, <2>1
    DEF Init, Wrapped, Born, FilesWrapped, ProcsWrapped, ChangeInForce, ChangeStages, WrapStages
<1> QED
  BY <1>5, <1>6 DEF Wrapping

LEMMA BornStep == ASSUME TypeInv, Born, Next PROVE Born'
<1> USE VaultAssumption
    DEF Born, FilesWrapped, ProcsWrapped, ChangeInForce, OneChanger, ChangeStages,
        WrapStages, disk, local, At, Goto
<1> NoCall.op = "none"
  BY DEF NoCall
<1> sidecar # NoFile
  BY SealsIsAFile
<1> USE DEF TypeInv, LocalTypes
<1>1. ASSUME NEW c \in Procs, NEW p \in Typed, StartOpen(c, p)
      PROVE  Born'
  BY <1>1 DEF StartOpen, Start
<1>2. ASSUME NEW c \in Procs, NEW p \in Passphrases, StartCreate(c, p)
      PROVE  Born'
  BY <1>2 DEF StartCreate, Start
<1>3. ASSUME NEW c \in Procs, StartCached(c)
      PROVE  Born'
  BY <1>3 DEF StartCached, Start
<1>4. ASSUME NEW c \in Changers, NEW p \in Typed, NEW new \in Passphrases, StartChange(c, p, new)
      PROVE  Born'
  <2>1. c \in Procs
    OBVIOUS
  <2> QED
    BY <1>4, <2>1 DEF StartChange, Start
<1>5. ASSUME NEW c \in Procs, Read(c)
      PROVE  Born'
  <2>0. pc[c] = "read"
    BY <1>5 DEF Read
  <2>1. CASE Refuse(c, "not_found") /\ UNCHANGED <<disk, fresh, calls>>
    BY <2>1 DEF Refuse, Leave
  <2>2. CASE /\ Holding(c, sidecar, KeyFrom(sidecar, call[c].pass))
             /\ Goto(c, IF sidecar.format = 1 THEN "upgrade" ELSE "unlock")
             /\ UNCHANGED <<disk, excl, call, answer, fresh, calls>>
    <3>1. sidecar.format = 3 /\ KeyFrom(sidecar, call[c].pass) = base
      BY DEF Seals, KeyFrom
    <3> QED
      BY <2>0, <2>2, <3>1 DEF Holding
  <2>3. CASE /\ Goto(c, "readstaged")
             /\ UNCHANGED <<disk, excl, call, mem, key, vid, answer, fresh, calls>>
    BY <2>0, <2>3
  <2> QED
    BY <1>5, <2>1, <2>2, <2>3 DEF Read
<1>6. ASSUME NEW c \in Procs, ReadStaged(c)
      PROVE  Born'
  BY <1>6 DEF ReadStaged, Refuse, Leave
<1>7. ASSUME NEW c \in Procs, Load(c)
      PROVE  Born'
  BY <1>7 DEF Load, Refuse, Leave, Holding, Forgotten
<1>8. ASSUME NEW c \in Procs, Unlock(c)
      PROVE  Born'
  BY <1>8 DEF Unlock, Answer
<1>9. ASSUME NEW c \in Procs, Clean(c)
      PROVE  Born'
  BY <1>9 DEF Clean, Answer
<1>10. ASSUME NEW c \in Procs, Remember(c)
      PROVE  Born'
  BY <1>10 DEF Remember, Forgotten
<1>11. ASSUME NEW c \in Procs, Seal(c)
      PROVE  Born'
  BY <1>11 DEF Seal
<1>12. ASSUME NEW c \in Procs, OpenMailbox(c)
      PROVE  Born'
  BY <1>12 DEF OpenMailbox
<1>13. ASSUME NEW c \in Procs, Archive(c)
      PROVE  Born'
  BY <1>13 DEF Archive, CopyOf
<1>14. ASSUME NEW c \in Procs, Close(c)
      PROVE  Born'
  BY <1>14 DEF Close, Leave
<1>15. ASSUME NEW c \in Procs, Prove(c)
      PROVE  Born'
  <2>1. CASE \E why \in {"not_found", "wrong", "interrupted", "same"} :
               Refuse(c, why) /\ UNCHANGED <<disk, fresh, calls>>
    BY <2>1 DEF Refuse, Leave
  <2>2. CASE /\ At(c, "prove") /\ mem' = [mem EXCEPT ![c] = sidecar]
             /\ Goto(c, IF sidecar.format = 3 THEN "wrapbackup" ELSE "claim")
             /\ UNCHANGED <<disk, excl, call, key, vid, answer, fresh, calls>>
    <3>1. sidecar.format = 3
      BY DEF Seals
    <3> QED
      BY <2>2, <3>1
  <2> QED
    BY <1>15, <2>1, <2>2 DEF Prove
<1>16. ASSUME NEW c \in Procs, BackUp(c, "wrapbackup", "rewrap")
      PROVE  Born'
  <2>1. CASE Refuse(c, "error") /\ UNCHANGED <<disk, fresh, calls>>
    BY <2>1 DEF Refuse, Leave
  <2>2. CASE /\ At(c, "wrapbackup") /\ backups' = backups \cup {CopyOf(c)}
             /\ Goto(c, "rewrap")
             /\ UNCHANGED <<base, sidecar, staged, rekeyed, receipts, mailbox, sessions, excl,
                            call, mem, key, vid, answer, fresh, calls>>
    BY <2>2 DEF CopyOf
  <2> QED
    BY <1>16, <2>1, <2>2 DEF BackUp
<1>17. ASSUME NEW c \in Procs, Rewrap(c)
      PROVE  Born'
  <2> DEFINE s == Sidecar(3, mem[c].id, call[c].new, mem[c].key)
  <2>1. Seals(s, base) /\ s.pass = call[c].new /\ c \in Changers
    <3>1. base \in Keys /\ Seals(mem[c], base) /\ c \in Changers /\ call[c].new \in Passphrases
      BY <1>17 DEF Rewrap, DiskTypes
    <3> QED
      BY <3>1, Resealed
  <2>2. /\ sidecar' = s /\ pc' = [pc EXCEPT ![c] = "forget"] /\ pc[c] = "rewrap"
        /\ UNCHANGED <<base, staged, rekeyed, receipts, mailbox, backups, sessions, excl,
                       call, mem, key, vid, answer, fresh, calls>>
    BY <1>17 DEF Rewrap
  <2> HIDE DEF s
  <2>3. FilesWrapped' /\ ProcsWrapped'
    BY <2>1, <2>2
  <2>4. OneChanger => \A d \in Procs : pc[d] \in ChangeStages => d = c
    BY <2>1
  <2>5. OneChanger => ChangeInForce'
    BY <2>1, <2>2, <2>4
  <2> QED
    BY <2>3, <2>5
<1>18. ASSUME NEW c \in Procs, RefuseRewrap(c)
      PROVE  Born'
  BY <1>18 DEF RefuseRewrap, Refuse, Leave
<1>19. ASSUME NEW c \in Procs, ForgetSession(c)
      PROVE  Born'
  BY <1>19 DEF ForgetSession, Answer, Forgotten
<1>20. ASSUME NEW c \in Procs, Crash(c)
      PROVE  Born'
  BY <1>20 DEF Crash, Leave
<1>21. ASSUME Lock \/ \E s \in sessions : Expire(s)
      PROVE  Born'
  BY <1>21 DEF Lock, Expire, Forgotten
(* The stages of a creation and of a re-encryption are never reached.       *)
<1>22. ASSUME NEW c \in Procs
      PROVE  /\ ~Upgrade(c) /\ ~Settle(c) /\ ~CheckSidecar(c) /\ ~WriteSidecar(c)
             /\ ~DiscardArtifacts(c) /\ ~Unlockable(c) /\ ~Claim(c)
             /\ ~BackUp(c, "backup", "stage") /\ ~Stage(c) /\ ~Copy(c) /\ ~Disconnect(c)
             /\ ~SwapBase(c) /\ ~CommitStaged(c) /\ ~Reopen(c)
  BY DEF Upgrade, Settle, CheckSidecar, WriteSidecar, DiscardArtifacts, Unlockable, Unlocks, Busy,
         Claim, BackUp, Stage, Copy, Disconnect, SwapBase, CommitStaged, Reopen
<1>23. ASSUME NEW c \in Procs PROVE ~Abandon(c)
  BY DEF Abandon
<1> QED
  BY <1>1, <1>2, <1>3, <1>4, <1>5, <1>6, <1>7, <1>8, <1>9, <1>10, <1>11, <1>12, <1>13, <1>14,
     <1>15, <1>16, <1>17, <1>18, <1>19, <1>20, <1>21, <1>22, <1>23
  DEF Next, Step, Progress

LEMMA UnbornStep == ASSUME TypeInv, Unborn, Next PROVE Unborn' \/ Born'
<1> USE VaultAssumption
    DEF Unborn, FilesUnborn, ProcsUnborn, OneChanger, disk, local, At, Goto
<1> NoCall.op = "none"
  BY DEF NoCall
<1> USE DEF TypeInv, LocalTypes
(* The process that creates is alone to.                                    *)
<1>a. ASSUME NEW c \in Procs, pc[c] \in {"create", "write", "unlock"}
      PROVE  \A d \in Procs : pc[d] \in {"create", "write", "unlock"} => d = c
  BY <1>a
<1>1. ASSUME NEW c \in Procs, NEW p \in Typed, StartOpen(c, p)
      PROVE  Unborn'
  BY <1>1 DEF StartOpen, Start
<1>2. ASSUME NEW c \in Changers, NEW p \in Passphrases, StartCreate(c, p)
      PROVE  Unborn'
  <2>1. c \in Procs
    OBVIOUS
  <2> QED
    BY <1>2, <2>1 DEF StartCreate, Start
<1>3. ASSUME NEW c \in Procs, StartCached(c)
      PROVE  Unborn'
  BY <1>3 DEF StartCached, Start
<1>4. ASSUME NEW c \in Procs, Read(c) \/ Load(c)
      PROVE  Unborn'
  BY <1>4 DEF Read, Load, Refuse, Leave, Forgotten
<1>5. ASSUME NEW c \in Procs, CheckSidecar(c)
      PROVE  Unborn'
  BY <1>5 DEF CheckSidecar, Refuse, Leave
<1>6. ASSUME NEW c \in Procs, WriteSidecar(c)
      PROVE  Unborn'
  <2> DEFINE s == Sidecar(3, fresh, call[c].pass, Master(fresh))
  <2>1. s \in Sidecars /\ s.format = 3 /\ s.pass = call[c].pass
    <3>1. call[c].pass \in Typed /\ Master(fresh) \in Keys /\ fresh \in Nat \ {0}
      BY KeysAreKeys
    <3> QED
      BY <3>1, NewSidecar
  <2>2. /\ sidecar' = s /\ key' = [key EXCEPT ![c] = s.key] /\ pc[c] = "write"
        /\ pc' = [pc EXCEPT ![c] = "unlock"]
        /\ UNCHANGED <<base, staged, rekeyed, receipts, mailbox, backups, sessions, excl,
                       call, answer, calls>>
    BY <1>6 DEF WriteSidecar, Holding
  <2>3. c \in Changers /\ call[c].op = "create" /\ call[c].pass \in Passphrases
    BY <2>2
  <2>4. \A d \in Procs : pc[d] \in {"create", "write", "unlock"} => d = c
    BY <1>a, <2>2
  <2> HIDE DEF s
  <2>5. Seals(s, s.key) /\ s # NoFile
    BY <2>1, <2>3 DEF Seals
  <2>6. FilesUnborn'
    BY <2>2, <2>5
  <2>7. ProcsUnborn'
    BY <2>2, <2>3, <2>4, <2>5
  <2> QED
    BY <2>6, <2>7
<1>7. ASSUME NEW c \in Procs, DiscardArtifacts(c)
      PROVE  Unborn'
  <2>1. pc[c] = "unlock" /\ base' = NoFile /\ sidecar' = NoFile /\ Leave(c)
        /\ UNCHANGED <<staged, rekeyed, receipts, mailbox, backups, sessions>>
    BY <1>7 DEF DiscardArtifacts, Refuse
  <2>2. \A d \in Procs : pc[d] \in {"create", "write", "unlock"} => d = c
    BY <1>a, <2>1
  <2> QED
    BY <2>1, <2>2 DEF Leave
<1>8. ASSUME NEW c \in Procs, Unlock(c)
      PROVE  Born'
  <2>1. /\ pc[c] = "unlock" /\ base' = key[c] /\ pc' = [pc EXCEPT ![c] = "open"]
        /\ UNCHANGED <<sidecar, staged, rekeyed, receipts, mailbox, backups, sessions, excl,
                       call, mem, key>>
    BY <1>8 DEF Unlock, Answer
  <2>2. sidecar # NoFile /\ key[c] = sidecar.key /\ Seals(sidecar, sidecar.key)
    BY <2>1
  <2>3. sidecar.key \in Keys /\ sidecar.key # NoFile
    BY <2>2, SidecarParts DEF Seals
  <2>4. \A d \in Procs : d # c => pc[d] \in {"out", "load", "read"}
    BY <1>a, <2>1
  <2>5. FilesWrapped'
    BY <2>1, <2>2, <2>3 DEF FilesWrapped
  <2>6. ProcsWrapped'
    BY <2>1, <2>2, <2>4 DEF ProcsWrapped, WrapStages, ChangeStages
  <2>7. ChangeInForce'
    BY <2>1, <2>4 DEF ChangeInForce
  <2> QED
    BY <2>5, <2>6, <2>7 DEF Born
<1>9. ASSUME NEW c \in Procs, Crash(c)
      PROVE  Unborn'
  BY <1>9 DEF Crash, Leave
<1>10. ASSUME Lock \/ \E s \in sessions : Expire(s)
      PROVE  Unborn'
  BY <1>10 DEF Lock, Expire, Forgotten
<1>11. ASSUME NEW c \in Procs
       PROVE  /\ ~ReadStaged(c) /\ ~Upgrade(c) /\ ~Unlockable(c) /\ ~Clean(c) /\ ~Settle(c)
              /\ ~Remember(c) /\ ~Seal(c) /\ ~OpenMailbox(c) /\ ~Archive(c) /\ ~Close(c)
              /\ \A p, new : ~StartChange(c, p, new)
  BY DEF ReadStaged, Upgrade, Unlockable, Clean, Settle, Remember, Seal, OpenMailbox, Archive,
         Close, StartChange
<1>12. ASSUME NEW c \in Procs
       PROVE  /\ ~Prove(c) /\ ~BackUp(c, "wrapbackup", "rewrap") /\ ~Rewrap(c)
              /\ ~RefuseRewrap(c) /\ ~ForgetSession(c) /\ ~Claim(c)
              /\ ~BackUp(c, "backup", "stage") /\ ~Stage(c) /\ ~Copy(c) /\ ~Disconnect(c)
              /\ ~SwapBase(c) /\ ~CommitStaged(c) /\ ~Reopen(c) /\ ~Abandon(c)
  BY DEF Prove, BackUp, Rewrap, RefuseRewrap, ForgetSession, Claim, Stage, Copy, Disconnect,
         SwapBase, CommitStaged, Reopen, Abandon
<1> QED
  BY <1>1, <1>2, <1>3, <1>4, <1>5, <1>6, <1>7, <1>8, <1>9, <1>10, <1>11, <1>12
  DEF Next, Step, Progress

LEMMA WrapStep == ASSUME TypeInv, Wrapped, Next PROVE Wrapped'
BY BornStep, UnbornStep DEF Wrapped

(* Once a wrapped vault: the properties a run checks, for every number of   *)
(* processes, passphrases and calls.                                        *)
THEOREM WrappedInvariance == ASSUME Wrapping PROVE Spec => [](TypeInv /\ Wrapped)
<1>1. Init => TypeInv /\ Wrapped
  BY TypeInit, WrapInit
<1>2. TypeInv /\ Wrapped /\ [Next]_vars => (TypeInv /\ Wrapped)'
  <2>1. TypeInv /\ Wrapped /\ Next => (TypeInv /\ Wrapped)'
    BY TypeStep, WrapStep
  <2>2. TypeInv /\ Wrapped /\ UNCHANGED vars => (TypeInv /\ Wrapped)'
    BY DEF vars, disk, local, TypeInv, DiskTypes, LocalTypes, HoldsInHand, Wrapped, Unborn,
           FilesUnborn, ProcsUnborn, Born, FilesWrapped, ProcsWrapped, ChangeInForce
  <2> QED
    BY <2>1, <2>2
<1> QED
  BY <1>1, <1>2, PTL DEF Spec

(* Whoever dies or races, one of the users' passphrases opens the vault.    *)
THEOREM WrappedKeysRetrievable == ASSUME Wrapping PROVE Spec => []KeysRetrievable
<1>1. Wrapped => KeysRetrievable
  BY WrappedOpens DEF Wrapped, Unborn, FilesUnborn, Born, FilesWrapped, Seals, KeysRetrievable
<1> QED
  BY <1>1, WrappedInvariance, PTL

(* An open vault reads all its receipts and its mailbox.                    *)
THEOREM WrappedCompanions == ASSUME Wrapping PROVE Spec => []CompanionsReadable
<1>1. Wrapped => CompanionsReadable
  BY DEF Wrapped, Unborn, ProcsUnborn, Born, FilesWrapped, ProcsWrapped, CompanionsReadable,
         MailboxReads, At
<1> QED
  BY <1>1, WrappedInvariance, PTL

(* No connection ever holds a key the file does not have.                   *)
THEOREM WrappedConnections == ASSUME Wrapping PROVE Spec => []NoStaleConnection
<1>1. Wrapped => NoStaleConnection
  BY DEF Wrapped, Unborn, ProcsUnborn, Born, ProcsWrapped, NoStaleConnection, At
<1> QED
  BY <1>1, WrappedInvariance, PTL

(* Every backup ever written opens with a passphrase.                       *)
THEOREM WrappedBackups == ASSUME Wrapping PROVE Spec => []BackupsOpen
<1>1. Wrapped => BackupsOpen
  BY DEF Wrapped, Unborn, FilesUnborn, Born, FilesWrapped, Seals, BackupsOpen, Accepts, KeyFrom
<1> QED
  BY <1>1, WrappedInvariance, PTL

(* Who answers what, and how a process comes to ask or to try the staged    *)
(* sidecar.                                                                 *)
Attributed(c) ==
    /\ answer'[c] = "changed" => answer[c] = "changed" \/ ForgetSession(c)
    /\ answer'[c] = "wrong" =>
         answer[c] = "wrong" \/ ReadStaged(c) \/ Unlockable(c) \/ Prove(c)
    /\ pc'[c] = "readstaged" =>
         pc[c] = "readstaged" \/ (pc[c] = "read" /\ ~Accepts(sidecar, call[c].pass))
    /\ pc[c] = "out" /\ pc'[c] # "out" => answer'[c] = "none" /\ base' = base

LEMMA Attribution == ASSUME TypeInv, Next, NEW c \in Procs PROVE Attributed(c)
<1> USE DEF TypeInv, LocalTypes, Attributed, disk, local, At, Goto
<1>1. ASSUME NEW d \in Procs, NEW p, StartOpen(d, p) \/ StartCreate(d, p)
      PROVE  Attributed(c)
  BY <1>1 DEF StartOpen, StartCreate, Start
<1>2. ASSUME NEW d \in Procs, NEW p, NEW new, StartChange(d, p, new)
      PROVE  Attributed(c)
  BY <1>2 DEF StartChange, Start
<1>3. ASSUME NEW d \in Procs, StartCached(d) \/ Remember(d) \/ Seal(d) \/ OpenMailbox(d) \/
                              Archive(d)
      PROVE  Attributed(c)
  BY <1>3 DEF StartCached, Remember, Seal, OpenMailbox, Archive, Start
<1>4. ASSUME NEW d \in Procs, Close(d) \/ Crash(d) \/ Load(d) \/ Unlock(d) \/ Clean(d)
      PROVE  Attributed(c)
  BY <1>4 DEF Close, Crash, Load, Unlock, Clean, Leave, Refuse, Answer, Holding
<1>5. ASSUME NEW d \in Procs, Upgrade(d) \/ Settle(d) \/ CheckSidecar(d) \/ WriteSidecar(d) \/
                              DiscardArtifacts(d)
      PROVE  Attributed(c)
  BY <1>5 DEF Upgrade, Settle, CheckSidecar, WriteSidecar, DiscardArtifacts, Leave, Refuse,
     Answer, Holding
<1>6. ASSUME NEW d \in Procs, Rewrap(d) \/ RefuseRewrap(d) \/ Claim(d) \/ Stage(d) \/ Copy(d) \/
                              Disconnect(d)
      PROVE  Attributed(c)
  BY <1>6 DEF Rewrap, RefuseRewrap, Claim, Stage, Copy, Disconnect, Leave, Refuse
<1>7. ASSUME NEW d \in Procs, SwapBase(d) \/ CommitStaged(d) \/ Reopen(d) \/ Abandon(d)
      PROVE  Attributed(c)
  BY <1>7 DEF SwapBase, CommitStaged, Reopen, Abandon, Leave, Refuse
<1>8. ASSUME NEW d \in Procs, BackUp(d, "wrapbackup", "rewrap") \/ BackUp(d, "backup", "stage")
      PROVE  Attributed(c)
  BY <1>8 DEF BackUp, Leave, Refuse
<1>9. ASSUME NEW d \in Procs, Read(d)
      PROVE  Attributed(c)
  BY <1>9 DEF Read, Leave, Refuse, Holding
<1>10. ASSUME NEW d \in Procs, ReadStaged(d) \/ Unlockable(d) \/ Prove(d)
      PROVE  Attributed(c)
  BY <1>10 DEF ReadStaged, Unlockable, Prove, Leave, Refuse, Holding
<1>11. ASSUME NEW d \in Procs, ForgetSession(d)
      PROVE  Attributed(c)
  BY <1>11 DEF ForgetSession, Answer
<1>12. ASSUME Lock \/ \E s \in sessions : Expire(s)
      PROVE  Attributed(c)
  BY <1>12 DEF Lock, Expire
<1> HIDE DEF Attributed
<1>13. Changers \subseteq Procs
  BY VaultAssumption
<1> QED
  BY <1>1, <1>2, <1>3, <1>4, <1>5, <1>6, <1>7, <1>8, <1>9, <1>10, <1>11, <1>12, <1>13
  DEF Next, Step, Progress

(* A change that is acknowledged is in force, when one process at a time    *)
(* changes passphrases: nothing undid it between the sidecar's rewriting    *)
(* and the answer.                                                          *)
THEOREM WrappedChangeHolds ==
    ASSUME Wrapping, OneChanger PROVE Spec => ChangeHolds
<1>1. TypeInv /\ Wrapped /\ (TypeInv /\ Wrapped)' /\ [Next]_vars => [InForceOnceTold]_vars
  <2> SUFFICES ASSUME TypeInv, Wrapped, Wrapped', Next, NEW c \in Procs,
                      answer[c] # "changed", answer'[c] = "changed",
                      NEW p \in Passphrases
               PROVE  Opens(p)' <=> p = call[c].new
    BY DEF InForceOnceTold
  <2>1. ForgetSession(c)
    BY Attribution DEF Attributed
  <2>2. sidecar' = sidecar /\ pc[c] = "forget"
    BY <2>1 DEF ForgetSession, At
  <2>3. sidecar.pass = call[c].new /\ base # NoFile /\ base' = base
    BY <2>1, <2>2 DEF Wrapped, Unborn, ProcsUnborn, Born, FilesWrapped, ChangeInForce, ForgetSession
  <2>4. FilesWrapped'
    BY <2>3 DEF Wrapped, Unborn, FilesUnborn, Born
  <2>5. Opens(p)' <=> p = sidecar'.pass
    <3>1. /\ base' # NoFile /\ sidecar' # NoFile
          /\ sidecar'.format = 3 /\ sidecar'.key = base' /\ staged' = NoFile
      BY <2>4, VaultAssumption DEF FilesWrapped, Seals
    <3> QED
      BY <3>1 DEF Opens, Accepts, KeyFrom
  <2>6. sidecar'.pass = call[c].new
    BY <2>2, <2>3
  <2> QED
    BY <2>5, <2>6
<1> QED
  BY <1>1, WrappedInvariance, PTL DEF Spec, ChangeHolds

(* Whoever asks with a passphrase that is right, and stays right while it   *)
(* is tried, is one the sidecar lets in: it never comes to the staged one.  *)
RightInv ==
    \A c \in right :
      /\ c \in Procs /\ pc[c] \in Asking \ {"readstaged"}
      /\ Opens(call[c].pass) /\ answer[c] # "wrong"

LEMMA RightStep ==
    ASSUME TypeInv, Born, RightInv, Next
    PROVE  RightInv' /\ \A c \in right : answer'[c] # "wrong"
<1>1. ASSUME NEW c \in right PROVE answer'[c] # "wrong"
  <2>1. c \in Procs /\ pc[c] \in {"read", "upgrade", "unlock"} /\ answer[c] # "wrong"
    BY DEF RightInv, Asking
  <2>2. ~ReadStaged(c) /\ ~Prove(c)
    BY <2>1 DEF ReadStaged, Prove, At
  <2>3. ~Unlockable(c)
    BY <2>1 DEF Unlockable, Unlocks, Busy, Born, FilesWrapped, ProcsWrapped, At
  <2> QED
    BY <2>1, <2>2, <2>3, Attribution DEF Attributed
<1>2. ASSUME NEW c \in right'
      PROVE  /\ c \in Procs /\ pc'[c] \in Asking \ {"readstaged"}
             /\ Opens(call[c].pass)' /\ answer'[c] # "wrong"
  <2>1. /\ c \in Procs /\ pc'[c] \in Asking /\ Opens(call[c].pass)'
        /\ pc[c] = "out" \/ c \in right
    BY <1>2 DEF Next
  <2>2. answer'[c] # "wrong"
    BY <1>1, <2>1, Attribution DEF Attributed, Asking
  <2>3. pc'[c] # "readstaged"
    <3>1. CASE pc[c] = "out"
      BY <2>1, <3>1, Attribution DEF Attributed
    <3>2. CASE c \in right
      <4>1. Opens(call[c].pass) /\ pc[c] # "readstaged"
        BY <3>2 DEF RightInv
      <4>2. Accepts(sidecar, call[c].pass)
        BY <4>1, WrappedOpens DEF Born, FilesWrapped, Seals, Accepts
      <4> QED
        BY <2>1, <4>1, <4>2, Attribution DEF Attributed
    <3> QED
      BY <2>1, <3>1, <3>2
  <2> QED
    BY <2>1, <2>2, <2>3
<1> QED
  BY <1>1, <1>2 DEF RightInv

(* No passphrase is right before there is a vault.                          *)
LEMMA RightUnborn ==
    ASSUME TypeInv, Unborn, RightInv, Next
    PROVE  RightInv' /\ \A c \in right : answer'[c] # "wrong"
<1>1. right = {}
  BY DEF RightInv, Opens, Unborn, FilesUnborn
<1>2. right' = {}
  <2> SUFFICES ASSUME NEW c \in right' PROVE FALSE
    OBVIOUS
  <2>1. c \in Procs /\ pc'[c] \in Asking /\ Opens(call[c].pass)' /\ pc[c] = "out"
    BY <1>1 DEF Next
  <2>2. base' = base
    BY <2>1, Attribution DEF Attributed, Asking
  <2> QED
    BY <2>1, <2>2 DEF Opens, Unborn, FilesUnborn
<1> QED
  BY <1>1, <1>2 DEF RightInv

(* A right passphrase is never answered "wrong", whatever the others do.    *)
THEOREM WrappedRightIsNotWrong == ASSUME Wrapping PROVE Spec => RightIsNotWrong
<1> DEFINE A == \A c \in right : answer'[c] # "wrong"
<1>1. Init => RightInv
  BY DEF Init, RightInv
<1>2. TypeInv /\ Wrapped /\ RightInv /\ [Next]_vars => RightInv' /\ [A]_vars
  <2>1. TypeInv /\ Wrapped /\ RightInv /\ Next => RightInv' /\ A
    BY RightStep, RightUnborn DEF Wrapped
  <2>2. RightInv /\ UNCHANGED vars => RightInv'
    BY DEF RightInv, vars, disk, local, Opens
  <2> QED
    BY <2>1, <2>2
<1> QED
  BY <1>1, <1>2, WrappedInvariance, PTL DEF Spec, RightIsNotWrong

----------------------------------------------------------------------------
(* A vault of any format, used by one process at a time. Creation, upgrade  *)
(* and re-encryption may each be cut short anywhere, and the next opening   *)
(* finds what they left.                                                    *)

Alone == \A c, d \in Procs : c = d
Solitary == Alone /\ ~Errors /\ ~Mistakes

(* A sidecar that one of the users' passphrases made, and the key it gives  *)
(* to that passphrase.                                                      *)
Genuine(s) ==
    /\ s \in Sidecars /\ s.pass \in Passphrases
    /\ s.format = 1 => s.pass = First
    /\ s.format = 2 => s.key = Derived(s.pass)
Own(s) == KeyFrom(s, s.pass)

(* The base is under the key of the committed sidecar; or a change stopped  *)
(* after the base was replaced, and it is under that of the staged one.     *)
InPlace == base = Own(sidecar)
Interrupted ==
    Genuine(staged) /\ staged.format = 3 /\ sidecar.format = 2 /\ staged.pass # sidecar.pass

FilesFounding ==
    /\ base = NoFile /\ staged = NoFile /\ sessions = {} /\ backups = {}
    /\ sidecar # NoFile => Genuine(sidecar) /\ sidecar.format = 3
FilesFounded ==
    /\ base # NoFile /\ Genuine(sidecar)
    /\ staged # NoFile => Interrupted
    /\ InPlace \/ (staged # NoFile /\ base = staged.key)
FilesSound ==
    /\ FilesFounding \/ FilesFounded
    /\ \A b \in backups : Genuine(b.sidecar) /\ b.base = Own(b.sidecar)
    /\ \A s \in sessions : s.id # 0

(* What the process that creates or opens has found so far.                 *)
AsksWell(c) ==
    /\ pc[c] \in {"read", "readstaged", "upgrade"} => call[c].op = "open"
    /\ pc[c] = "load" => call[c].op = "cached"
    /\ pc[c] = "read" /\ sidecar # NoFile /\ sidecar.format = 1 => call[c].pass = First
    /\ pc[c] = "readstaged" => base # NoFile /\ ~Accepts(sidecar, call[c].pass)
    /\ pc[c] = "upgrade" => /\ base # NoFile /\ sidecar.format = 1
                            /\ call[c].pass = First /\ key[c] = Derived(First)
    /\ pc[c] \in {"create", "write"} =>
         base = NoFile /\ call[c].op = "create" /\ call[c].pass \in Passphrases
    /\ pc[c] = "unlock" =>
         \/ /\ call[c].op = "create"
            /\ base = NoFile /\ sidecar # NoFile /\ key[c] = sidecar.key
         \/ /\ call[c].op \in {"open", "cached"}
            /\ base # NoFile /\ sidecar.format # 1 /\ key[c] = Own(sidecar)
            /\ call[c].op = "open" => Accepts(sidecar, call[c].pass)
         \/ /\ call[c].op = "staged"
            /\ base # NoFile /\ staged # NoFile /\ key[c] = staged.key

(* What the process that has the vault open knows of the files, at each     *)
(* stage of a change of passphrase.                                         *)
Rekeying == {"copy", "close", "swap", "commit", "reopen"}
Changing == {"wrapbackup", "rewrap", "forget", "claim", "backup", "stage"} \cup Rekeying
HoldsWell(c) ==
    /\ pc[c] \in {"unlock", "clean", "settle", "open", "prove"} \cup Changing => vid[c] # 0
    /\ pc[c] = "clean" => base # NoFile /\ InPlace /\ key[c] = base /\ sidecar.format # 1
    /\ pc[c] = "settle" => base # NoFile /\ staged # NoFile /\ base = staged.key /\ key[c] = base
    /\ pc[c] \in {"open", "prove", "wrapbackup", "rewrap", "forget", "claim", "backup", "stage"} =>
         base # NoFile /\ InPlace /\ staged = NoFile /\ key[c] = base /\ sidecar.format # 1
    /\ pc[c] \in {"prove"} \cup Changing => call[c].new \in Passphrases
    /\ pc[c] \in {"wrapbackup", "rewrap"} => mem[c] = sidecar /\ sidecar.format = 3
    /\ pc[c] \in {"claim", "backup", "stage"} =>
         mem[c] = sidecar /\ sidecar.format = 2 /\ call[c].new # sidecar.pass
    /\ pc[c] \in Rekeying => base # NoFile /\ mem[c].pass = call[c].new
    /\ pc[c] \in {"copy", "close", "swap"} => InPlace /\ staged = mem[c]
    /\ pc[c] \in {"close", "swap"} => rekeyed = mem[c].key
    /\ pc[c] = "commit" => staged = mem[c] /\ base = mem[c].key
    /\ pc[c] = "reopen" =>
         InPlace /\ staged = NoFile /\ sidecar = mem[c] /\ base = mem[c].key
    /\ pc[c] = "forget" => sidecar.format = 3 /\ sidecar.pass = call[c].new

Sound ==
    FilesSound /\ \A c \in Procs : excl \in {Nobody, c} /\ AsksWell(c) /\ HoldsWell(c)

(* A genuine sidecar is a file, and gives its own key to the passphrases it *)
(* accepts; with a derived key it accepts one.                              *)
LEMMA GenuineIs ==
    ASSUME NEW s, Genuine(s)
    PROVE  /\ s # NoFile /\ s \in Sidecars /\ s.format \in 1..3 /\ s.pass \in Passphrases
           /\ s.pass \in Typed /\ Accepts(s, s.pass) /\ Own(s) \in Keys /\ Own(s) # NoFile
           /\ s.format # 1 => s.id # 0 /\ Own(s) = s.key
<1>1. s \in Sidecars /\ s.pass \in Passphrases /\ s.pass \in Typed /\ s # NoFile
  BY VaultAssumption DEF Genuine, Typed
<1>2. s.format \in 1..3 /\ (s.format # 1 => s.id # 0)
  BY <1>1, SidecarParts
<1>3. Own(s) \in Keys /\ Own(s) # NoFile
  BY <1>1, KeyFromIsKey, VaultAssumption DEF Own
<1>4. Accepts(s, s.pass) /\ (s.format # 1 => Own(s) = s.key)
  BY <1>2 DEF Genuine, Accepts, Own, KeyFrom
<1> QED
  BY <1>1, <1>2, <1>3, <1>4

LEMMA DerivedApart ==
    ASSUME NEW p, NEW q, Derived(p) = Derived(q) PROVE p = q
BY DEF Derived

LEMMA AcceptedIsOwn ==
    ASSUME NEW s, Genuine(s), s.format # 1, NEW p
    PROVE  /\ Accepts(s, p) <=> p = s.pass
           /\ Accepts(s, p) => KeyFrom(s, p) = Own(s)
<1>1. s.format \in {2, 3}
  BY GenuineIs
<1>2. Accepts(s, p) <=> p = s.pass
  BY <1>1, DerivedApart DEF Genuine, Accepts
<1> QED
  BY <1>2 DEF Own

(* The files are sound as long as what they are made of is.                 *)
LEMMA SameFiles ==
    ASSUME FilesSound, UNCHANGED <<base, sidecar, staged, backups>>, sessions' \subseteq sessions
    PROVE  FilesSound'
BY DEF FilesSound, FilesFounding, FilesFounded, InPlace, Interrupted

(* With one process, what holds of it holds of all.                         *)
LEMMA OneOnly ==
    ASSUME Alone, NEW c \in Procs, FilesSound', excl' \in {Nobody, c}, AsksWell(c)', HoldsWell(c)'
    PROVE  Sound'
BY DEF Alone, Sound

(* The process ends, or dies.                                               *)
LEMMA Ends ==
    ASSUME TypeInv, Alone, Sound, NEW c \in Procs, Leave(c),
           UNCHANGED <<base, sidecar, staged, backups>>, sessions' \subseteq sessions
    PROVE  Sound'
<1>1. FilesSound'
  BY SameFiles DEF Sound
<1>2. pc'[c] = "out" /\ excl' \in {Nobody, c}
  BY DEF Leave, Sound, TypeInv, LocalTypes
<1>3. AsksWell(c)' /\ HoldsWell(c)'
  BY <1>2 DEF AsksWell, HoldsWell, Changing, Rekeying
<1> QED
  BY <1>1, <1>2, <1>3, OneOnly

LEMMA SoundInit == ASSUME Solitary, Init PROVE Sound
<1>1. First \in Passphrases /\ First \in Typed
  BY VaultAssumption DEF Typed
<1>2. PICK f \in Formats :
        /\ base = IF f = 0 THEN NoFile ELSE FirstKey(f)
        /\ sidecar = IF f = 0 THEN NoFile ELSE FirstSidecar(f)
  BY DEF Init
<1>3. f \in 0..3
  BY VaultAssumption
<1>4. CASE f = 0
  BY <1>2, <1>4 DEF Init, Sound, FilesSound, FilesFounding, AsksWell, HoldsWell, Changing, Rekeying
<1>5. CASE f # 0
  <2>1. FirstSidecar(f) \in Sidecars /\ FirstKey(f) \in Keys
    <3>1. Sidecar(1, 0, First, NoKey) \in Sidecars
      BY <1>1 DEF Sidecars, Sidecar
    <3>2. FirstKey(f) \in Keys
      BY <1>1, KeysAreKeys DEF FirstKey
    <3>3. f # 1 => Sidecar(f, 1, First, FirstKey(f)) \in Sidecars
      BY <1>1, <1>3, <1>5, <3>2, NewSidecar
    <3> QED
      BY <3>1, <3>2, <3>3 DEF FirstSidecar
  <2>2. FirstSidecar(f).format = f /\ FirstSidecar(f).pass = First
        /\ (f # 1 => FirstSidecar(f).key = FirstKey(f))
    BY <1>3, <1>5 DEF FirstSidecar, Sidecar
  <2>3. Genuine(FirstSidecar(f)) /\ Own(FirstSidecar(f)) = FirstKey(f)
    BY <1>1, <2>1, <2>2 DEF Genuine, Own, KeyFrom, FirstKey
  <2>4. FilesSound
    BY <1>2, <1>5, <2>1, <2>3, VaultAssumption DEF Init, FilesSound, FilesFounded, InPlace
  <2>5. \A c \in Procs : pc[c] = "out" /\ excl = Nobody
    BY DEF Init
  <2> QED
    BY <2>4, <2>5 DEF Sound, AsksWell, HoldsWell, Changing, Rekeying
<1> QED
  BY <1>4, <1>5

LEMMA SoundOpening ==
    ASSUME TypeInv, Solitary, Sound, NEW c \in Procs,
           \/ \E p \in Typed : StartOpen(c, p)
           \/ StartCached(c) \/ Read(c) \/ ReadStaged(c) \/ Upgrade(c) \/ Load(c)
    PROVE  Sound'
<1> USE DEF At, Goto, disk
<1> Alone /\ ~Mistakes
  BY DEF Solitary
<1>h. FilesSound /\ excl \in {Nobody, c} /\ AsksWell(c) /\ HoldsWell(c)
  BY DEF Sound
<1>t. pc \in [Procs -> Stages] /\ call \in [Procs -> [op : {"none", "open", "staged", "cached",
        "create", "change"}, pass : Typed, new : Typed]]
      /\ mem \in [Procs -> Sidecars \cup {NoFile}] /\ key \in [Procs -> Keys \cup {NoKey}]
      /\ vid \in [Procs -> Nat] /\ fresh \in Nat \ {0}
  BY DEF TypeInv, LocalTypes
<1>1. ASSUME NEW p \in Typed, StartOpen(c, p)
      PROVE  Sound'
  <2>1. /\ pc'[c] = "read" /\ call'[c].op = "open" /\ call'[c].pass = p
        /\ UNCHANGED <<base, sidecar, staged, sessions, backups, excl>>
    BY <1>1, <1>t DEF StartOpen, Start
  <2>2. sidecar # NoFile /\ sidecar.format = 1 => p = First
    BY <1>1 DEF StartOpen
  <2>3. FilesSound'
    BY <1>h, <2>1, SameFiles
  <2>4. AsksWell(c)' /\ HoldsWell(c)'
    BY <2>1, <2>2 DEF AsksWell, HoldsWell, Changing, Rekeying
  <2> QED
    BY <1>h, <2>1, <2>3, <2>4, OneOnly
<1>2. CASE StartCached(c)
  <2>1. /\ pc'[c] = "load" /\ call'[c].op = "cached"
        /\ UNCHANGED <<base, sidecar, staged, sessions, backups, excl>>
    BY <1>2, <1>t DEF StartCached, Start
  <2>2. FilesSound'
    BY <1>h, <2>1, SameFiles
  <2>3. AsksWell(c)' /\ HoldsWell(c)'
    BY <2>1 DEF AsksWell, HoldsWell, Changing, Rekeying
  <2> QED
    BY <1>h, <2>1, <2>2, <2>3, OneOnly
<1>3. CASE Read(c)
  <2> UNCHANGED <<base, sidecar, staged, sessions, backups>>
    BY <1>3 DEF Read
  <2>f. FilesSound'
    BY <1>h, SameFiles
  <2>1. CASE Refuse(c, "not_found")
    BY <2>1, Ends DEF Refuse
  <2>2. CASE /\ base # NoFile /\ sidecar # NoFile /\ Accepts(sidecar, call[c].pass)
             /\ Holding(c, sidecar, KeyFrom(sidecar, call[c].pass))
             /\ vid' = [vid EXCEPT ![c] = sidecar.id]
             /\ Goto(c, IF sidecar.format = 1 THEN "upgrade" ELSE "unlock")
             /\ UNCHANGED <<disk, excl, call, answer, fresh, calls>>
    <3>1. /\ pc'[c] = IF sidecar.format = 1 THEN "upgrade" ELSE "unlock"
          /\ key'[c] = KeyFrom(sidecar, call[c].pass) /\ vid'[c] = sidecar.id
      BY <1>t, <2>2 DEF Holding
    <3>2. Genuine(sidecar) /\ call[c].op = "open"
          /\ (sidecar.format = 1 => call[c].pass = First)
      BY <1>h, <1>3, <2>2 DEF FilesSound, FilesFounding, FilesFounded, AsksWell, Read
    <3>3. CASE sidecar.format = 1
      <4>1. pc'[c] = "upgrade" /\ key'[c] = Derived(First)
        BY <3>1, <3>2, <3>3 DEF KeyFrom
      <4>2. AsksWell(c)' /\ HoldsWell(c)'
        BY <2>2, <3>2, <3>3, <4>1 DEF AsksWell, HoldsWell, Changing, Rekeying
      <4> QED
        BY <1>h, <2>2, <2>f, <4>2, OneOnly
    <3>4. CASE sidecar.format # 1
      <4>1. pc'[c] = "unlock" /\ key'[c] = Own(sidecar) /\ vid'[c] # 0
        BY <2>2, <3>1, <3>2, <3>4, AcceptedIsOwn, GenuineIs
      <4>2. AsksWell(c)'
        BY <2>2, <3>2, <3>4, <4>1 DEF AsksWell, Own, KeyFrom, Accepts
      <4>3. HoldsWell(c)'
        BY <4>1 DEF HoldsWell, Changing, Rekeying
      <4> QED
        BY <1>h, <2>2, <2>f, <4>2, <4>3, OneOnly
    <3> QED
      BY <3>3, <3>4
  <2>3. CASE /\ base # NoFile /\ ~Accepts(sidecar, call[c].pass) /\ Goto(c, "readstaged")
             /\ UNCHANGED <<disk, excl, call, mem, key, vid, answer, fresh, calls>>
    <3>1. pc'[c] = "readstaged" /\ call[c].op = "open"
      BY <1>h, <1>t, <1>3, <2>3 DEF AsksWell, Read
    <3>2. AsksWell(c)' /\ HoldsWell(c)'
      BY <2>3, <3>1 DEF AsksWell, HoldsWell, Changing, Rekeying, Accepts
    <3> QED
      BY <1>h, <2>3, <2>f, <3>2, OneOnly
  <2> QED
    BY <1>3, <2>1, <2>2, <2>3 DEF Read
<1>4. CASE ReadStaged(c)
  <2> UNCHANGED <<base, sidecar, staged, sessions, backups>>
    BY <1>4 DEF ReadStaged
  <2>f. FilesSound'
    BY <1>h, SameFiles
  <2>1. CASE Refuse(c, "wrong") \/ Refuse(c, "interrupted")
    BY <2>1, Ends DEF Refuse
  <2>2. CASE /\ staged # NoFile /\ Accepts(staged, call[c].pass)
             /\ Holding(c, staged, KeyFrom(staged, call[c].pass))
             /\ vid' = [vid EXCEPT ![c] = staged.id]
             /\ call' = [call EXCEPT ![c].op = "staged"]
             /\ Goto(c, "unlock")
             /\ UNCHANGED <<disk, excl, answer, fresh, calls>>
    <3>1. Genuine(staged) /\ staged.format = 3 /\ base # NoFile
      BY <1>h, <1>4, <2>2
      DEF FilesSound, FilesFounding, FilesFounded, Interrupted, AsksWell, ReadStaged
    <3>2. /\ pc'[c] = "unlock" /\ call'[c].op = "staged" /\ vid'[c] = staged.id
          /\ key'[c] = staged.key
      BY <1>t, <2>2, <3>1 DEF Holding, KeyFrom
    <3>3. vid'[c] # 0
      BY <3>1, <3>2, GenuineIs
    <3>4. AsksWell(c)'
      BY <2>2, <3>1, <3>2 DEF AsksWell
    <3>5. HoldsWell(c)'
      BY <3>2, <3>3 DEF HoldsWell, Changing, Rekeying
    <3> QED
      BY <1>h, <2>2, <2>f, <3>4, <3>5, OneOnly
  <2> QED
    BY <1>4, <2>1, <2>2 DEF ReadStaged
<1>5. CASE Upgrade(c)
  <2> DEFINE s == Sidecar(2, fresh, First, key[c])
  <2>1. /\ base # NoFile /\ sidecar.format = 1 /\ key[c] = Derived(First)
        /\ call[c].op = "open" /\ call[c].pass = First
    BY <1>h, <1>5 DEF Upgrade, AsksWell
  <2>2. First \in Passphrases /\ First \in Typed /\ Derived(First) \in Keys
    BY VaultAssumption, KeysAreKeys DEF Typed
  <2>3. s \in Sidecars /\ s.format = 2 /\ s.pass = First /\ s.key = Derived(First)
    BY <1>t, <2>1, <2>2, NewSidecar
  <2>4. Genuine(s) /\ Own(s) = Derived(First) /\ Accepts(s, First)
    BY <2>2, <2>3 DEF Genuine, Own, KeyFrom, Accepts
  <2>5. /\ sidecar' = s /\ pc'[c] = "unlock" /\ vid'[c] = fresh /\ sessions' \subseteq sessions
        /\ UNCHANGED <<base, staged, backups, excl, call, key>>
    BY <1>5, <1>t DEF Upgrade, Forgotten
  <2>6. FilesFounded /\ staged = NoFile /\ base = Derived(First)
    <3>1. FilesFounded
      BY <1>h, <2>1 DEF FilesSound, FilesFounding
    <3>2. staged = NoFile
      BY <2>1, <3>1 DEF FilesFounded, Interrupted
    <3>3. base = Own(sidecar) /\ sidecar.pass = First
      BY <2>1, <3>1, <3>2 DEF FilesFounded, InPlace, Genuine
    <3> QED
      BY <2>1, <3>1, <3>2, <3>3 DEF Own, KeyFrom
  <2> HIDE DEF s
  <2>7. FilesSound'
    BY <1>h, <2>1, <2>4, <2>5, <2>6 DEF FilesSound, FilesFounded, InPlace
  <2>8. AsksWell(c)'
    BY <2>1, <2>3, <2>4, <2>5 DEF AsksWell
  <2>9. HoldsWell(c)'
    BY <1>t, <2>5 DEF HoldsWell, Changing, Rekeying
  <2> QED
    BY <1>h, <2>5, <2>7, <2>8, <2>9, OneOnly
<1>6. CASE Load(c)
  <2>1. CASE \E why : Refuse(c, why)
    <3>1. UNCHANGED <<base, sidecar, staged, backups>> /\ sessions' \subseteq sessions
      BY <1>6 DEF Load, Forgotten
    <3> QED
      BY <2>1, <3>1, Ends DEF Refuse
  <2>2. ASSUME NEW s \in sessions, sidecar # NoFile, s.id = sidecar.id, Verifies(sidecar, s.key),
               pc[c] = "load", Holding(c, sidecar, s.key),
               call' = [call EXCEPT ![c].pass = s.proof],
               vid' = [vid EXCEPT ![c] = sidecar.id], Goto(c, "unlock"),
               UNCHANGED <<disk, excl, answer, fresh, calls>>
        PROVE  Sound'
    <3>1. FilesFounded /\ s.id # 0
      BY <1>h, <2>2 DEF FilesSound, FilesFounding
    <3>2. Genuine(sidecar) /\ base # NoFile
      BY <3>1 DEF FilesFounded
    <3>3. sidecar.format # 1
      BY <2>2, <3>1, <3>2, VaultAssumption DEF Genuine, Sidecars
    <3>4. s.key = Own(sidecar)
      BY <2>2, <3>2, <3>3, GenuineIs DEF Verifies
    <3>5. /\ pc'[c] = "unlock" /\ call'[c].op = call[c].op /\ vid'[c] = sidecar.id
          /\ key'[c] = s.key
      BY <1>t, <2>2 DEF Holding
    <3>6. call[c].op = "cached"
      BY <1>h, <2>2 DEF AsksWell
    <3>7. FilesSound'
      BY <1>h, <2>2, SameFiles
    <3>8. AsksWell(c)'
      BY <2>2, <3>2, <3>3, <3>4, <3>5, <3>6 DEF AsksWell, Own, KeyFrom
    <3>9. HoldsWell(c)'
      BY <2>2, <3>1, <3>5 DEF HoldsWell, Changing, Rekeying
    <3> QED
      BY <1>h, <2>2, <3>7, <3>8, <3>9, OneOnly
  <2> QED
    BY <1>6, <2>1, <2>2 DEF Load
<1> QED
  BY <1>1, <1>2, <1>3, <1>4, <1>5, <1>6

LEMMA SoundOpened ==
    ASSUME TypeInv, Solitary, Sound, NEW c \in Procs,
           \/ Unlock(c) \/ Unlockable(c) \/ Clean(c) \/ Settle(c)
           \/ (c \in Changers /\ \E p \in Passphrases : StartCreate(c, p))
           \/ CheckSidecar(c) \/ WriteSidecar(c) \/ DiscardArtifacts(c)
    PROVE  Sound'
<1> USE DEF At, Goto, disk
<1> Alone /\ ~Errors
  BY DEF Solitary
<1>h. FilesSound /\ excl \in {Nobody, c} /\ AsksWell(c) /\ HoldsWell(c)
  BY DEF Sound
<1>t. pc \in [Procs -> Stages] /\ call \in [Procs -> [op : {"none", "open", "staged", "cached",
        "create", "change"}, pass : Typed, new : Typed]]
      /\ mem \in [Procs -> Sidecars \cup {NoFile}] /\ key \in [Procs -> Keys \cup {NoKey}]
      /\ vid \in [Procs -> Nat] /\ fresh \in Nat \ {0}
  BY DEF TypeInv, LocalTypes
(* A new vault: the key that is in hand is that of the sidecar just made.   *)
<1>c. ASSUME pc[c] = "unlock", call[c].op = "create"
      PROVE  /\ FilesFounding /\ Genuine(sidecar) /\ sidecar.format = 3
             /\ key[c] = sidecar.key /\ Unlocks(c)
  <2>1. base = NoFile /\ sidecar # NoFile /\ key[c] = sidecar.key
    BY <1>h, <1>c DEF AsksWell
  <2>2. FilesFounding
    BY <1>h, <2>1 DEF FilesSound, FilesFounded
  <2> QED
    BY <1>h, <2>1, <2>2 DEF FilesFounding, Unlocks, Busy
<1>1. CASE Unlock(c)
  <2>1. /\ pc[c] = "unlock" /\ base' = key[c] /\ base \in {NoFile, key[c]}
        /\ UNCHANGED <<sidecar, staged, sessions, backups, excl, call, mem, key, vid>>
    BY <1>1 DEF Unlock, Unlocks
  <2>v. vid[c] # 0
    BY <1>h, <2>1 DEF HoldsWell
  <2>2. CASE call[c].op = "create"
    <3>1. FilesFounding /\ Genuine(sidecar) /\ sidecar.format = 3 /\ key[c] = sidecar.key
      BY <1>c, <2>1, <2>2
    <3>2. pc'[c] = "open"
      BY <1>1, <1>t, <2>2 DEF Unlock, Answer
    <3>3. base' # NoFile /\ base' = Own(sidecar)
      BY <2>1, <3>1, GenuineIs
    <3>4. FilesFounded' /\ staged = NoFile
      BY <2>1, <3>1, <3>3 DEF FilesFounding, FilesFounded, InPlace
    <3>5. FilesSound'
      BY <1>h, <2>1, <3>4 DEF FilesSound
    <3>6. AsksWell(c)' /\ HoldsWell(c)'
      BY <2>1, <2>v, <3>1, <3>2, <3>3, <3>4 DEF AsksWell, HoldsWell, InPlace, Changing, Rekeying
    <3> QED
      BY <1>h, <2>1, <3>5, <3>6, OneOnly
  <2>3. CASE call[c].op \in {"open", "cached"}
    <3>1. base # NoFile /\ sidecar.format # 1 /\ key[c] = Own(sidecar)
      BY <1>h, <2>1, <2>3 DEF AsksWell
    <3>2. pc'[c] = "clean" /\ base' = base /\ base = key[c]
      BY <1>1, <1>t, <2>1, <2>3, <3>1 DEF Unlock
    <3>3. FilesSound'
      BY <1>h, <2>1, <3>2, SameFiles
    <3>4. AsksWell(c)' /\ HoldsWell(c)'
      BY <2>1, <2>v, <3>1, <3>2 DEF AsksWell, HoldsWell, InPlace, Changing, Rekeying
    <3> QED
      BY <1>h, <2>1, <3>3, <3>4, OneOnly
  <2>4. CASE call[c].op = "staged"
    <3>1. base # NoFile /\ staged # NoFile /\ key[c] = staged.key
      BY <1>h, <2>1, <2>4 DEF AsksWell
    <3>2. pc'[c] = "settle" /\ base' = base /\ base = key[c]
      BY <1>1, <1>t, <2>1, <2>4, <3>1 DEF Unlock
    <3>3. FilesSound'
      BY <1>h, <2>1, <3>2, SameFiles
    <3>4. AsksWell(c)' /\ HoldsWell(c)'
      BY <2>1, <2>v, <3>1, <3>2 DEF AsksWell, HoldsWell, Changing, Rekeying
    <3> QED
      BY <1>h, <2>1, <3>3, <3>4, OneOnly
  <2> QED
    BY <1>h, <2>1, <2>2, <2>3, <2>4 DEF AsksWell
<1>2. CASE Unlockable(c)
  <2>1. UNCHANGED <<base, sidecar, staged, backups, sessions>> /\ Leave(c)
    BY <1>2 DEF Unlockable, Refuse
  <2> QED
    BY <2>1, Ends
<1>3. CASE Clean(c)
  <2>1. /\ pc[c] = "clean" /\ pc'[c] = "open" /\ staged' = NoFile
        /\ UNCHANGED <<base, sidecar, sessions, backups, excl, key, vid>>
    BY <1>3, <1>t DEF Clean, Answer
  <2>2. base # NoFile /\ InPlace /\ key[c] = base /\ sidecar.format # 1 /\ vid[c] # 0
    BY <1>h, <2>1 DEF HoldsWell
  <2>3. FilesSound'
    BY <1>h, <2>1, <2>2 DEF FilesSound, FilesFounding, FilesFounded, InPlace
  <2>4. AsksWell(c)' /\ HoldsWell(c)'
    BY <2>1, <2>2 DEF AsksWell, HoldsWell, InPlace, Changing, Rekeying
  <2> QED
    BY <1>h, <2>1, <2>3, <2>4, OneOnly
<1>4. CASE Settle(c)
  <2>1. /\ pc[c] = "settle" /\ base # NoFile /\ staged # NoFile /\ base = staged.key
        /\ key[c] = base /\ vid[c] # 0
    BY <1>4, <1>h DEF Settle, HoldsWell
  <2>2. Genuine(staged) /\ staged.format = 3
    BY <1>h, <2>1 DEF FilesSound, FilesFounding, FilesFounded, Interrupted
  <2>3. /\ pc'[c] = "open" /\ sidecar' = staged /\ staged' = NoFile
        /\ UNCHANGED <<base, sessions, backups, excl, key, vid>>
    BY <1>4, <1>t, <2>1 DEF Settle, Answer
  <2>4. base' = Own(sidecar')
    BY <2>1, <2>2, <2>3, GenuineIs
  <2>5. FilesSound'
    BY <1>h, <2>1, <2>2, <2>3, <2>4 DEF FilesSound, FilesFounded, InPlace
  <2>6. AsksWell(c)' /\ HoldsWell(c)'
    BY <2>1, <2>2, <2>3, <2>4 DEF AsksWell, HoldsWell, InPlace, Changing, Rekeying
  <2> QED
    BY <1>h, <2>3, <2>5, <2>6, OneOnly
<1>5. ASSUME NEW p \in Passphrases, StartCreate(c, p)
      PROVE  Sound'
  <2>1. /\ pc'[c] = "create" /\ call'[c].op = "create" /\ call'[c].pass = p /\ base = NoFile
        /\ UNCHANGED <<base, sidecar, staged, sessions, backups, excl>>
    BY <1>5, <1>t DEF StartCreate, Start
  <2>2. FilesSound'
    BY <1>h, <2>1, SameFiles
  <2>3. AsksWell(c)' /\ HoldsWell(c)'
    BY <2>1 DEF AsksWell, HoldsWell, Changing, Rekeying
  <2> QED
    BY <1>h, <2>1, <2>2, <2>3, OneOnly
<1>6. CASE CheckSidecar(c)
  <2>1. CASE Refuse(c, "exists") /\ UNCHANGED disk
    BY <2>1, Ends DEF Refuse
  <2>2. CASE Goto(c, "write") /\ UNCHANGED <<disk, excl, call>>
    <3>1. pc'[c] = "write" /\ call[c].op = "create" /\ call[c].pass \in Passphrases /\ base = NoFile
      BY <1>h, <1>t, <1>6, <2>2 DEF CheckSidecar, AsksWell
    <3>2. FilesSound'
      BY <1>h, <2>2, SameFiles
    <3>3. AsksWell(c)' /\ HoldsWell(c)'
      BY <2>2, <3>1 DEF AsksWell, HoldsWell, Changing, Rekeying
    <3> QED
      BY <1>h, <2>2, <3>2, <3>3, OneOnly
  <2> QED
    BY <1>6, <2>1, <2>2 DEF CheckSidecar
<1>7. CASE WriteSidecar(c)
  <2> DEFINE s == Sidecar(3, fresh, call[c].pass, Master(fresh))
  <2>1. base = NoFile /\ call[c].op = "create" /\ call[c].pass \in Passphrases
    BY <1>h, <1>7 DEF WriteSidecar, AsksWell
  <2>2. FilesFounding
    BY <1>h, <2>1 DEF FilesSound, FilesFounded
  <2>3. s \in Sidecars /\ s.format = 3 /\ s.pass = call[c].pass
    <3>1. call[c].pass \in Typed /\ Master(fresh) \in Keys
      BY <1>t, KeysAreKeys
    <3> QED
      BY <1>t, <3>1, NewSidecar
  <2>4. Genuine(s) /\ s # NoFile
    BY <2>1, <2>3, VaultAssumption DEF Genuine
  <2>5. /\ sidecar' = s /\ pc'[c] = "unlock" /\ vid'[c] = fresh /\ key'[c] = s.key
        /\ UNCHANGED <<base, staged, sessions, backups, excl, call>>
    BY <1>7, <1>t DEF WriteSidecar, Holding
  <2> HIDE DEF s
  <2>6. FilesSound'
    BY <2>2, <2>3, <2>4, <2>5 DEF FilesSound, FilesFounding
  <2>7. AsksWell(c)'
    BY <2>1, <2>4, <2>5 DEF AsksWell
  <2>8. HoldsWell(c)'
    BY <1>t, <2>5 DEF HoldsWell, Changing, Rekeying
  <2> QED
    BY <1>h, <2>5, <2>6, <2>7, <2>8, OneOnly
<1>8. ~DiscardArtifacts(c)
  BY <1>c DEF DiscardArtifacts, MayFail
<1> QED
  BY <1>1, <1>2, <1>3, <1>4, <1>5, <1>6, <1>7, <1>8

LEMMA SoundUse ==
    ASSUME TypeInv, Solitary, Sound, NEW c \in Procs,
           \/ Remember(c) \/ Seal(c) \/ OpenMailbox(c) \/ Archive(c) \/ Close(c) \/ Crash(c)
           \/ Lock \/ \E s \in sessions : Expire(s)
    PROVE  Sound'
<1> USE DEF At, Goto, disk, local
<1> Alone
  BY DEF Solitary
<1>h. FilesSound /\ excl \in {Nobody, c} /\ AsksWell(c) /\ HoldsWell(c)
  BY DEF Sound
(* Nothing that the process knows of the files changes.                     *)
<1>k. ASSUME UNCHANGED <<base, sidecar, staged, rekeyed, excl, local>>, FilesSound'
      PROVE  Sound'
  <2>1. AsksWell(c)'
    BY <1>h, <1>k DEF AsksWell, Accepts
  <2>2. HoldsWell(c)'
    BY <1>h, <1>k DEF HoldsWell, InPlace, Changing, Rekeying
  <2> QED
    BY <1>h, <1>k, <2>1, <2>2, OneOnly
<1>1. CASE Remember(c)
  <2>1. vid[c] # 0 /\ base # NoFile
    BY <1>h, <1>1 DEF HoldsWell, Remember
  <2>2. FilesSound'
    <3>1. \A s \in sessions' : s.id # 0
      BY <1>h, <1>1, <2>1 DEF Remember, Forgotten, FilesSound
    <3>2. FilesFounded
      BY <1>h, <2>1 DEF FilesSound, FilesFounding
    <3> QED
      BY <1>h, <1>1, <3>1, <3>2 DEF Remember, FilesSound, FilesFounded, InPlace, Interrupted
  <2> QED
    BY <1>1, <1>k, <2>2 DEF Remember
<1>2. CASE Seal(c) \/ OpenMailbox(c)
  <2>1. UNCHANGED <<base, sidecar, staged, rekeyed, excl, local, backups, sessions>>
    BY <1>2 DEF Seal, OpenMailbox
  <2> QED
    BY <1>h, <1>k, <2>1, SameFiles
<1>3. CASE Archive(c)
  <2>1. base # NoFile /\ InPlace /\ key[c] = base
    BY <1>h, <1>3 DEF HoldsWell, Archive
  <2>2. FilesFounded
    BY <1>h, <2>1 DEF FilesSound, FilesFounding
  <2>3. CopyOf(c).base = Own(CopyOf(c).sidecar) /\ Genuine(CopyOf(c).sidecar)
    BY <2>1, <2>2 DEF CopyOf, InPlace, FilesFounded
  <2>4. FilesSound'
    BY <1>h, <1>3, <2>2, <2>3 DEF Archive, FilesSound, FilesFounded, InPlace, Interrupted
  <2> QED
    BY <1>3, <1>k, <2>4 DEF Archive
<1>4. CASE Close(c) \/ Crash(c)
  <2>1. Leave(c) /\ UNCHANGED <<base, sidecar, staged, backups, sessions>>
    BY <1>4 DEF Close, Crash
  <2> QED
    BY <2>1, Ends
<1>5. CASE Lock \/ \E s \in sessions : Expire(s)
  <2>1. /\ UNCHANGED <<base, sidecar, staged, rekeyed, excl, local, backups>>
        /\ sessions' \subseteq sessions
    BY <1>5 DEF Lock, Expire, Forgotten
  <2> QED
    BY <1>h, <1>k, <2>1, SameFiles
<1> QED
  BY <1>1, <1>2, <1>3, <1>4, <1>5

LEMMA SoundChange ==
    ASSUME TypeInv, Solitary, Sound, NEW c \in Procs,
           \/ (c \in Changers /\ \E p \in Typed, new \in Passphrases : StartChange(c, p, new))
           \/ Prove(c) \/ BackUp(c, "wrapbackup", "rewrap") \/ Rewrap(c) \/ RefuseRewrap(c)
           \/ ForgetSession(c) \/ Claim(c) \/ BackUp(c, "backup", "stage")
    PROVE  Sound'
<1> USE DEF At, Goto, disk
<1> Alone
  BY DEF Solitary
<1>h. FilesSound /\ excl \in {Nobody, c} /\ AsksWell(c) /\ HoldsWell(c)
  BY DEF Sound
<1>t. pc \in [Procs -> Stages] /\ call \in [Procs -> [op : {"none", "open", "staged", "cached",
        "create", "change"}, pass : Typed, new : Typed]]
      /\ mem \in [Procs -> Sidecars \cup {NoFile}] /\ key \in [Procs -> Keys \cup {NoKey}]
      /\ vid \in [Procs -> Nat] /\ fresh \in Nat \ {0}
  BY DEF TypeInv, LocalTypes
(* While the vault is open its files are in place, and none is staged.      *)
<1>o. ASSUME pc[c] \in {"open", "prove", "wrapbackup", "rewrap", "forget", "claim", "backup",
                        "stage"}
      PROVE  /\ base # NoFile /\ InPlace /\ staged = NoFile /\ key[c] = base
             /\ sidecar.format \in {2, 3} /\ vid[c] # 0 /\ FilesFounded /\ Genuine(sidecar)
  <2>1. /\ base # NoFile /\ InPlace /\ staged = NoFile /\ key[c] = base /\ sidecar.format # 1
        /\ vid[c] # 0
    BY <1>h, <1>o DEF HoldsWell, Changing
  <2>2. FilesFounded
    BY <1>h, <2>1 DEF FilesSound, FilesFounding
  <2>3. Genuine(sidecar)
    BY <2>2 DEF FilesFounded
  <2> QED
    BY <2>1, <2>2, <2>3, GenuineIs
<1>1. ASSUME NEW p \in Typed, NEW new \in Passphrases, StartChange(c, p, new)
      PROVE  Sound'
  <2>1. /\ pc[c] = "open" /\ pc'[c] = "prove" /\ call'[c].new = new
        /\ UNCHANGED <<base, sidecar, staged, sessions, backups, excl, key, vid>>
    BY <1>1, <1>t DEF StartChange, Start
  <2>2. FilesSound'
    BY <1>h, <2>1, SameFiles
  <2>3. AsksWell(c)' /\ HoldsWell(c)'
    BY <1>o, <2>1 DEF AsksWell, HoldsWell, InPlace, Changing, Rekeying
  <2> QED
    BY <1>h, <2>1, <2>2, <2>3, OneOnly
<1>2. CASE Prove(c)
  <2>o. /\ base # NoFile /\ InPlace /\ staged = NoFile /\ key[c] = base /\ Genuine(sidecar)
        /\ sidecar.format \in {2, 3} /\ vid[c] # 0 /\ call[c].new \in Passphrases
    BY <1>2, <1>h, <1>o DEF Prove, HoldsWell
  <2>1. CASE \E why : Refuse(c, why) /\ UNCHANGED disk
    BY <2>1, Ends DEF Refuse
  <2>2. CASE /\ Accepts(sidecar, call[c].pass)
             /\ sidecar.format < 3 => call[c].new # call[c].pass
             /\ mem' = [mem EXCEPT ![c] = sidecar]
             /\ Goto(c, IF sidecar.format = 3 THEN "wrapbackup" ELSE "claim")
             /\ UNCHANGED <<disk, excl, call, key, vid, answer>>
    <3>1. call[c].pass = sidecar.pass
      BY <2>o, <2>2, AcceptedIsOwn
    <3>2. /\ pc'[c] = IF sidecar.format = 3 THEN "wrapbackup" ELSE "claim"
          /\ mem'[c] = sidecar
      BY <1>t, <2>2
    <3>3. FilesSound'
      BY <1>h, <2>2, SameFiles
    <3>4. AsksWell(c)' /\ HoldsWell(c)'
      BY <2>o, <2>2, <3>1, <3>2 DEF AsksWell, HoldsWell, InPlace, Changing, Rekeying
    <3> QED
      BY <1>h, <2>2, <3>3, <3>4, OneOnly
  <2> QED
    BY <1>2, <2>1, <2>2 DEF Prove
<1>3. ASSUME NEW from \in {"wrapbackup", "backup"}, NEW to, to = (IF from = "backup" THEN "stage" ELSE "rewrap"),
             BackUp(c, from, to)
      PROVE  Sound'
  <2>o. /\ base # NoFile /\ InPlace /\ staged = NoFile /\ key[c] = base /\ Genuine(sidecar)
        /\ FilesFounded /\ pc[c] = from
    BY <1>3, <1>o DEF BackUp
  <2>1. CASE Refuse(c, "error") /\ UNCHANGED disk
    BY <2>1, Ends DEF Refuse
  <2>2. CASE /\ backups' = backups \cup {CopyOf(c)}
             /\ Goto(c, to)
             /\ UNCHANGED <<base, sidecar, staged, rekeyed, receipts, mailbox, sessions, excl,
                            call, mem, key, vid, answer>>
    <3>1. CopyOf(c).base = Own(CopyOf(c).sidecar) /\ Genuine(CopyOf(c).sidecar)
      BY <2>o DEF CopyOf, InPlace
    <3>2. FilesSound'
      BY <1>h, <2>o, <2>2, <3>1 DEF FilesSound, FilesFounded, InPlace, Interrupted
    <3>3. pc'[c] = to
      BY <1>t, <2>2
    <3>4. AsksWell(c)' /\ HoldsWell(c)'
      BY <1>h, <1>3, <2>o, <2>2, <3>3 DEF AsksWell, HoldsWell, InPlace, Changing, Rekeying
    <3> QED
      BY <1>h, <2>2, <3>2, <3>4, OneOnly
  <2> QED
    BY <1>3, <2>1, <2>2 DEF BackUp
<1>4. CASE Rewrap(c)
  <2> DEFINE s == Sidecar(3, sidecar.id, call[c].new, sidecar.key)
  <2>1. /\ mem[c] = sidecar /\ sidecar.format = 3 /\ call[c].new \in Passphrases
        /\ base # NoFile /\ InPlace /\ staged = NoFile /\ key[c] = base
        /\ Genuine(sidecar) /\ vid[c] # 0 /\ pc[c] = "rewrap"
    BY <1>h, <1>4, <1>o DEF Rewrap, HoldsWell, Changing
  <2>2. s \in Sidecars /\ s.format = 3 /\ s.pass = call[c].new /\ s.key = sidecar.key
    <3>1. sidecar.id \in Nat \ {0} /\ sidecar.key \in Keys /\ call[c].new \in Typed
      BY <1>t, <2>1, SidecarParts, GenuineIs
    <3> QED
      BY <3>1, NewSidecar
  <2>3. Genuine(s) /\ Own(s) = Own(sidecar)
    BY <2>1, <2>2 DEF Genuine, Own, KeyFrom
  <2>4. /\ sidecar' = s /\ pc'[c] = "forget"
        /\ UNCHANGED <<base, staged, sessions, backups, excl, call, key, vid>>
    BY <1>4, <1>t, <2>1 DEF Rewrap
  <2> HIDE DEF s
  <2>5. FilesSound'
    BY <1>h, <2>1, <2>3, <2>4 DEF FilesSound, FilesFounded, InPlace
  <2>6. AsksWell(c)' /\ HoldsWell(c)'
    BY <2>1, <2>2, <2>3, <2>4 DEF AsksWell, HoldsWell, InPlace, Changing, Rekeying
  <2> QED
    BY <1>h, <2>4, <2>5, <2>6, OneOnly
<1>5. CASE RefuseRewrap(c)
  <2>1. Leave(c) /\ UNCHANGED disk
    BY <1>5 DEF RefuseRewrap, Refuse
  <2> QED
    BY <2>1, Ends
<1>6. CASE ForgetSession(c)
  <2>1. /\ pc[c] = "forget" /\ pc'[c] = "open" /\ sessions' \subseteq sessions
        /\ UNCHANGED <<base, sidecar, staged, backups, excl, key, vid>>
    BY <1>6, <1>t DEF ForgetSession, Answer, Forgotten
  <2>2. FilesSound'
    BY <1>h, <2>1, SameFiles
  <2>3. AsksWell(c)' /\ HoldsWell(c)'
    BY <1>o, <2>1 DEF AsksWell, HoldsWell, InPlace, Changing, Rekeying
  <2> QED
    BY <1>h, <2>1, <2>2, <2>3, OneOnly
<1>7. CASE Claim(c)
  <2>1. CASE Refuse(c, "busy") /\ UNCHANGED disk
    BY <2>1, Ends DEF Refuse
  <2>2. CASE excl' = c /\ Goto(c, "backup") /\ UNCHANGED <<disk, call, mem, key, vid, answer>>
    <3>1. pc[c] = "claim" /\ pc'[c] = "backup"
      BY <1>7, <1>t, <2>2 DEF Claim
    <3>2. FilesSound'
      BY <1>h, <2>2, SameFiles
    <3>3. AsksWell(c)' /\ HoldsWell(c)'
      BY <1>h, <1>o, <2>2, <3>1 DEF AsksWell, HoldsWell, InPlace, Changing, Rekeying
    <3> QED
      BY <2>2, <3>2, <3>3, OneOnly
  <2> QED
    BY <1>7, <2>1, <2>2 DEF Claim
<1> QED
  BY <1>1, <1>2, <1>3, <1>4, <1>5, <1>6, <1>7

LEMMA SoundRekey ==
    ASSUME TypeInv, Solitary, Sound, NEW c \in Procs,
           \/ Stage(c) \/ Copy(c) \/ Disconnect(c) \/ SwapBase(c) \/ CommitStaged(c)
           \/ Reopen(c) \/ Abandon(c)
    PROVE  Sound'
<1> USE DEF At, Goto, disk
<1> Alone /\ ~Errors
  BY DEF Solitary
<1>h. FilesSound /\ excl \in {Nobody, c} /\ AsksWell(c) /\ HoldsWell(c)
  BY DEF Sound
<1>t. pc \in [Procs -> Stages] /\ call \in [Procs -> [op : {"none", "open", "staged", "cached",
        "create", "change"}, pass : Typed, new : Typed]]
      /\ mem \in [Procs -> Sidecars \cup {NoFile}] /\ key \in [Procs -> Keys \cup {NoKey}]
      /\ vid \in [Procs -> Nat] /\ fresh \in Nat \ {0}
  BY DEF TypeInv, LocalTypes
<1>f. ASSUME pc[c] \in {"stage"} \cup Rekeying
      PROVE  /\ base # NoFile /\ vid[c] # 0 /\ FilesFounded /\ Genuine(sidecar)
             /\ call[c].new \in Passphrases
             /\ staged # NoFile => Interrupted
  <2>1. base # NoFile /\ vid[c] # 0 /\ call[c].new \in Passphrases
    BY <1>h, <1>f DEF HoldsWell, Changing, Rekeying
  <2>2. FilesFounded
    BY <1>h, <2>1 DEF FilesSound, FilesFounding
  <2> QED
    BY <2>1, <2>2 DEF FilesFounded
<1>1. CASE Stage(c)
  <2> DEFINE s == Sidecar(3, sidecar.id, call[c].new, Master(fresh))
  <2>1. /\ pc[c] = "stage" /\ mem[c] = sidecar /\ sidecar.format = 2 /\ call[c].new # sidecar.pass
        /\ InPlace /\ staged = NoFile
    BY <1>h, <1>1 DEF Stage, HoldsWell
  <2>2. Genuine(sidecar) /\ base # NoFile /\ vid[c] # 0 /\ call[c].new \in Passphrases
    BY <1>f, <2>1
  <2>3. s \in Sidecars /\ s.format = 3 /\ s.pass = call[c].new
    <3>1. sidecar.id \in Nat \ {0} /\ Master(fresh) \in Keys /\ call[c].new \in Typed
      BY <1>t, <2>1, <2>2, SidecarParts, GenuineIs, KeysAreKeys
    <3> QED
      BY <3>1, NewSidecar
  <2>4. Genuine(s)
    BY <2>2, <2>3 DEF Genuine
  <2>5. /\ staged' = s /\ mem'[c] = s /\ pc'[c] = "copy"
        /\ UNCHANGED <<base, sidecar, sessions, backups, excl, call, vid>>
    BY <1>1, <1>t, <2>1 DEF Stage
  <2> HIDE DEF s
  <2>6. FilesSound'
    BY <1>h, <2>1, <2>2, <2>3, <2>4, <2>5
    DEF FilesSound, FilesFounding, FilesFounded, InPlace, Interrupted
  <2>7. AsksWell(c)' /\ HoldsWell(c)'
    BY <2>1, <2>2, <2>3, <2>5 DEF AsksWell, HoldsWell, InPlace, Changing, Rekeying
  <2> QED
    BY <1>h, <2>5, <2>6, <2>7, OneOnly
<1>2. CASE Copy(c)
  <2>1. /\ pc[c] = "copy" /\ pc'[c] = "close" /\ rekeyed' = mem[c].key
        /\ UNCHANGED <<base, sidecar, staged, sessions, backups, excl, call, mem, vid>>
    BY <1>2, <1>t DEF Copy
  <2>2. FilesSound'
    BY <1>h, <2>1, SameFiles
  <2>3. AsksWell(c)' /\ HoldsWell(c)'
    BY <1>h, <2>1 DEF AsksWell, HoldsWell, InPlace, Changing, Rekeying
  <2> QED
    BY <1>h, <2>1, <2>2, <2>3, OneOnly
<1>3. CASE Disconnect(c)
  <2>1. /\ pc[c] = "close" /\ pc'[c] = "swap" /\ excl' = Nobody
        /\ UNCHANGED <<base, sidecar, staged, rekeyed, sessions, backups, call, mem, vid>>
    BY <1>3, <1>t DEF Disconnect
  <2>2. FilesSound'
    BY <1>h, <2>1, SameFiles
  <2>3. AsksWell(c)' /\ HoldsWell(c)'
    BY <1>h, <2>1 DEF AsksWell, HoldsWell, InPlace, Changing, Rekeying
  <2> QED
    BY <2>1, <2>2, <2>3, OneOnly
<1>4. CASE SwapBase(c)
  <2>1. /\ pc[c] = "swap" /\ pc'[c] = "commit" /\ base' = rekeyed /\ rekeyed # NoFile
        /\ UNCHANGED <<sidecar, staged, sessions, backups, excl, call, mem, vid>>
    BY <1>4, <1>t DEF SwapBase
  <2>2. /\ staged = mem[c] /\ rekeyed = mem[c].key /\ mem[c].pass = call[c].new
        /\ mem[c] \in Sidecars
    BY <1>h, <2>1 DEF HoldsWell, Rekeying, TypeInv, HoldsInHand, MemStages
  <2>3. staged # NoFile /\ base' # NoFile /\ base' = staged.key
    BY <2>1, <2>2, VaultAssumption
  <2>4. Interrupted /\ FilesFounded
    BY <1>f, <2>1, <2>3 DEF Rekeying
  <2>5. FilesSound'
    BY <1>h, <2>1, <2>3, <2>4 DEF FilesSound, FilesFounded, Interrupted
  <2>6. AsksWell(c)' /\ HoldsWell(c)'
    BY <1>h, <2>1, <2>2, <2>3 DEF AsksWell, HoldsWell, Changing, Rekeying
  <2> QED
    BY <1>h, <2>1, <2>5, <2>6, OneOnly
<1>5. CASE CommitStaged(c)
  <2>1. /\ pc[c] = "commit" /\ pc'[c] = "reopen" /\ sidecar' = staged /\ staged # NoFile
        /\ staged' = NoFile
        /\ UNCHANGED <<base, sessions, backups, excl, call, mem, vid>>
    BY <1>5, <1>t DEF CommitStaged
  <2>2. staged = mem[c] /\ base = mem[c].key /\ mem[c].pass = call[c].new
    BY <1>h, <2>1 DEF HoldsWell, Rekeying
  <2>3. Genuine(staged) /\ staged.format = 3 /\ base # NoFile /\ vid[c] # 0
        /\ call[c].new \in Passphrases
    BY <1>f, <2>1 DEF Rekeying, Interrupted
  <2>4. base' = Own(sidecar')
    BY <2>1, <2>2, <2>3, GenuineIs
  <2>5. FilesSound'
    BY <1>h, <2>1, <2>3, <2>4 DEF FilesSound, FilesFounded, InPlace
  <2>6. AsksWell(c)' /\ HoldsWell(c)'
    BY <2>1, <2>2, <2>3, <2>4 DEF AsksWell, HoldsWell, InPlace, Changing, Rekeying
  <2> QED
    BY <1>h, <2>1, <2>5, <2>6, OneOnly
<1>6. CASE Reopen(c)
  <2>1. /\ pc[c] = "reopen" /\ pc'[c] = "forget" /\ key'[c] = mem[c].key
        /\ UNCHANGED <<base, sidecar, staged, sessions, backups, excl, call, mem, vid>>
    BY <1>6, <1>t DEF Reopen
  <2>2. /\ InPlace /\ staged = NoFile /\ sidecar = mem[c] /\ base = mem[c].key
        /\ mem[c].pass = call[c].new /\ mem[c].format = 3
    BY <1>h, <2>1 DEF HoldsWell, Rekeying, TypeInv, HoldsInHand, MasterStages
  <2>3. base # NoFile /\ vid[c] # 0 /\ call[c].new \in Passphrases
    BY <1>f, <2>1 DEF Rekeying
  <2>4. FilesSound'
    BY <1>h, <2>1, SameFiles
  <2>5. AsksWell(c)' /\ HoldsWell(c)'
    BY <2>1, <2>2, <2>3 DEF AsksWell, HoldsWell, InPlace, Changing, Rekeying
  <2> QED
    BY <1>h, <2>1, <2>4, <2>5, OneOnly
(* No step of a change fails: each finds what the one before it left.       *)
<1>7. ~Abandon(c)
  <2>1. pc[c] = "stage" => mem[c].format # 1
    BY <1>h DEF HoldsWell
  <2>2. pc[c] = "swap" => rekeyed # NoFile
    <3> SUFFICES ASSUME pc[c] = "swap" PROVE rekeyed # NoFile
      OBVIOUS
    <3>1. rekeyed = mem[c].key /\ mem[c] \in Sidecars /\ mem[c].format = 3
      BY <1>h DEF HoldsWell, TypeInv, HoldsInHand, MemStages, MasterStages
    <3> QED
      BY <3>1, SidecarParts, VaultAssumption
  <2>3. pc[c] = "commit" => staged # NoFile
    <3> SUFFICES ASSUME pc[c] = "commit" PROVE staged # NoFile
      OBVIOUS
    <3>1. staged = mem[c] /\ mem[c] \in Sidecars
      BY <1>h DEF HoldsWell, TypeInv, HoldsInHand, MemStages
    <3> QED
      BY <3>1, VaultAssumption
  <2>4. pc[c] = "reopen" => base = mem[c].key
    BY <1>h DEF HoldsWell
  <2> QED
    BY <1>h, <2>1, <2>2, <2>3, <2>4 DEF Abandon, MayFail, Busy
<1> QED
  BY <1>1, <1>2, <1>3, <1>4, <1>5, <1>6, <1>7

LEMMA SoundStep == ASSUME TypeInv, Solitary, Sound, Next PROVE Sound'
<1>1. ASSUME NEW c \in Procs, Progress(c)
      PROVE  Sound'
  BY <1>1, SoundOpening, SoundOpened, SoundChange, SoundRekey DEF Progress
<1>2. ASSUME NEW c \in Procs,
             \/ \E p \in Typed : StartOpen(c, p)
             \/ StartCached(c) \/ Remember(c) \/ Seal(c) \/ OpenMailbox(c) \/ Archive(c)
             \/ Close(c) \/ Crash(c)
      PROVE  Sound'
  BY <1>2, SoundOpening, SoundUse
<1>3. ASSUME NEW c \in Changers, NEW new \in Passphrases,
             StartCreate(c, new) \/ \E p \in Typed : StartChange(c, p, new)
      PROVE  Sound'
  <2>1. c \in Procs
    BY VaultAssumption
  <2> QED
    BY <1>3, <2>1, SoundOpened, SoundChange
<1>4. CASE Lock \/ \E s \in sessions : Expire(s)
  <2>1. CASE Procs = {}
    <3>1. UNCHANGED <<base, sidecar, staged, backups>> /\ sessions' \subseteq sessions
      BY <1>4 DEF Lock, Expire, Forgotten
    <3>2. FilesSound'
      BY <3>1, SameFiles DEF Sound
    <3> QED
      BY <2>1, <3>2 DEF Sound
  <2>2. ASSUME NEW c \in Procs
        PROVE  Sound'
    BY <1>4, SoundUse
  <2> QED
    BY <2>1, <2>2
<1> QED
  BY <1>1, <1>2, <1>3, <1>4 DEF Next, Step

(* The vault of one process, of any format: created, upgraded, encrypted    *)
(* anew, and left at any point by a process that dies.                      *)
THEOREM SolitaryInvariance == ASSUME Solitary PROVE Spec => [](TypeInv /\ Sound)
<1>1. Init => TypeInv /\ Sound
  BY TypeInit, SoundInit
<1>2. TypeInv /\ Sound /\ [Next]_vars => (TypeInv /\ Sound)'
  <2>1. TypeInv /\ Sound /\ Next => (TypeInv /\ Sound)'
    BY TypeStep, SoundStep
  <2>2. TypeInv /\ UNCHANGED vars => TypeInv'
    BY DEF vars, disk, local, TypeInv, DiskTypes, LocalTypes, HoldsInHand
  <2>3. Sound /\ UNCHANGED vars => Sound'
    <3> SUFFICES ASSUME Sound, UNCHANGED vars PROVE Sound'
      OBVIOUS
    <3>1. FilesSound'
      BY SameFiles DEF Sound, vars, disk
    <3>2. ASSUME NEW c \in Procs
          PROVE  excl' \in {Nobody, c} /\ AsksWell(c)' /\ HoldsWell(c)'
      BY DEF Sound, vars, disk, local, AsksWell, HoldsWell, InPlace, Accepts
    <3> QED
      BY <3>1, <3>2 DEF Sound
  <2> QED
    BY <2>1, <2>2, <2>3
<1> QED
  BY <1>1, <1>2, PTL DEF Spec

(* Some passphrase of its users opens the vault, wherever a creation, an    *)
(* upgrade or a re-encryption was cut short.                                *)
THEOREM SolitaryKeysRetrievable == ASSUME Solitary PROVE Spec => []KeysRetrievable
<1>1. Sound => KeysRetrievable
  <2> SUFFICES ASSUME Sound, base # NoFile PROVE \E p \in Passphrases : Opens(p)
    BY DEF KeysRetrievable
  <2>1. FilesFounded
    BY DEF Sound, FilesSound, FilesFounding
  <2>2. Genuine(sidecar) /\ sidecar # NoFile
    BY <2>1, GenuineIs DEF FilesFounded
  <2>3. CASE InPlace
    <3>1. Opens(sidecar.pass) /\ sidecar.pass \in Passphrases
      BY <2>2, <2>3, GenuineIs DEF Opens, InPlace, Own
    <3> QED
      BY <3>1
  <2>4. CASE ~InPlace
    <3>1. /\ staged # NoFile /\ base = staged.key /\ Genuine(staged) /\ staged.format = 3
          /\ sidecar.format = 2 /\ staged.pass # sidecar.pass
      BY <2>1, <2>4 DEF FilesFounded, Interrupted
    <3>2. ~Accepts(sidecar, staged.pass)
      BY <2>2, <3>1, AcceptedIsOwn
    <3>3. Accepts(staged, staged.pass) /\ KeyFrom(staged, staged.pass) = base
      BY <3>1, GenuineIs DEF KeyFrom
    <3>4. Opens(staged.pass) /\ staged.pass \in Passphrases
      BY <2>2, <3>1, <3>2, <3>3, GenuineIs DEF Opens
    <3> QED
      BY <3>4
  <2> QED
    BY <2>3, <2>4
<1> QED
  BY <1>1, SolitaryInvariance, PTL

(* The process that has the vault open holds the key of the file, after a   *)
(* re-encryption too.                                                       *)
THEOREM SolitaryConnections == ASSUME Solitary PROVE Spec => []NoStaleConnection
<1>1. Sound => NoStaleConnection
  BY DEF Sound, HoldsWell, NoStaleConnection, At
<1> QED
  BY <1>1, SolitaryInvariance, PTL

(* Every backup opens with the passphrase of the day it was made.           *)
THEOREM SolitaryBackups == ASSUME Solitary PROVE Spec => []BackupsOpen
<1>1. Sound => BackupsOpen
  <2> SUFFICES ASSUME Sound, NEW b \in backups
               PROVE  \E p \in Passphrases : Accepts(b.sidecar, p) /\ KeyFrom(b.sidecar, p) = b.base
    BY DEF BackupsOpen
  <2>1. Genuine(b.sidecar) /\ b.base = Own(b.sidecar)
    BY DEF Sound, FilesSound
  <2>2. b.sidecar.pass \in Passphrases /\ Accepts(b.sidecar, b.sidecar.pass)
    BY <2>1, GenuineIs
  <2> QED
    BY <2>1, <2>2 DEF Own
<1> QED
  BY <1>1, SolitaryInvariance, PTL

(* A change that is acknowledged is in force, whether the master key was    *)
(* sealed again or the database encrypted anew.                             *)
THEOREM SolitaryChangeHolds == ASSUME Solitary PROVE Spec => ChangeHolds
<1>1. TypeInv /\ Sound /\ (TypeInv /\ Sound)' /\ [Next]_vars => [InForceOnceTold]_vars
  <2> SUFFICES ASSUME TypeInv, Sound, Sound', Next, NEW c \in Procs,
                      answer[c] # "changed", answer'[c] = "changed",
                      NEW p \in Passphrases
               PROVE  Opens(p)' <=> p = call[c].new
    BY DEF InForceOnceTold
  <2>1. ForgetSession(c)
    BY Attribution DEF Attributed
  <2>2. pc[c] = "forget" /\ UNCHANGED <<base, sidecar, staged>>
    BY <2>1 DEF ForgetSession, At
  <2>3. /\ base # NoFile /\ InPlace /\ staged = NoFile /\ sidecar.format = 3
        /\ sidecar.pass = call[c].new
    BY <2>2 DEF Sound, HoldsWell
  <2>4. Genuine(sidecar) /\ sidecar # NoFile
    BY <2>3, GenuineIs DEF Sound, FilesSound, FilesFounding, FilesFounded
  <2>5. Accepts(sidecar, p) <=> p = call[c].new
    BY <2>3, <2>4, AcceptedIsOwn
  <2>6. Opens(p) <=> p = call[c].new
    BY <2>3, <2>4, <2>5, AcceptedIsOwn DEF Opens, InPlace
  <2>7. Opens(p)' <=> Opens(p)
    BY <2>2 DEF Opens, Accepts
  <2> QED
    BY <2>6, <2>7
<1> QED
  BY <1>1, SolitaryInvariance, PTL DEF Spec, ChangeHolds

(* Who asks with a right passphrase is an opening by passphrase.            *)
AsksRight == \A c \in right : /\ c \in Procs /\ pc[c] \in Asking
                              /\ call[c].op = "open" /\ Opens(call[c].pass)

(* A right passphrase is never answered "wrong": neither by the sidecar of  *)
(* before an interrupted change, nor by that of after.                      *)
THEOREM SolitaryRightIsNotWrong == ASSUME Solitary PROVE Spec => RightIsNotWrong
<1> DEFINE A == \A c \in right : answer'[c] # "wrong"
<1>1. Init => AsksRight /\ \A c \in right : answer[c] # "wrong"
  BY DEF Init, AsksRight
<1> DEFINE I == AsksRight /\ \A c \in right : answer[c] # "wrong"
<1>2. TypeInv /\ Sound /\ I /\ [Next]_vars => I' /\ [A]_vars
  <2>1. ASSUME TypeInv, Sound, I, Next
        PROVE  I' /\ A
    <3>1. ASSUME NEW c \in right PROVE answer'[c] # "wrong"
      <4>1. /\ c \in Procs /\ pc[c] \in Asking /\ call[c].op = "open" /\ Opens(call[c].pass)
            /\ answer[c] # "wrong" /\ AsksWell(c)
        BY <2>1 DEF AsksRight, Sound
      <4>2. SUFFICES ASSUME ReadStaged(c) \/ Unlockable(c) \/ Prove(c), answer'[c] = "wrong"
                     PROVE  FALSE
        BY <2>1, <4>1, Attribution DEF Attributed
      <4>3. CASE ReadStaged(c)
        <5>1. ~Accepts(sidecar, call[c].pass)
          BY <4>1, <4>3 DEF ReadStaged, At, AsksWell
        <5>2. staged # NoFile /\ Accepts(staged, call[c].pass)
          BY <4>1, <5>1 DEF Opens
        <5>3. answer'[c] = answer[c]
          BY <4>3, <5>2 DEF ReadStaged
        <5> QED
          BY <4>1, <4>2, <5>3
      <4>4. CASE Unlockable(c)
        <5>1. /\ base # NoFile /\ Accepts(sidecar, call[c].pass) /\ key[c] = Own(sidecar)
              /\ sidecar.format # 1
          BY <4>1, <4>4 DEF Unlockable, At, AsksWell
        <5>2. Genuine(sidecar)
          BY <2>1, <5>1 DEF Sound, FilesSound, FilesFounding, FilesFounded
        <5>3. base = key[c]
          BY <4>1, <5>1, <5>2, AcceptedIsOwn DEF Opens
        <5>4. excl \in {Nobody, c}
          BY <2>1, <4>1 DEF Sound
        <5> QED
          BY <4>4, <5>3, <5>4 DEF Unlockable, Unlocks, Busy
      <4>5. CASE Prove(c)
        BY <4>1, <4>5 DEF Prove, At, Asking
      <4> QED
        BY <4>2, <4>3, <4>4, <4>5
    <3>2. AsksRight'
      BY <2>1 DEF Next, AsksRight
    <3>3. ASSUME NEW c \in right' PROVE answer'[c] # "wrong"
      <4>1. c \in Procs /\ pc'[c] \in Asking /\ (pc[c] = "out" \/ c \in right)
        BY <2>1 DEF Next
      <4>2. CASE c \in right
        BY <3>1, <4>2
      <4>3. CASE pc[c] = "out"
        BY <2>1, <4>1, <4>3, Attribution DEF Attributed, Asking
      <4> QED
        BY <4>1, <4>2, <4>3
    <3> QED
      BY <3>1, <3>2, <3>3
  <2>2. I /\ UNCHANGED vars => I'
    BY DEF AsksRight, vars, disk, local, Opens
  <2> QED
    BY <2>1, <2>2
<1> QED
  BY <1>1, <1>2, SolitaryInvariance, PTL DEF Spec, RightIsNotWrong
=============================================================================
