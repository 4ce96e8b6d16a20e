--------------------------- MODULE CommandJournal ---------------------------
(***************************************************************************)
(* What griffe-core promises of a command, seen from outside the vault: a   *)
(* journal that every effect enters in one step, together with the effect.  *)
(* There are no transactions, no lock, no crash here; Executor implements   *)
(* this specification with the committed database as `log`.                 *)
(***************************************************************************)
EXTENDS Integers, Sequences

CONSTANTS
    Clients,        \* the facades that send commands (window, CLI, agent sessions)
    Agents,         \* those whose actor is Actor::Agent
    Commands,       \* commands a facade can send
    Confirming,     \* commands whose requires_confirmation() is true
    Revised,        \* commands that carry an expected revision
    Revisions,      \* the revisions a command may quote (finite for TLC)
    Keys, NoKey,    \* idempotency keys, and the absence of one
    KeyOf,          \* [Commands -> Keys \cup {NoKey}]
    Docs, DocOf     \* the rows the commands write, [Commands -> Docs]

VARIABLE log
(* log.revision : the revision of each row                                 *)
(* log.keys     : the output recorded under each idempotency key, 0 if none*)
(* log.pending  : the actions agents left for a human                      *)
(* log.audit    : the audit log                                            *)

EmptyLog ==
    [revision |-> [d \in Docs |-> 0],
     keys     |-> [k \in Keys |-> 0],
     pending  |-> << >>,
     audit    |-> << >>]

ActorOf(c) == IF c \in Agents THEN "agent" ELSE "human"

Entry(actor, cmd, expected, outcome, output, from) ==
    [actor |-> actor, cmd |-> cmd, expected |-> expected,
     outcome |-> outcome, output |-> output, from |-> from]

(* The parts a command's transaction is made of.                            *)

\* mutant: the expected revision is not compared
ApplicableAnyway(l, cmd, expected) == TRUE

(* A command that carries an expected revision applies only at it.          *)
Applicable(l, cmd, expected) ==
    cmd \in Revised => l.revision[DocOf[cmd]] = expected

Applied(l, cmd) == [l EXCEPT !.revision[DocOf[cmd]] = @ + 1]
OutputOf(l, cmd) == l.revision[DocOf[cmd]]

(* The output is kept under the command's key, when it has one.             *)
Keyed(l, cmd) ==
    IF KeyOf[cmd] = NoKey THEN l
    ELSE [l EXCEPT !.keys[KeyOf[cmd]] = OutputOf(l, cmd)]

Audited(l, entry) == [l EXCEPT !.audit = Append(@, entry)]

Deposited(l, cmd, expected) ==
    [l EXCEPT !.pending =
       Append(@, [cmd |-> cmd, expected |-> expected, status |-> "pending"])]

Confirmed(l, id) == [l EXCEPT !.pending[id].status = "confirmed"]

DirectEntry(l, c, cmd, expected) ==
    Entry(ActorOf(c), cmd, expected, "applied", OutputOf(l, cmd), 0)
\* mutant: a deposit audited with an outcome that means an effect
DepositAsReplay(cmd, expected) ==
    Entry("agent", cmd, expected, "already_applied", 0, 0)
DepositEntry(cmd, expected) ==
    Entry("agent", cmd, expected, "pending_confirmation", 0, 0)
ConfirmEntry(l, p, id) ==
    Entry("human", p.cmd, p.expected, "confirmed", OutputOf(l, p.cmd), id)

NeedsHuman(c, cmd) == cmd \in Confirming /\ c \in Agents
KeyUsed(l, cmd) == KeyOf[cmd] # NoKey /\ l.keys[KeyOf[cmd]] # 0

----------------------------------------------------------------------------
Init == log = EmptyLog

(* A facade applies a command, once per key. Agents may not when the        *)
(* command needs a human.                                                   *)
Effect(c, cmd, expected) ==
    /\ ~NeedsHuman(c, cmd) /\ ~KeyUsed(log, cmd)
    /\ Applicable(log, cmd, expected)
    /\ LET kept == Keyed(Applied(log, cmd), cmd)
       IN  log' = Audited(kept, DirectEntry(kept, c, cmd, expected))

(* An agent leaves a command for a human.                                   *)
Deposit(c, cmd, expected) ==
    /\ NeedsHuman(c, cmd) /\ ~KeyUsed(log, cmd)
    /\ log' = Audited(Deposited(log, cmd, expected), DepositEntry(cmd, expected))

(* A human applies what was left, once.                                     *)
Confirm(id) ==
    LET p    == log.pending[id]
        kept == Confirmed(Applied(log, p.cmd), id)
    IN  /\ p.status = "pending"
        /\ Applicable(log, p.cmd, p.expected)
        /\ log' = Audited(kept, ConfirmEntry(kept, p, id))

Next ==
    \/ \E c \in Clients, cmd \in Commands, expected \in Revisions :
          Effect(c, cmd, expected) \/ Deposit(c, cmd, expected)
    \/ \E id \in DOMAIN log.pending : Confirm(id)

Spec == Init /\ [][Next]_log

----------------------------------------------------------------------------
(* What holds of a log.                                                     *)

Effects(l) == {i \in DOMAIN l.audit : l.audit[i].outcome # "pending_confirmation"}
EffectsOn(l, d) == {i \in Effects(l) : DocOf[l.audit[i].cmd] = d}

(* The revisions of a row are exactly the outputs of its audited effects.   *)
Explained(l) ==
    \A d \in Docs :
      /\ \A i \in EffectsOn(l, d) : l.audit[i].output \in 1..l.revision[d]
      /\ \A r \in 1..l.revision[d] : \E i \in EffectsOn(l, d) : l.audit[i].output = r
      /\ \A i, j \in EffectsOn(l, d) : l.audit[i].output = l.audit[j].output => i = j

(* A key has at most one effect.                                            *)
OncePerKey(l) ==
    \A i, j \in Effects(l) :
      /\ KeyOf[l.audit[i].cmd] # NoKey
      /\ KeyOf[l.audit[i].cmd] = KeyOf[l.audit[j].cmd]
      => i = j

(* No effect of a confirming command is an agent's.                         *)
HumanEffects(l) ==
    \A i \in Effects(l) : l.audit[i].cmd \in Confirming => l.audit[i].actor = "human"

(* A deposited action has one effect once confirmed, none before.           *)
ConfirmedOnce(l) ==
    /\ \A i, j \in Effects(l) :
         l.audit[i].from # 0 /\ l.audit[i].from = l.audit[j].from => i = j
    /\ \A id \in DOMAIN l.pending :
         l.pending[id].status = "confirmed" <=> \E i \in Effects(l) : l.audit[i].from = id

(* No two effects that quote a revision of a row quote the same one.        *)
Unlost(l) ==
    \A d \in Docs : \A i, j \in EffectsOn(l, d) :
      /\ l.audit[i].cmd \in Revised /\ l.audit[j].cmd \in Revised
      /\ l.audit[i].expected = l.audit[j].expected
      => i = j
=============================================================================
