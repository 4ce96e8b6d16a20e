------------------------------- MODULE Outbound -------------------------------
(***************************************************************************)
(* The outgoing mail. Letters are rows of outbound_mail; several processes *)
(* post them (the windows' clock, the command line's flush), humans arm,   *)
(* cancel, resolve and retry them, and the letters of a series of reminders *)
(* move the series on. Each action is one transaction of the executor, or  *)
(* the exchange with the mail server, which holds no transaction.          *)
(***************************************************************************)
EXTENDS Integers, Sequences, FiniteSets, FiniteSetsExt, Functions, SequencesExt

CONSTANTS
    Procs, Windows, \* who posts; the windows among them (the others flush)
    Subjects,       \* opportunities and invoices that are followed up
    Steps,          \* the letters of a series
    Cap,            \* HOURLY_CAP
    NoSubject, NoToken, Gone,   \* Gone: the token of a window that was closed
    AutoSend,       \* auto_send
    MaxLetters, MaxInterrupts   \* bounds

Ids == 1..MaxLetters
Tokens == Procs \cup {NoToken, Gone}
Statuses == {"none", "armed", "held", "sending", "sent", "uncertain", "failed", "cancelled"}

ASSUME OutboundAssumption ==
    /\ Windows \subseteq Procs /\ {NoToken, Gone} \cap Procs = {} /\ NoToken # Gone
    /\ NoSubject \notin Subjects
    /\ {Steps, Cap} \subseteq Nat \ {0} /\ {MaxLetters, MaxInterrupts} \subseteq Nat
    /\ AutoSend \in BOOLEAN

VARIABLES
    letters,        \* the rows
    at,             \* of a series: the next step
    recent,         \* the letters whose row changed within the hour
    pc, batch, outcomes,        \* where a process is, what it has left to post and to record
    delivered,      \* history: the letters the server took
    denied,         \* history: those a human said did not go, and those the server took
                    \* in an exchange that ended in an error
    vouched,        \* history: those a human said went
    moved,          \* history: the series a human moved
    interrupts      \* how many processes stopped and exchanges broke off

table == <<letters, at, recent>>
local == <<pc, batch, outcomes>>
history == <<delivered, denied, vouched, moved, interrupts>>
vars == <<table, local, history>>

Letter(subject, step, token, waiting, auto) ==
    [status |-> "armed", subject |-> subject, step |-> step, token |-> token,
     waiting |-> waiting, auto |-> auto]
NoLetter == [Letter(NoSubject, 0, NoToken, FALSE, FALSE) EXCEPT !.status = "none"]

In(statuses) == {l \in Ids : letters[l].status \in statuses}
Written(s, k) == {l \in Ids : letters[l].subject = s /\ letters[l].step = k}

(* idx_outbound_mail_follow_open: one letter per step, but a held one does  *)
(* not count.                                                               *)
IndexedNotUncertain == {"armed", "sending", "sent"}     \* mutant
Indexed == {"armed", "sending", "sent", "uncertain"}
Unique(l, s, k) == s # NoSubject => (Written(s, k) \cap In(Indexed)) \subseteq {l}

(* UPDATE outbound_mail SET status = .. WHERE id IN which                   *)
Becomes(which, status) ==
    [l \in Ids |-> IF l \in which THEN [letters[l] EXCEPT !.status = status] ELSE letters[l]]

Init ==
    /\ letters = [l \in Ids |-> NoLetter]
    /\ at = [s \in Subjects |-> 1]
    /\ recent = {}
    /\ pc = [p \in Procs |-> "idle"]
    /\ batch = [p \in Procs |-> {}]
    /\ outcomes = [p \in Procs |-> <<>>]
    /\ delivered = {} /\ denied = {} /\ vouched = {} /\ moved = {} /\ interrupts = 0

----------------------------------------------------------------------------
(* What humans do.                                                          *)

Fresh(l) == letters[l].status = "none" /\ \A m \in 1..(l - 1) : letters[m].status # "none"

(* A letter of its own, or that of a step some page showed.                 *)
Arm(l, s, k, t) ==
    /\ Fresh(l) /\ Unique(l, s, k)
    /\ letters' = [letters EXCEPT ![l] = Letter(s, k, t, TRUE, FALSE)]
    /\ UNCHANGED <<at, recent, local, history>>

Cancel(l) ==
    /\ letters[l].status \in {"armed", "held"}
    /\ letters' = Becomes({l}, "cancelled")
    /\ UNCHANGED <<at, recent, local, history>>

(* MarkFollowUpSent and SkipFollowUpStep: the series moves on from where it *)
(* is, whatever letter was read; past its end the error is only noted.      *)
Advance(s) == at' = [at EXCEPT ![s] = IF @ > Steps THEN @ ELSE @ + 1]
AdvanceFor(l) ==
    IF letters[l].subject = NoSubject THEN UNCHANGED at
    ELSE Advance(letters[l].subject)

(* Mutant: the series does not hear of it.                                  *)
ResolveAlone(l, sent) ==
    /\ letters[l].status = "uncertain"
    /\ letters' = Becomes({l}, IF sent THEN "sent" ELSE "failed")
    /\ denied' = IF sent THEN denied ELSE denied \cup {l}
    /\ vouched' = IF sent THEN vouched \cup {l} ELSE vouched
    /\ UNCHANGED <<at, recent, local, delivered, moved, interrupts>>

Resolve(l, sent) ==
    /\ letters[l].status = "uncertain"
    /\ letters' = Becomes({l}, IF sent THEN "sent" ELSE "failed")
    /\ IF sent
       THEN /\ AdvanceFor(l)
            /\ recent' = recent \cup {l}
            /\ vouched' = vouched \cup {l} /\ UNCHANGED denied
       ELSE /\ denied' = denied \cup {l}
            /\ UNCHANGED <<at, recent, vouched>>
    /\ UNCHANGED <<local, delivered, moved, interrupts>>

(* A letter that failed, or that is taken to have failed, is written again. *)
Retry(l, m, t) ==
    /\ letters[l].status \in {"failed", "uncertain"}
    /\ Fresh(m)
    /\ letters[l].subject # NoSubject =>
         Written(letters[l].subject, letters[l].step) \cap In(Indexed) \subseteq {l}
    /\ t \in {letters[l].token} \cup Windows
    /\ letters' = [Becomes({l}, "failed") EXCEPT
                     ![m] = Letter(letters[l].subject, letters[l].step, t, FALSE, FALSE)]
    /\ denied' = denied \cup {l}
    /\ UNCHANGED <<at, recent, local, delivered, vouched, moved, interrupts>>

(* A step is skipped or marked sent outside Griffe; the last one is undone. *)
Skip(s) ==
    /\ at[s] <= Steps /\ s \notin moved
    /\ Advance(s)
    /\ moved' = moved \cup {s}
    /\ UNCHANGED <<letters, recent, local, delivered, denied, vouched, interrupts>>
Retract(s) ==
    /\ at[s] > 1 /\ s \notin moved
    /\ at' = [at EXCEPT ![s] = @ - 1]
    /\ moved' = moved \cup {s}
    /\ UNCHANGED <<letters, recent, local, delivered, denied, vouched, interrupts>>

----------------------------------------------------------------------------
(* Time: a letter may be undone for five seconds, the cap counts the        *)
(* letters of the last hour.                                                *)
UndoEnds(l) ==
    /\ letters[l].waiting
    /\ letters' = [letters EXCEPT ![l].waiting = FALSE]
    /\ UNCHANGED <<at, recent, local, history>>
HourPasses(l) ==
    /\ l \in recent
    /\ recent' = recent \ {l}
    /\ UNCHANGED <<letters, at, local, history>>

Time == \E l \in Ids : UndoEnds(l) \/ HourPasses(l)

----------------------------------------------------------------------------
(* Posting.                                                                 *)

At(p, stage) == pc[p] = stage
Goto(p, stage) == pc' = [pc EXCEPT ![p] = stage]

(* The process goes on with what is left, or stops on an error: what it     *)
(* held stays held, what it had not recorded is lost.                       *)
Continue(p, left, toRecord) ==
    /\ batch' = [batch EXCEPT ![p] = left]
    /\ outcomes' = [outcomes EXCEPT ![p] = toRecord]
    /\ Goto(p, IF toRecord # <<>> /\ (p \in Windows \/ left = {}) THEN "record"
               ELSE IF left # {} THEN "post" ELSE "idle")
Stop(p) == Continue(p, {}, <<>>)

Open(s) ==
    Written(s, at[s]) \cap In({"armed", "held", "sending", "sent", "uncertain"}) # {}
Enrollable ==
    IF ~AutoSend THEN {}
    ELSE {s \in Subjects : /\ at[s] <= Steps /\ ~Open(s)
                           /\ Written(s, at[s]) \cap In(Indexed) = {}}
Claimable(p) ==
    {l \in In({"armed"}) : ~letters[l].waiting /\ letters[l].token \in {NoToken, p}}
Stale(p) == {l \in In({"armed"}) : letters[l].token \notin {NoToken, p}}

(* A window looks first whether there is anything to do.                    *)
Busy(p) ==
    \/ In({"sending", "held"}) # {} \/ Claimable(p) # {} \/ Stale(p) # {} \/ Enrollable # {}

(* What is held was left by a process that is taken to be gone.             *)
AbandonHeld(p) ==
    /\ At(p, "idle")
    /\ p \in Windows => Busy(p)
    /\ letters' = Becomes(In({"held"}), "cancelled")
    /\ Goto(p, "freeze")
    /\ UNCHANGED <<at, recent, batch, outcomes, history>>

(* Mutant: nobody looks for interrupted exchanges.                          *)
FreezeNothing(p) ==
    /\ At(p, "freeze")
    /\ Goto(p, IF p \in Windows THEN "release" ELSE "enroll")
    /\ UNCHANGED <<table, batch, outcomes, history>>

(* So was what is being sent: nobody knows whether it went.                 *)
FreezeInterrupted(p) ==
    /\ At(p, "freeze")
    /\ letters' = Becomes(In({"sending"}), "uncertain")
    /\ Goto(p, IF p \in Windows THEN "release" ELSE "enroll")
    /\ UNCHANGED <<at, recent, batch, outcomes, history>>

ReleaseStaleArmed(p) ==
    /\ At(p, "release")
    /\ letters' = Becomes(Stale(p), "cancelled")
    /\ Goto(p, "enroll")
    /\ UNCHANGED <<at, recent, batch, outcomes, history>>

(* The cards of the day get their letter, while rows last: those whose step *)
(* has none, unless a reply is held back or the address is known to fail.   *)
EnrollToday(p) ==
    /\ At(p, "enroll")
    /\ \E today \in SUBSET Enrollable :
         /\ Cardinality(today) <= Cardinality(In({"none"}))
         /\ \E row \in Injection(today, In({"none"})) :
              letters' = [l \in Ids |->
                IF \E s \in today : row[s] = l
                THEN LET s == CHOOSE s \in today : row[s] = l
                     IN  Letter(s, at[s], p, FALSE, TRUE)
                ELSE letters[l]]
    /\ Goto(p, "claim")
    /\ UNCHANGED <<at, recent, batch, outcomes, history>>

(* As many as the cap leaves room for. The address of the fiche is read     *)
(* again: without one the letter fails. Without a connection to the server  *)
(* they all will.                                                           *)
Failed(which) == SetToSeq([letter : which, ok : {FALSE}])
ClaimDue(p) ==
    /\ At(p, "claim")
    /\ LET sent == Cardinality(recent \cap In({"sent"}))
           room == IF sent >= Cap THEN 0 ELSE Cap - sent
       IN  \E taken \in SUBSET Claimable(p) :
             /\ \/ Cardinality(taken) = room
                \/ Cardinality(taken) < room /\ taken = Claimable(p)
             /\ \E lost \in SUBSET taken :
                  /\ letters' = [l \in Ids |->
                       IF l \in lost THEN [letters[l] EXCEPT !.status = "failed"]
                       ELSE IF l \in taken THEN [letters[l] EXCEPT !.status = "held"]
                       ELSE letters[l]]
                  /\ \/ Continue(p, taken \ lost, <<>>)
                     \/ Continue(p, {}, Failed(taken \ lost))
    /\ UNCHANGED <<at, recent, history>>

(* Mutant: the answer of the commit is not looked at.                       *)
CommitUnheard(p, l) ==
    /\ At(p, "post") /\ l \in batch[p]
    /\ letters' = Becomes({l} \cap In({"held"}), "sending")
    /\ batch' = [batch EXCEPT ![p] = @ \ {l}]
    /\ outcomes' = [outcomes EXCEPT ![p] = Append(@, [letter |-> l, ok |-> FALSE])]
    /\ Goto(p, "submit")
    /\ UNCHANGED <<at, recent, history>>

(* The letter is held still, and leaves; or it was cancelled; or the index  *)
(* refuses it, since another letter of its step was armed meanwhile.        *)
CommitOutbound(p, l) ==
    /\ At(p, "post") /\ l \in batch[p]
    /\ \/ /\ letters[l].status = "held"
          /\ Unique(l, letters[l].subject, letters[l].step)
          /\ letters' = Becomes({l}, "sending")
          /\ batch' = [batch EXCEPT ![p] = @ \ {l}]
          /\ outcomes' = [outcomes EXCEPT ![p] = Append(@, [letter |-> l, ok |-> FALSE])]
          /\ Goto(p, "submit")
       \/ /\ letters[l].status # "held"
          /\ Continue(p, batch[p] \ {l}, outcomes[p])
          /\ UNCHANGED letters
       \/ /\ letters[l].status = "held"
          /\ ~Unique(l, letters[l].subject, letters[l].step)
          /\ Stop(p) /\ UNCHANGED letters
    /\ UNCHANGED <<at, recent, history>>

(* The exchange with the server: taken, refused, or broken off, and then    *)
(* the letter may have been taken.                                          *)
Submit(p) ==
    /\ At(p, "submit")
    /\ LET n == Len(outcomes[p])
           l == outcomes[p][n].letter
       IN  \E took, ok \in BOOLEAN :
             /\ ok => took
             /\ delivered' = IF took THEN delivered \cup {l} ELSE delivered
             /\ IF took /\ ~ok
                THEN /\ interrupts < MaxInterrupts /\ interrupts' = interrupts + 1
                     /\ denied' = denied \cup {l}
                ELSE UNCHANGED <<denied, interrupts>>
             /\ Continue(p, batch[p], [outcomes[p] EXCEPT ![n].ok = ok])
    /\ UNCHANGED <<table, vouched, moved>>

(* One outcome is recorded; a letter that is no longer being sent cannot be *)
(* marked sent, and what follows is not recorded either.                    *)
RecordDelivery(p) ==
    /\ At(p, "record")
    /\ LET l == Head(outcomes[p]).letter
       IN  \/ /\ ~Head(outcomes[p]).ok
              /\ letters' = Becomes({l} \cap In({"sending", "held", "armed", "uncertain",
                                                 "failed"}), "failed")
              /\ Continue(p, batch[p], Tail(outcomes[p]))
              /\ UNCHANGED <<at, recent>>
           \/ /\ Head(outcomes[p]).ok /\ letters[l].status = "sending"
              /\ letters' = Becomes({l}, "sent")
              /\ recent' = recent \cup {l}
              /\ AdvanceFor(l)
              /\ Continue(p, batch[p], Tail(outcomes[p]))
           \/ /\ Head(outcomes[p]).ok /\ letters[l].status # "sending"
              /\ Stop(p) /\ UNCHANGED table
    /\ UNCHANGED history

(* The process dies, its session is locked, or the database refuses a call. *)
(* A window that comes back has another token.                              *)
Interrupt(p) ==
    /\ ~At(p, "idle") /\ interrupts < MaxInterrupts
    /\ interrupts' = interrupts + 1
    /\ Stop(p)
    /\ \/ UNCHANGED letters
       \/ /\ p \in Windows
          /\ letters' = [l \in Ids |-> IF letters[l].token = p
                                       THEN [letters[l] EXCEPT !.token = Gone] ELSE letters[l]]
    /\ UNCHANGED <<at, recent, delivered, denied, vouched, moved>>

----------------------------------------------------------------------------
Post(p) ==
    \/ AbandonHeld(p) \/ FreezeInterrupted(p) \/ ReleaseStaleArmed(p) \/ EnrollToday(p)
    \/ ClaimDue(p) \/ (\E l \in Ids : CommitOutbound(p, l))
    \/ Submit(p) \/ RecordDelivery(p)

Next ==
    \/ \E l \in Ids :
         \/ \E t \in {NoToken} \cup Windows :
              \/ Arm(l, NoSubject, 0, t)
              \/ \E s \in Subjects : \E k \in 1..at[s] : k <= Steps /\ Arm(l, s, k, t)
         \/ \E m \in Ids, t \in Tokens : Retry(l, m, t)
         \/ \E sent \in BOOLEAN : Resolve(l, sent)
         \/ Cancel(l)
    \/ Time
    \/ \E s \in Subjects : Skip(s) \/ Retract(s)
    \/ \E p \in Procs : Post(p) \/ Interrupt(p)

(* A window's clock ticks and its exchanges end (the server answers or a    *)
(* timeout does); time passes. Nothing is promised of humans or of flush.   *)
Fairness ==
    /\ \A p \in Windows : WF_vars(Post(p))
    /\ WF_vars(Time)

Spec == Init /\ [][Next]_vars /\ Fairness

----------------------------------------------------------------------------
(* Properties.                                                              *)

(* The state has its shape.                                                 *)
TypeOK ==
    /\ letters \in [Ids -> [status : Statuses, subject : Subjects \cup {NoSubject},
                            step : 0..Steps, token : Tokens, waiting : BOOLEAN,
                            auto : BOOLEAN]]
    /\ at \in [Subjects -> 1..(Steps + 1)]
    /\ recent \subseteq Ids
    /\ pc \in [Procs -> {"idle", "freeze", "release", "enroll", "claim", "post", "submit",
                         "record"}]
    /\ batch \in [Procs -> SUBSET Ids]
    /\ outcomes \in [Procs -> Seq([letter : Ids, ok : BOOLEAN])]
    /\ {delivered, denied, vouched} \subseteq SUBSET Ids
    /\ moved \subseteq Subjects /\ interrupts \in 0..MaxInterrupts

(* What the program says of a letter is so: it went if it is called sent, it *)
(* did not if it is called failed or cancelled, unless a human said so or    *)
(* the exchange ended in an error after the server took it.                  *)
StatusIsTrue ==
    /\ In({"sent"}) \subseteq delivered \cup vouched
    /\ delivered \cap In({"none", "armed", "held", "cancelled"}) = {}
    /\ delivered \cap In({"failed"}) \subseteq denied

(* No step of a series goes twice, unless a human took the first letter for *)
(* lost, or its exchange ended in an error after the server took it.        *)
StepGoesOnce ==
    \A l, m \in delivered :
      /\ l # m /\ letters[l].subject # NoSubject
      /\ letters[l].subject = letters[m].subject /\ letters[l].step = letters[m].step
      => denied \cap {l, m} # {}

(* A series no human moves stands exactly where its letters took it.        *)
SeriesFollowsLetters ==
    \A s \in Subjects \ moved, k \in 1..Steps :
      at[s] > k <=> Written(s, k) \cap In({"sent"}) # {}

(* A letter in the outbox leaves it: sent, failed, cancelled, or uncertain  *)
(* for a human to say.                                                      *)
OutboxEmpties ==
    \A l \in Ids : letters[l].status \in {"armed", "held", "sending"}
                    ~> letters[l].status \notin {"armed", "held", "sending"}

(* A step whose automatic letter was cancelled does not go on its own.      *)
CancelledStays ==
    [][\A l \in delivered' \ delivered :
         letters[l].auto /\ (\E m \in In({"cancelled"}) :
                              m \in Written(letters[l].subject, letters[l].step))
         => \E m \in Written(letters[l].subject, letters[l].step) : ~letters[m].auto]_vars
=============================================================================
