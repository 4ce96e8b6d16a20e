-------------------------------- MODULE Releve --------------------------------
(***************************************************************************)
(* The inbound mail. The window pulls the headers of a folder of the       *)
(* server in batches, absorbs each one, then asks for the bodies. A batch  *)
(* is written into two databases, the vault (filings, held series, faulty  *)
(* addresses) and the mirror (rows and cursor), one commit after another,  *)
(* while humans work in other processes and the folder changes. One action *)
(* is one commit, one read of a database, or one exchange with the server. *)
(***************************************************************************)
EXTENDS Integers, Sequences, FiniteSets, FiniteSetsExt, SequencesExt

CONSTANTS
    Mails, About,       \* the letters that may come, what their headers say
    Letters, LetterOf,  \* those recorded as sent: the client and the dossier of each
    Dossiers, Owner,    \* and the client of each dossier
    None,
    Chunk,              \* HEADER_BATCH
    MaxTroubles, MaxGestures        \* bounds

Clients == {Owner[d] : d \in Dossiers}
Scopes == {"listed", "all"}
Bodies == {"pending", "ready", "unreadable"}

ASSUME ReleveAssumption ==
    /\ None \notin Mails \cup Letters \cup Dossiers \cup Clients
                     \cup {"pull", "fill", "auto", "human", "certain"}
    /\ About \in [Mails -> [ref : Letters \cup {None}, ours : Letters \cup {None},
                            fiches : SUBSET Clients, human : BOOLEAN, listed : BOOLEAN,
                            notice : {None, "certain", "probable"}, report : BOOLEAN]]
    /\ LetterOf \in [Letters -> [client : Clients, dossier : Dossiers \cup {None}]]
    /\ \A l \in Letters : LetterOf[l].dossier # None => LetterOf[l].client = Owner[LetterOf[l].dossier]
    /\ Chunk \in Nat \ {0}
    /\ {MaxTroubles, MaxGestures} \subseteq Nat

VARIABLES
    epoch, box,             \* the server: UIDVALIDITY, and the letter of each UID
    kept, gen,              \* the vault: kept_scope and kept_generation
    open, exists,           \*   the dossiers
    filing, hold, fault,    \*   mail_filing, reply_hold, address_fault
    rows, cursor, applied,  \* the mirror
    pull, fill, job,        \* the pull, the bodies asked for, the batch being absorbed
    byHand,                 \* the dossier whose series file_human is about to hold
    released, moved,        \* history: series a human let go; whether a body moved the cursor
    spent                   \* how much of each bound is used

server == <<epoch, box>>
choice == <<kept, gen>>
book == <<open, exists>>
vault == <<filing, hold, fault>>
mirror == <<rows, cursor, applied>>
history == <<released, moved>>
vars == <<server, choice, book, vault, mirror, pull, fill, job, byHand, history, spent>>

NoFiling == [source |-> None, dossier |-> None]
NoCursor == [epoch |-> 0, last |-> 0]
NoPull == [pc |-> "idle", cursor |-> NoCursor, kept |-> "listed", gen |-> 0,
           sweep |-> FALSE, failed |-> FALSE, queue |-> <<>>]
NoFill == [pc |-> "idle", uids |-> <<>>, epoch |-> 0, queue |-> <<>>]
NoJob == [by |-> None]

Init ==
    /\ epoch = 1 /\ box = <<>>
    /\ kept \in Scopes /\ gen = 1
    /\ open = Dossiers /\ exists = Dossiers
    /\ filing = [m \in Mails |-> NoFiling]
    /\ hold = {}
    /\ fault = [c \in Clients |-> [status |-> None, by |-> None]]
    /\ rows = {} /\ cursor = NoCursor /\ applied = 0
    /\ pull = NoPull /\ fill = NoFill /\ job = NoJob
    /\ byHand = None /\ released = {} /\ moved = FALSE
    /\ spent = [troubles |-> 0, gestures |-> 0]

Spend(what, max) ==
    /\ spent[what] < max
    /\ spent' = [spent EXCEPT ![what] = @ + 1]

----------------------------------------------------------------------------
(* The server.                                                              *)

Uids == DOMAIN box
Arrive(m) ==
    /\ m \notin Range(box)
    /\ box' = Append(box, m)
    /\ UNCHANGED <<epoch, choice, book, vault, mirror, pull, fill, job, byHand, history, spent>>

(* The folder is rebuilt: its letters are numbered again, one may be lost.  *)
Renumber ==
    /\ box # <<>> /\ Spend("troubles", MaxTroubles)
    /\ epoch' = epoch + 1
    /\ \E lost \in 0..1 : box' = Reverse(SubSeq(box, 1 + lost, Len(box)))
    /\ UNCHANGED <<choice, book, vault, mirror, pull, fill, job, byHand, history>>

----------------------------------------------------------------------------
(* Other commands of the vault.                                             *)

SetKeptAddresses(s) ==
    /\ s # kept
    /\ Spend("gestures", MaxGestures)
    /\ kept' = s /\ gen' = gen + 1
    /\ UNCHANGED <<server, book, vault, mirror, pull, fill, job, byHand, history>>

Close(d) ==
    /\ d \in open
    /\ Spend("gestures", MaxGestures)
    /\ open' = open \ {d}
    /\ UNCHANGED <<server, choice, exists, vault, mirror, pull, fill, job, byHand, history>>

(* The letters that were sent for it stay; its filings lose the dossier.    *)
DeleteOpportunity(d) ==
    /\ d \in exists
    /\ Spend("gestures", MaxGestures)
    /\ exists' = exists \ {d} /\ open' = open \ {d} /\ hold' = hold \ {d}
    /\ filing' = [m \in Mails |-> IF filing[m].dossier = d
                                  THEN [filing[m] EXCEPT !.dossier = None] ELSE filing[m]]
    /\ UNCHANGED <<server, choice, fault, mirror, pull, fill, job, byHand, history>>

ReleaseReplyHold(d) ==
    /\ d \in hold
    /\ Spend("gestures", MaxGestures)
    /\ hold' = hold \ {d}
    /\ released' = released \cup {d}
    /\ UNCHANGED <<server, choice, book, filing, fault, mirror, pull, fill, job, byHand, moved>>

ConfirmAddress(c) ==
    /\ fault[c].status \in {"failed", "probable"}
    /\ Spend("gestures", MaxGestures)
    /\ fault' = [fault EXCEPT ![c].status = "confirmed"]
    /\ UNCHANGED <<server, choice, book, filing, hold, mirror, pull, fill, job, byHand, history>>

(* file_human: the filing, then, in a commit of its own, the hold.          *)
FileHuman(m, d) ==
    /\ m \in Range(box)
    /\ byHand = None /\ d \in exists
    /\ Spend("gestures", MaxGestures)
    /\ filing' = [filing EXCEPT ![m] = [source |-> "human", dossier |-> d]]
    /\ byHand' = d
    /\ UNCHANGED <<server, choice, book, hold, fault, mirror, pull, fill, job, history>>
HoldFiled ==
    /\ byHand # None
    /\ hold' = hold \cup ({byHand} \cap exists)
    /\ byHand' = None
    /\ UNCHANGED <<server, choice, book, filing, fault, mirror, pull, fill, job, history, spent>>

----------------------------------------------------------------------------
(* What the window reads: classify, then resolve.                           *)

Admits(scope, m) == scope = "listed" => About[m].listed

Linked(c, d, held) == [client |-> c, dossier |-> d, hold |-> held]
Unlinked == Linked(None, None, FALSE)
Human(m) == About[m].human /\ About[m].notice = None

(* One client, or none when several bear the address: a human will choose.  *)
ToClient(clients, d, held) ==
    IF Cardinality(clients) = 1 THEN Linked(CHOOSE c \in clients : TRUE, d, held) ELSE Unlinked
ToLetter(l, held) == Linked(LetterOf[l].client, LetterOf[l].dossier,
                            held /\ LetterOf[l].dossier # None)

(* A report of which only the headers came is read as any letter.           *)
Certain(m, body) ==
    About[m].notice = "certain" /\ (About[m].report => body # "pending")

Classify(m, body) ==
    LET ref == About[m].ref
        answers == ref # None
        fiches == About[m].fiches
    IN  IF Certain(m, body)
        THEN IF fiches = {} THEN IF answers THEN ToLetter(ref, FALSE) ELSE Unlinked
             ELSE ToClient(fiches, IF answers /\ LetterOf[ref].client \in fiches
                                   THEN LetterOf[ref].dossier ELSE None, FALSE)
        ELSE IF About[m].ours # None THEN ToLetter(About[m].ours, FALSE)
        ELSE IF answers THEN ToLetter(ref, Human(m))
        ELSE IF About[m].report THEN Unlinked
        ELSE ToClient(fiches, None, Human(m))

Resolve(link, opened) ==
    LET of == {d \in opened : Owner[d] = link.client}
    IN  IF link.client = None \/ link.dossier # None THEN link
        ELSE CASE Cardinality(of) = 1 -> [link EXCEPT !.dossier = CHOOSE d \in of : TRUE]
               [] of = {}             -> [link EXCEPT !.hold = FALSE]
               [] OTHER               -> Unlinked

Read(m, body, opened) == Resolve(Classify(m, body), opened)

(* What mark_notice writes: nothing, a certain fault, or a likely one.      *)
FaultOf(m, body) ==
    IF Certain(m, body) THEN "failed"
    ELSE IF About[m].notice = "probable" THEN "probable" ELSE None
Marked(c, m, status) ==
    IF status = "probable" /\ fault[c].status \in {"failed", "confirmed"} THEN fault
    ELSE [fault EXCEPT ![c] = [status |-> status, by |-> m]]

----------------------------------------------------------------------------
(* The pull: kick_releve reads the plan, prepare_pull aligns the cursors,   *)
(* the connection reads the folder.                                         *)

Batch(e, resync, messages, examined, sweeps, keep) ==
    [epoch |-> e, resync |-> resync, messages |-> messages, examined |-> examined,
     sweeps |-> sweeps, keep |-> keep]

Locked == job = NoJob       \* the window's lock on the vault is free

Plan ==
    /\ Locked /\ pull.pc = "idle"
    /\ pull' = [NoPull EXCEPT !.pc = "planned", !.cursor = cursor, !.kept = kept, !.gen = gen]
    /\ UNCHANGED <<server, choice, book, vault, mirror, fill, job, byHand, history, spent>>

(* The whole account: the cursors go back to the start, then the mirror     *)
(* has applied the choice. One address list: the pull will sweep.           *)
Rewind ==
    /\ Locked /\ pull.pc = "planned" /\ pull.kept = "all" /\ pull.gen # applied
    /\ cursor' = [cursor EXCEPT !.last = 0]
    /\ pull' = [pull EXCEPT !.pc = "rewound", !.cursor.last = 0]
    /\ UNCHANGED <<server, choice, book, vault, rows, applied, fill, job, byHand, history, spent>>
Prepare ==
    /\ Locked
    /\ \/ pull.pc = "rewound" /\ applied' = pull.gen
       \/ /\ pull.pc = "planned" /\ (pull.gen = applied \/ pull.kept = "listed")
          /\ UNCHANGED applied
    /\ pull' = [pull EXCEPT !.pc = "prepared", !.sweep = pull.gen # applied /\ pull.kept = "listed"]
    /\ UNCHANGED <<server, choice, book, vault, rows, cursor, fill, job, byHand, history, spent>>

(* The letters of a set of numbers are in their order.                      *)
Ascending(S) == CHOOSE s \in [1..Cardinality(S) -> S] : \A i, j \in DOMAIN s : i < j => s[i] < s[j]

Header(uid) == [uid |-> uid, mail |-> box[uid],
                body |-> IF About[box[uid]].report THEN "ready" ELSE "pending"]
HeaderOrPart(uid) ==        \* complete_reports may not have got the report
    {Header(uid)} \cup {[Header(uid) EXCEPT !.body = "pending"]}
Chunks(s) == [i \in 1..((Len(s) + Chunk - 1) \div Chunk) |->
                 SubSeq(s, (i - 1) * Chunk + 1, Min({i * Chunk, Len(s)}))]

(* pull_headers, and pull_kept: what the UIDs of the span become. The sweep *)
(* names the UIDs to keep with its last batch.                              *)
Fetch ==
    /\ pull.pc = "prepared"
    /\ LET resync == pull.cursor # NoCursor /\ pull.cursor.epoch # epoch
           start == IF pull.sweep \/ resync THEN 1 ELSE pull.cursor.last + 1
           span == {u \in Uids : u >= start}
           uids == Ascending({u \in span : Admits(pull.kept, box[u])})
           chunks == Chunks(uids)
           examined == IF pull.kept = "listed" THEN Len(box) ELSE 0
           Nothing == Batch(epoch, FALSE, <<>>, 0, FALSE, {})
       IN  \E headers \in {h \in [DOMAIN uids -> UNION {HeaderOrPart(u) : u \in span}] :
                              \A i \in DOMAIN uids : h[i] \in HeaderOrPart(uids[i])} :
             LET At(i) == Batch(epoch, resync /\ i = 1,
                              [j \in DOMAIN chunks[i] |-> headers[(i - 1) * Chunk + j]],
                              IF i = Len(chunks) THEN examined ELSE 0,
                              pull.sweep /\ i = Len(chunks), Range(uids))
                 queue == IF span = {} /\ ~pull.sweep /\ ~resync THEN <<Nothing>>
                          ELSE IF uids = <<>> THEN <<Batch(epoch, resync, <<>>, examined, pull.sweep, {})>>
                          ELSE [i \in DOMAIN chunks |-> At(i)]
             IN  pull' = [pull EXCEPT !.pc = "pulling", !.queue = queue]
    /\ UNCHANGED <<server, choice, book, vault, mirror, fill, job, byHand, history, spent>>

(* The connection breaks: what was not handed over is lost.                 *)
Lose ==
    /\ pull.pc = "pulling" /\ pull.queue # <<>> /\ Locked
    /\ Spend("troubles", MaxTroubles)
    /\ pull' = [pull EXCEPT !.failed = TRUE, !.queue = <<>>]
    /\ UNCHANGED <<server, choice, book, vault, mirror, fill, job, byHand, history>>

PulledWhatever ==           \* mutant: the choice in force, not the one that was pulled
    /\ Locked /\ pull.pc = "pulling" /\ pull.queue = <<>>
    /\ pull' = IF pull.failed THEN NoPull ELSE [pull EXCEPT !.pc = "pulled"]
    /\ applied' = IF pull.sweep /\ ~pull.failed THEN gen ELSE applied
    /\ UNCHANGED <<server, choice, book, vault, rows, cursor, fill, job, byHand, history, spent>>

(* note_kept_applied: the pull is over.                                     *)
Pulled ==
    /\ Locked /\ pull.pc = "pulling" /\ pull.queue = <<>>
    /\ pull' = IF pull.failed THEN NoPull ELSE [pull EXCEPT !.pc = "pulled"]
    /\ applied' = IF pull.sweep /\ ~pull.failed THEN pull.gen ELSE applied
    /\ UNCHANGED <<server, choice, book, vault, rows, cursor, fill, job, byHand, history, spent>>

(* The body at this UID today, whatever the UIDVALIDITY of the row.         *)
Body(uid) == [uid |-> uid, mail |-> IF uid \in Uids THEN box[uid] ELSE None,
              body |-> IF uid \in Uids THEN "ready" ELSE "unreadable"]
Pending == {r \in rows : r.body = "pending"}

(* Bodies are asked for over a connection of their own: all those of one    *)
(* UIDVALIDITY after a pull (fill_recent), one when a human opens a letter  *)
(* (request_body). The next pull does not wait for them.                    *)
AskFor(asked, e) ==
    fill' = [pc |-> "asked", uids |-> Reverse(Ascending({r.uid : r \in asked})), epoch |-> e, queue |-> <<>>]

FillRecent ==
    /\ Locked /\ pull.pc = "pulled"
    /\ pull' = NoPull
    /\ IF Pending = {} \/ fill.pc # "idle" THEN UNCHANGED fill
       ELSE LET e == (CHOOSE r \in Pending : TRUE).epoch
            IN  AskFor({r \in Pending : r.epoch = e}, e)
    /\ UNCHANGED <<server, choice, book, vault, mirror, job, byHand, history, spent>>
RequestBody(r) ==
    /\ Locked /\ fill.pc = "idle" /\ r \in Pending
    /\ AskFor({r}, r.epoch)
    /\ UNCHANGED <<server, choice, book, vault, mirror, pull, job, byHand, history, spent>>
FetchBody ==
    /\ fill.pc = "asked"
    /\ LET bodies == [i \in DOMAIN fill.uids |-> Body(fill.uids[i])]
       IN  fill' = [fill EXCEPT !.pc = "fetched", !.queue = <<Batch(fill.epoch, FALSE, bodies, 0, FALSE, {})>>]
    /\ UNCHANGED <<server, choice, book, vault, mirror, pull, job, byHand, history, spent>>

----------------------------------------------------------------------------
(* absorb: one batch at a time, under the window's lock on the vault. What  *)
(* the books say is read once, at the start; job.todo holds the commits to  *)
(* come, in their order, before the next message.                           *)

Begin(by, batch) ==
    [by |-> by, batch |-> batch, open |-> open, kept |-> kept, i |-> 0,
     gone |-> <<>>, from |-> None, link |-> Unlinked,
     todo |-> (IF batch.resync THEN <<"clear", "rewind">> ELSE <<>>)
              \o (IF batch.sweeps THEN <<"retain">> ELSE <<>>)]

Absorb(by) ==
    /\ Locked /\ pull.pc # "rewound"
    /\ LET queue == IF by = "pull" THEN pull.queue ELSE fill.queue
       IN  queue # <<>> /\ job' = Begin(by, Head(queue))
    /\ UNCHANGED <<server, choice, book, vault, mirror, pull, fill, byHand, history, spent>>

(* The batch is over, written or refused: the next one follows all the same. *)
EndBatch(failed) ==
    /\ job' = NoJob
    /\ pull' = IF job.by # "pull" THEN pull
               ELSE [pull EXCEPT !.queue = Tail(@), !.failed = @ \/ failed]
    /\ fill' = IF job.by = "fill" THEN NoFill ELSE fill

Working == job.by # None /\ UNCHANGED <<server, choice, book, byHand, released, spent>>
Doing(step) ==
    /\ Working /\ job.todo # <<>> /\ Head(job.todo) = step
    /\ UNCHANGED moved
Done == job' = [job EXCEPT !.todo = Tail(@)] /\ UNCHANGED <<pull, fill>>

Msg == job.batch.messages[job.i]
AtUid(uid) == {r \in rows : r.uid = uid}                        \* mutant: whatever the epoch
At(uid) == {r \in rows : r.uid = uid /\ r.epoch = job.batch.epoch}

(* clear_mailbox: the rows, then the cursor.                                *)
ClearRows ==
    /\ Doing("clear") /\ Done
    /\ rows' = {}
    /\ UNCHANGED <<vault, cursor, applied>>
CursorStays ==              \* mutant: the rows only
    /\ Doing("rewind") /\ Done
    /\ UNCHANGED <<vault, mirror>>
ClearCursor ==
    /\ Doing("rewind") /\ Done
    /\ cursor' = NoCursor
    /\ UNCHANGED <<vault, rows, applied>>

(* retain_uids, in one transaction of the mirror; then forget_messages, in  *)
(* the vault, one statement after another.                                  *)
Forgetting == <<"forget", "unfault", "unhold">>
Retain ==
    /\ Doing("retain")
    /\ LET out == {r \in rows : r.epoch = job.batch.epoch /\ r.uid \notin job.batch.keep}
           gone == SetToSeq({r.mail : r \in out} \ {None})
       IN  /\ rows' = rows \ out
           /\ job' = [job EXCEPT !.gone = gone, !.todo =
                          [n \in 1..(3 * Len(gone)) |-> Forgetting[((n - 1) % 3) + 1]]]
    /\ UNCHANGED <<vault, cursor, applied, pull, fill>>
ForgetFiling ==
    /\ Doing("forget")
    /\ filing' = [filing EXCEPT ![Head(job.gone)] = NoFiling]
    /\ job' = [job EXCEPT !.todo = Tail(@), !.from = filing[Head(job.gone)].dossier]
    /\ UNCHANGED <<hold, fault, mirror, pull, fill>>
ForgetFault ==
    /\ Doing("unfault") /\ Done
    /\ fault' = [c \in Clients |-> IF fault[c].by = Head(job.gone) /\ fault[c].status # "confirmed"
                                   THEN [status |-> None, by |-> None] ELSE fault[c]]
    /\ UNCHANGED <<filing, hold, mirror>>
UnholdAnyway ==             \* mutant: the letters left on the dossier are not counted
    /\ Doing("unhold")
    /\ hold' = hold \ {job.from}
    /\ job' = [job EXCEPT !.todo = Tail(@), !.gone = Tail(@)]
    /\ UNCHANGED <<filing, fault, mirror, pull, fill>>
ForgetHold ==
    /\ Doing("unhold")
    /\ hold' = IF \E m \in Mails : filing[m].dossier = job.from THEN hold ELSE hold \ {job.from}
    /\ job' = [job EXCEPT !.todo = Tail(@), !.gone = Tail(@)]
    /\ UNCHANGED <<filing, fault, mirror, pull, fill>>

(* place: HoldReply, FileMessage, MarkAddress, then the row of the mirror;  *)
(* or fill_if_pending: MarkAddress, then the body.                          *)
Filed(m) == filing[m] # NoFiling
Marks(m, body, link) == link.client # None /\ FaultOf(m, body) # None
                        /\ ~(body = "pending" /\ About[m].report)
If(wanted, step) == IF wanted THEN <<step>> ELSE <<>>

Message ==
    /\ Working /\ job.todo = <<>> /\ job.i < Len(job.batch.messages)
    /\ LET msg == job.batch.messages[job.i + 1]
           found == At(msg.uid)
           fills == msg.body # "pending" /\ \E r \in found : r.body = "pending"
           read == msg.mail # None /\ (fills \/ ~(Filed(msg.mail) \/ About[msg.mail].ours # None))
           link == IF read THEN Read(msg.mail, msg.body, job.open) ELSE Unlinked
           mark == If(Marks(msg.mail, msg.body, link), "mark")
           steps == IF fills THEN mark \o <<"body">>
                    ELSE IF found # {} \/ (msg.mail # None /\ ~Admits(job.kept, msg.mail)) THEN <<>>
                    ELSE If(link.hold /\ link.dossier # None, "hold")
                         \o If(link.client # None, "file") \o mark \o <<"insert">>
       IN  job' = [job EXCEPT !.i = @ + 1, !.link = link, !.todo = steps]
    /\ UNCHANGED <<vault, mirror, pull, fill, moved>>

Refused == job.link.dossier # None /\ job.link.dossier \notin exists

Hold ==
    /\ Doing("hold")
    /\ IF Refused THEN EndBatch(TRUE) /\ UNCHANGED hold
       ELSE Done /\ hold' = hold \cup {job.link.dossier}
    /\ UNCHANGED <<filing, fault, mirror>>
FileOver ==                 \* mutant: what a human filed meanwhile is not looked at
    /\ Doing("file")
    /\ IF Refused THEN EndBatch(TRUE) /\ UNCHANGED filing
       ELSE Done /\ filing' = [filing EXCEPT ![Msg.mail] = [source |-> "auto", dossier |-> job.link.dossier]]
    /\ UNCHANGED <<hold, fault, mirror>>
File ==
    /\ Doing("file")
    /\ IF Filed(Msg.mail) THEN Done /\ UNCHANGED filing
       ELSE IF Refused THEN EndBatch(TRUE) /\ UNCHANGED filing
       ELSE Done /\ filing' = [filing EXCEPT ![Msg.mail] = [source |-> "auto", dossier |-> job.link.dossier]]
    /\ UNCHANGED <<hold, fault, mirror>>
Mark ==
    /\ Doing("mark") /\ Done
    /\ fault' = Marked(job.link.client, Msg.mail, FaultOf(Msg.mail, Msg.body))
    /\ UNCHANGED <<filing, hold, mirror>>
Insert ==
    /\ Doing("insert") /\ Done
    /\ rows' = rows \cup {[uid |-> Msg.uid, epoch |-> job.batch.epoch, mail |-> Msg.mail, body |-> Msg.body,
                           text |-> IF Msg.body = "ready" THEN Msg.mail ELSE None]}
    /\ UNCHANGED <<vault, cursor, applied>>
FillBody ==
    /\ Doing("body") /\ Done
    /\ rows' = {IF r \in At(Msg.uid) THEN [r EXCEPT !.body = Msg.body, !.text = Msg.mail] ELSE r : r \in rows}
    /\ UNCHANGED <<vault, cursor, applied>>

(* The cursor does not go back, not even to another UIDVALIDITY.            *)
Remember ==
    /\ Working /\ job.todo = <<>> /\ job.i = Len(job.batch.messages)
    /\ cursor' = [epoch |-> job.batch.epoch,
                  last |-> Max({job.batch.examined, cursor.last} \cup {m.uid : m \in Range(job.batch.messages)})]
    /\ moved' = (moved \/ (job.by = "fill" /\ cursor' # cursor))
    /\ EndBatch(FALSE)
    /\ UNCHANGED <<vault, rows, applied>>

(* The window is killed, or the machine stops, between two commits.         *)
Crash ==
    /\ <<pull, fill, job, byHand>> # <<NoPull, NoFill, NoJob, None>>
    /\ Spend("troubles", MaxTroubles)
    /\ pull' = NoPull /\ fill' = NoFill /\ job' = NoJob /\ byHand' = None
    /\ UNCHANGED <<server, choice, book, vault, mirror, history>>

----------------------------------------------------------------------------
Humans ==
    \/ \E s \in Scopes : SetKeptAddresses(s)
    \/ \E d \in Dossiers : Close(d) \/ DeleteOpportunity(d) \/ ReleaseReplyHold(d)
    \/ \E c \in Clients : ConfirmAddress(c)
    \/ \E m \in Mails, d \in Dossiers : FileHuman(m, d)
    \/ HoldFiled
    \/ \E r \in rows : RequestBody(r)

Pulling == Plan \/ Rewind \/ Prepare \/ Fetch \/ Pulled \/ FillRecent
Absorbing ==
    \/ \E by \in {"pull", "fill"} : Absorb(by)
    \/ ClearRows \/ ClearCursor \/ Retain \/ ForgetFiling \/ ForgetFault \/ ForgetHold
    \/ Message \/ Hold \/ File \/ Mark \/ Insert \/ FillBody \/ Remember

Next ==
    \/ \E m \in Mails : Arrive(m)
    \/ Renumber
    \/ Humans
    \/ Pulling \/ Lose \/ FetchBody
    \/ Absorbing
    \/ Crash

(* The window's clock pulls again and again while the vault is open, and    *)
(* what it began goes on.                                                   *)
Fairness == WF_vars(Pulling) /\ WF_vars(Absorbing) /\ WF_vars(FetchBody)
Spec == Init /\ [][Next]_vars /\ Fairness

----------------------------------------------------------------------------
TypeOK ==
    /\ epoch \in 1..(MaxTroubles + 1) /\ box \in Seq(Mails)
    /\ kept \in Scopes /\ gen \in Nat /\ applied \in 0..gen
    /\ open \subseteq exists /\ exists \subseteq Dossiers
    /\ filing \in [Mails -> [source : {None, "auto", "human"}, dossier : Dossiers \cup {None}]]
    /\ hold \subseteq exists /\ byHand \in Dossiers \cup {None} /\ released \subseteq Dossiers /\ moved \in BOOLEAN
    /\ fault \in [Clients -> [status : {None, "failed", "probable", "confirmed"}, by : Mails \cup {None}]]
    /\ \A r \in rows : r.mail \in Mails \cup {None} /\ r.body \in Bodies /\ r.epoch <= epoch
    /\ \A r, s \in rows : r.uid = s.uid /\ r.epoch = s.epoch => r = s

HoldsFor(m) ==
    filing[m].source = "auto" /\ filing[m].dossier # None =>
        filing[m].dossier \in hold \cup released
ToNoDossier(m) == About[m].ref # None /\ LetterOf[About[m].ref].dossier = None

(* A letter from a person, filed by the pull on a dossier, holds the        *)
(* automatic letters of that dossier, unless a human let them go: whatever  *)
(* the pull was interrupted at, and whatever was deleted or forgotten. The  *)
(* answer to a letter that was recorded without a dossier is left out.      *)
RepliesHold == \A m \in Mails : Human(m) /\ ~ToNoDossier(m) => HoldsFor(m)

(* "Une réponse reçue retient la relance [...]": but the answer to a letter *)
(* recorded without a dossier is filed on the only open one, and does not.  *)
AnswersHold == \A m \in Mails : Human(m) => HoldsFor(m)

(* The cursor never passes a letter that the choice in force keeps and that *)
(* the mirror does not hold: it would not be asked for again.               *)
NeverSkipped ==
    applied = gen /\ cursor.epoch = epoch =>
        \A u \in Uids : u <= cursor.last /\ Admits(kept, box[u]) =>
            \E r \in rows : r.uid = u /\ r.epoch = epoch /\ r.mail = box[u]

(* Two things put the cursor past a letter: a body, asked for in between,   *)
(* that came late, and a reply about a deleted dossier, which is refused    *)
(* with its whole batch. Nothing else does.                                 *)
Undisturbed == ~moved /\ exists = Dossiers
NothingSkipped == Undisturbed => NeverSkipped

(* As long as the folder keeps its numbers, the body shown under a header   *)
(* is the body of that letter.                                              *)
BodyIsItsOwn ==
    \A r \in rows : r.epoch = epoch /\ r.text # None => r.text = r.mail

(* A certain notice that the mirror shows has stopped the sendings to its   *)
(* client, or a human vouched for the address since.                        *)
NoticesStop ==
    \A r \in rows : r.mail # None /\ About[r.mail].notice = "certain" /\ r.body = "ready" =>
        \A c \in About[r.mail].fiches :
            Cardinality(About[r.mail].fiches) = 1 => fault[c].status \in {"failed", "confirmed"}

(* The pull never files otherwise a letter a human filed; it only forgets   *)
(* it with the letter.                                                      *)
HumanFilingStands ==
    [][\A m \in Mails : filing[m].source = "human" /\ job # NoJob /\ filing'[m] # filing[m] =>
           filing'[m].source \in {"human", None}]_vars

(* Every letter the choice admits ends in the mirror.                       *)
Wanted(m) == m \in Range(box) /\ Admits(kept, m)
Shown(m) == \E r \in rows : r.mail = m
LettersArrive == \A m \in Mails : <>[]Wanted(m) => <>[]Shown(m)
MailArrives == \A m \in Mails : <>[](Wanted(m) /\ Undisturbed) => <>[]Shown(m)
=============================================================================
