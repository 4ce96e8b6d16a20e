------------------------------ MODULE FollowUp ------------------------------
(***************************************************************************)
(* The follow-up of conversations and invoices: a journal of dated facts,  *)
(* a living series of moments, the copies that let a conversation finish   *)
(* the series it began, and the day of the next action that the fiche of   *)
(* an opportunity shows.                                                   *)
(*                                                                         *)
(* Every command is one transaction of the executor (module Executor), so  *)
(* one action here.  The journal is the table follow_up_events: a row is   *)
(* never changed, a retraction is a row of its own, and readers order the  *)
(* rows by their stamps, which two different clocks put.                   *)
(***************************************************************************)
EXTENDS Naturals, Sequences, FiniteSets

CONSTANTS
    None,
    Conversations,     \* opportunities
    Invoices,
    DueOn,             \* the day each invoice falls due
    Arrangements,      \* the series the living one may become
    InvoiceSeries,     \* the compiled series of invoices
    Days,              \* the days commands may name: an interval of numbers
    Weekend,           \* those that are a Saturday or a Sunday
    LastDay,           \* the last day anybody works
    Span, Noon,        \* the instants of a day, and the one of 12:00:00
    Starts,            \* the instant of a day at which somebody sits down to work
    Resumptions,       \* how many days ahead a conversation is reopened
    MaxCommands        \* a bound on the commands after the creations

ASSUME FollowUpAssumption ==
    /\ Span \in Nat /\ Noon \in 1..(Span - 1) /\ Starts \subseteq 0..(Span - 1)
    /\ Days \subseteq Nat /\ None \notin Nat
    /\ Weekend \subseteq Days /\ Resumptions \subseteq Nat /\ 1 \in Days /\ LastDay \in Days
    /\ Conversations \cap Invoices = {}
    /\ \A a \in Arrangements \cup {InvoiceSeries} :        \* never empty: LastMoment
        /\ DOMAIN a = 1..Len(a) /\ Len(a) \in Nat \ {0}
        /\ \A n \in DOMAIN a : a[n].gap \in Nat

Subjects == Conversations \cup Invoices

VARIABLES
    day, hour,         \* the day of the vault, the instant on the machine's clock
    living,            \* prospect_phrases: the living series
    copies,            \* prospect_series: the series kept for a cycle of a conversation
    fiche,             \* opportunities: stage, archived, next_action_at; an invoice's stage
    facts,             \* follow_up_events, in the order of their identifiers
    filed,             \* interactions: the letters filed with a conversation
    promised,          \* history: the series each cycle is to finish
    edited,            \* history: conversations whose fiche was dated by hand since
    gestures           \* what was done to the fiches and to the series

vars == <<day, hour, living, copies, fiche, facts, filed, promised, edited, gestures>>
clock == <<day, hour>>
history == <<promised, edited>>

Advancing == {"marked_sent", "step_skipped"}
Overriding == {"snoozed", "date_set"}

-----------------------------------------------------------------------------
(* The reading of the journal.                                             *)

Rows(s) == {i \in DOMAIN facts : facts[i].subject = s}
Retracted == {facts[i].retracts : i \in DOMAIN facts}

(* active_events: the rows still true, read by stamp, then by identifier.  *)
Active(s) == {i \in Rows(s) : facts[i].fact # "retracted" /\ i \notin Retracted}
Before(i, j) == \/ facts[i].at < facts[j].at
                \/ facts[i].at = facts[j].at /\ i < j
LastOf(S) == CHOOSE i \in S : \A j \in S \ {i} : Before(j, i)

Reprises(s) == {i \in Active(s) : facts[i].fact = "cycle_opened"}
(* entered_cycle_key: 0 for the cycle of origin.                           *)
EnteredCycle(s) == IF Reprises(s) = {} THEN 0 ELSE LastOf(Reprises(s))
InCycle(s) == {i \in Active(s) : Reprises(s) # {} => Before(EnteredCycle(s), i)}

AdvancesOf(s) == {i \in InCycle(s) : facts[i].fact \in Advancing}
(* A fact that the last advance does not cover.                            *)
Standing(s, i) == AdvancesOf(s) # {} => facts[i].at >= facts[LastOf(AdvancesOf(s))].at
Overrides(s) == {i \in InCycle(s) : facts[i].fact \in Overriding /\ Standing(s, i)}

CopyFor(c, k) == {x \in copies : x.subject = c /\ x.cycle = k}
(* steps_for_opportunity: the copy of the entered cycle, else the living.  *)
Steps(s) ==
    IF s \in Invoices THEN InvoiceSeries
    ELSE IF CopyFor(s, EnteredCycle(s)) = {} THEN living
    ELSE (CHOOSE x \in CopyFor(s, EnteredCycle(s)) : TRUE).steps

(* add_weekdays                                                            *)
WorkedDays(d, e) == Cardinality(((d + 1)..e) \ Weekend)
AddWeekdays(d, n) ==
    IF n = 0 THEN d ELSE CHOOSE e \in (d + 1)..(d + 3 * n + 2) :
                            e \notin Weekend /\ WorkedDays(d, e) = n

DateOf(i) == facts[i].at \div Span
Anchor(s) == IF s \in Invoices THEN DueOn[s]
             ELSE IF fiche[s].next = None THEN day ELSE fiche[s].next

Position(s) == Cardinality(AdvancesOf(s))
Exhausted(s) == Position(s) >= Len(Steps(s))
Moment(s) == Steps(s)[Position(s) + 1]

(* derive_cursor_with: the day the cursor gives when `anchor' is the day   *)
(* the fiche or the invoice holds.                                         *)
DueDay(s, anchor) ==
    IF Overrides(s) # {} THEN facts[LastOf(Overrides(s))].until
    ELSE IF Exhausted(s) THEN None
    ELSE IF s \in Invoices THEN anchor + Moment(s).gap
    ELSE IF AdvancesOf(s) # {} THEN AddWeekdays(DateOf(LastOf(AdvancesOf(s))), Moment(s).gap)
    ELSE anchor

(* The text a letter takes from its draft, named by the draft's moment.    *)
Drafts(s) == {i \in Active(s) : facts[i].fact = "draft_prepared"}
(* A mutant: a draft that counts for every later moment.                   *)
DraftedEver(s) == Drafts(s) \cap InCycle(s) # {}
Drafted(s) == \E i \in Drafts(s) \cap InCycle(s) : Standing(s, i)
DraftLetter(s) == IF Drafted(s) THEN facts[LastOf(Drafts(s))].letter ELSE None

-----------------------------------------------------------------------------
(* The writing of the journal.                                             *)

Now == day * Span + hour

(* A mutant: every gesture of a day stamped at noon.                       *)
StampAtNoon(s, d) == d * Span + Noon

(* stamp_after: noon of the day d, or right after the last row of that day *)
(* when that one is later; retractions and retracted rows count too.       *)
StampAfter(s, d) ==
    LET onDay == {facts[i].at : i \in {j \in Rows(s) : DateOf(j) = d}}
        last == CHOOSE t \in onDay : \A u \in onDay : u <= t
    IN  IF onDay = {} \/ last < d * Span + Noon THEN d * Span + Noon
        ELSE IF (last + 1) \div Span = d THEN last + 1 ELSE last

Fact(s, fact, at) ==
    [subject |-> s, fact |-> fact, at |-> at, until |-> None, retracts |-> None, letter |-> None]

(* A command takes its instant: nobody makes two at the same one.          *)
Works == hour < Span /\ hour' = hour + 1 /\ UNCHANGED <<day, gestures>>

Insert(row) == Len(facts) + gestures < MaxCommands /\ facts' = Append(facts, row)
NewId == Len(facts) + 1

Gesture == Len(facts) + gestures < MaxCommands /\ gestures' = gestures + 1

(* load_subject                                                            *)
Awake(s) == fiche[s].stage = "open" /\ ~fiche[s].archived

(* project_opportunity: the day derived from the journal as it now stands  *)
(* becomes the fiche's.                                                    *)
Project(s) ==
    IF s \in Invoices THEN UNCHANGED <<fiche, edited>>
    ELSE /\ \E anchor \in {Anchor(s)} :
                fiche' = [fiche EXCEPT ![s].next = DueDay(s, anchor)']
         /\ edited' = edited \ {s}

(* PrepareFollowUp                                                         *)
Prepare(s) ==
    /\ Works /\ Awake(s) /\ ~Exhausted(s)
    /\ Insert([Fact(s, "draft_prepared", Now) EXCEPT !.letter = Moment(s).key])
    /\ UNCHANGED <<living, copies, fiche, filed, history>>

(* append_advancing: a letter sent, with the interaction that files it     *)
(* under the name of its moment, or a moment skipped.                      *)
MarkSent(s) ==
    /\ Works /\ Awake(s) /\ ~Exhausted(s)
    /\ Insert([Fact(s, "marked_sent", StampAfter(s, day)) EXCEPT !.letter = DraftLetter(s)])
    /\ filed' = filed \cup (IF s \in Invoices THEN {}
                            ELSE {[fact |-> NewId, subject |-> s, moment |-> Moment(s).key]})
    /\ UNCHANGED <<living, copies, promised>>
    /\ Project(s)

Skip(s) ==
    /\ Works /\ Awake(s) /\ ~Exhausted(s)
    /\ Insert(Fact(s, "step_skipped", StampAfter(s, day)))
    /\ UNCHANGED <<living, copies, filed, promised>>
    /\ Project(s)

(* append_override: SnoozeFollowUp, to a later day, and SetFollowUpDate,   *)
(* possibly to this one.                                                   *)
PutDate(s, fact, d) ==
    /\ Works /\ Awake(s)
    /\ IF fact = "snoozed" THEN d > day ELSE d >= day
    /\ Insert([Fact(s, fact, Now) EXCEPT !.until = d])
    /\ UNCHANGED <<living, copies, filed, promised>>
    /\ Project(s)

(* A mutant: the fiche left with the day of what was undone.               *)
RetractUnprojected(s) ==
    /\ Works /\ Awake(s) /\ Active(s) # {}
    /\ Insert([Fact(s, "retracted", Now) EXCEPT !.retracts = LastOf(Active(s))])
    /\ filed' = {x \in filed : x.fact # LastOf(Active(s))}
    /\ UNCHANGED <<living, copies, fiche, promised, edited>>

(* RetractLastFollowUp                                                     *)
RetractLast(s) ==
    /\ Works /\ Awake(s) /\ Active(s) # {}
    /\ Insert([Fact(s, "retracted", Now) EXCEPT !.retracts = LastOf(Active(s))])
    /\ filed' = {x \in filed : x.fact # LastOf(Active(s))}
    /\ UNCHANGED <<living, copies, promised>>
    /\ Project(s)

-----------------------------------------------------------------------------
(* The living series.                                                      *)

Copy(c, k, steps) == [subject |-> c, cycle |-> k, steps |-> steps]

(* A cycle is to finish its series if it is under way when the living one  *)
(* changes for the first time after it began.                              *)
Entering(c, k) == [subject |-> c, cycle |-> k, steps |-> living, kept |-> FALSE]
UnderWay(x) == Awake(x.subject) /\ EnteredCycle(x.subject) = x.cycle

(* A mutant: the cycle of origin pinned, whatever the one entered.         *)
ArrangePinningOrigin(series) ==
    LET pinned == {c \in Conversations : Awake(c) /\ CopyFor(c, 0) = {}}
    IN  /\ Gesture /\ series # living
        /\ copies' = copies \cup {Copy(c, 0, living) : c \in pinned}
        /\ living' = series
        /\ promised' = {[x EXCEPT !.kept = TRUE] : x \in {y \in promised : y.kept \/ UnderWay(y)}}
        /\ UNCHANGED <<clock, fiche, facts, filed, edited>>

(* ArrangeProspectPhrases, when the order, the number or the gaps change:  *)
(* every open conversation without a copy keeps the series it is on.       *)
Arrange(series) ==
    LET pinned == {c \in Conversations : Awake(c) /\ CopyFor(c, EnteredCycle(c)) = {}}
    IN  /\ Gesture /\ series # living
        /\ copies' = copies \cup {Copy(c, EnteredCycle(c), living) : c \in pinned}
        /\ living' = series
        /\ promised' = {[x EXCEPT !.kept = TRUE] : x \in {y \in promised : y.kept \/ UnderWay(y)}}
        /\ UNCHANGED <<clock, fiche, facts, filed, edited>>

-----------------------------------------------------------------------------
(* The fiche of a conversation.                                            *)

Create(c, d) ==
    /\ fiche[c].stage = "none"
    /\ fiche' = [fiche EXCEPT ![c] = [stage |-> "open", archived |-> FALSE, next |-> d]]
    /\ promised' = promised \cup {Entering(c, 0)}
    /\ UNCHANGED <<clock, gestures, living, copies, facts, filed, edited>>

(* UpdateOpportunity may take the day away; AdvanceOpportunity may not.    *)
EditFiche(c, next) ==
    /\ Gesture /\ fiche[c].stage = "open"
    /\ fiche' = [fiche EXCEPT ![c].next = next]
    /\ edited' = edited \cup {c}
    /\ UNCHANGED <<clock, living, copies, facts, filed, promised>>
UpdateOpportunity(c, next) == EditFiche(c, next)
AdvanceOpportunity(c, d) == EditFiche(c, d)

(* WinOpportunity, LoseOpportunity: the day goes.                          *)
CloseOpportunity(c, stage) ==
    /\ Gesture /\ fiche[c].stage = "open"
    /\ fiche' = [fiche EXCEPT ![c].stage = stage, ![c].next = None]
    /\ UNCHANGED <<clock, living, copies, facts, filed, history>>

(* ReopenOpportunity and open_cycle: the letters stay, the count restarts. *)
(* The new cycle takes the living series, and keeps a copy of it once any  *)
(* conversation has one.                                                   *)
ReopenOpportunity(c, d) ==
    /\ Works /\ fiche[c].stage = "lost"
    /\ fiche' = [fiche EXCEPT ![c].stage = "open", ![c].next = d]
    /\ Insert(Fact(c, "cycle_opened", StampAfter(c, d)))
    /\ copies' = copies \cup (IF copies = {} THEN {} ELSE {Copy(c, NewId, living)})
    /\ promised' = promised \cup {Entering(c, NewId)}
    /\ edited' = edited \ {c}
    /\ UNCHANGED <<living, filed>>

ArchiveOpportunity(c, archived) ==
    /\ Gesture /\ fiche[c].stage \in {"open", "won", "lost"} /\ fiche[c].archived # archived
    /\ fiche' = [fiche EXCEPT ![c].archived = archived]
    /\ UNCHANGED <<clock, living, copies, facts, filed, history>>

(* DeleteOpportunity takes the interactions along, not the journal.        *)
DeleteOpportunity(c) ==
    /\ Gesture /\ fiche[c].stage \in {"open", "won", "lost"}
    /\ fiche' = [fiche EXCEPT ![c] = [stage |-> "gone", archived |-> FALSE, next |-> None]]
    /\ filed' = {x \in filed : x.subject # c}
    /\ UNCHANGED <<clock, living, copies, facts, history>>

DeleteInteraction(x) ==
    /\ Gesture /\ filed' = filed \ {x}
    /\ UNCHANGED <<clock, living, copies, fiche, facts, history>>

(* A payment settles an invoice, its cancellation opens it again.          *)
Settle(i) ==
    /\ Gesture /\ fiche' = [fiche EXCEPT ![i].stage = IF @ = "open" THEN "settled" ELSE "open"]
    /\ UNCHANGED <<clock, living, copies, facts, filed, history>>

(* People come back the next day.                                          *)
NextDay(h) ==
    /\ day < LastDay
    /\ day' = day + 1 /\ hour' = h
    /\ UNCHANGED <<gestures, living, copies, fiche, facts, filed, history>>

Init ==
    /\ day = 1 /\ hour \in Starts
    /\ living \in Arrangements
    /\ copies = {} /\ facts = <<>> /\ filed = {}
    /\ fiche = [s \in Subjects |-> [stage |-> IF s \in Invoices THEN "open" ELSE "none",
                                    archived |-> FALSE, next |-> None]]
    /\ promised = {} /\ edited = {} /\ gestures = 0

Next ==
    \/ \E s \in Subjects :
        \/ Prepare(s) \/ MarkSent(s) \/ Skip(s) \/ RetractLast(s)
        \/ \E fact \in Overriding, d \in Days : PutDate(s, fact, d)
    \/ \E series \in Arrangements : Arrange(series)
    \/ \E c \in Conversations :
        \/ \E d \in Days : Create(c, d) \/ AdvanceOpportunity(c, d)
        \/ \E next \in Days \cup {None} : UpdateOpportunity(c, next)
        \/ \E stage \in {"won", "lost"} : CloseOpportunity(c, stage)
        \/ \E ahead \in Resumptions : ReopenOpportunity(c, day + ahead)
        \/ \E archived \in BOOLEAN : ArchiveOpportunity(c, archived)
        \/ DeleteOpportunity(c)
    \/ \E x \in filed : DeleteInteraction(x)
    \/ \E i \in Invoices : Settle(i)
    \/ \E h \in Starts : NextDay(h)

Spec == Init /\ [][Next]_vars

-----------------------------------------------------------------------------
TypeOK ==
    /\ day \in 1..LastDay /\ hour \in 0..Span
    /\ living \in Arrangements
    /\ \A x \in copies \cup promised :
        x.subject \in Conversations /\ x.cycle \in 0..Len(facts) /\ x.steps \in Arrangements
    /\ \A c \in Conversations : \A k \in 0..Len(facts) : Cardinality(CopyFor(c, k)) <= 1
    /\ \A s \in Subjects : fiche[s].next \in Nat \cup {None}
    /\ \A i \in DOMAIN facts :
        /\ facts[i].subject \in Subjects /\ facts[i].at \in Nat
        /\ facts[i].fact = "retracted" <=> facts[i].retracts \in 1..(i - 1)

(* Every gesture counts once, in the order in which it was made, and       *)
(* undoing takes the last one back: the journal, its stamps put by two     *)
(* clocks, its retractions and its sorting amount to a pile of gestures,   *)
(* and the position and the day put by hand are those of the pile.         *)
Pile(s) ==
    LET nth(n) == CHOOSE i \in Active(s) : Cardinality({j \in Active(s) : Before(j, i)}) = n - 1
    IN  [n \in 1..Cardinality(Active(s)) |->
            [fact |-> facts[nth(n)].fact, until |-> facts[nth(n)].until]]
Promise == INSTANCE FollowUpPromise WITH
    Gestures <- [fact : Overriding, until : Days]
                \cup [fact : Advancing \cup {"draft_prepared", "cycle_opened"}, until : {None}],
    pile <- [s \in Subjects |-> Pile(s)],
    position <- [s \in Subjects |-> Position(s)],
    wished <- [s \in Subjects |->
                IF Overrides(s) = {} THEN None ELSE facts[LastOf(Overrides(s))].until]
ImplementsPromise == Promise!Spec

(* A conversation under way finishes its series, and a new or resumed one  *)
(* takes the series of the moment: an awake conversation is on the series  *)
(* it entered its cycle on, whatever was arranged, archived, resumed or    *)
(* undone since.                                                           *)
FinishesItsSeries == \A x \in promised : UnderWay(x) => Steps(x.subject) = x.steps

(* The two readings of the next day agree: the day the fiche holds, that   *)
(* late_actions and the lists read, is the one the card derives from the   *)
(* journal, as long as nobody dated the fiche itself.                      *)
NextActionIsDue ==
    \A x \in promised : UnderWay(x) /\ x.subject \notin edited =>
        fiche[x.subject].next = DueDay(x.subject, Anchor(x.subject))

(* A letter filed with a conversation is one its journal still counts, and *)
(* it carries the draft of its own moment or none, in the conversations    *)
(* whose every cycle finishes its series.                                  *)
LettersAreFiled ==
    \A c \in Conversations :
        /\ \A x \in filed : x.subject = c => x.fact \in Active(c)
        /\ (\A k \in {0} \cup Reprises(c) : \E x \in promised : x.subject = c /\ x.cycle = k) =>
            \A x \in filed : x.subject = c => facts[x.fact].letter \in {None, x.moment}

-----------------------------------------------------------------------------
(* What the documentation says and the program does not do.                *)

(* "Un report ou une date posée à la main l'emporte sur les deux."         *)
HandDateWins ==
    [][\A s \in Subjects, fact \in Overriding, d \in Days :
        PutDate(s, fact, d) => DueDay(s, d + 1)' = d]_vars

(* "Après un envoi ou un saut, l'écart d'une conversation avance [...]": a *)
(* letter sent takes the conversation to its next moment.                  *)
SentMovesOn == [][\A s \in Subjects : MarkSent(s) => Position(s)' = Position(s) + 1]_vars
=============================================================================
