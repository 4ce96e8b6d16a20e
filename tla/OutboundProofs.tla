---------------------------- MODULE OutboundProofs ----------------------------
(***************************************************************************)
(* What is said of a letter is so, a step of a series goes once, and a      *)
(* series stands where its letters took it, for any processes, subjects,    *)
(* lengths of a series and numbers of letters. The argument: a letter is in *)
(* the hands of one process at a time, which took it from the outbox, so    *)
(* what that process tells of it is about the one exchange there was; and   *)
(* the index counts one letter per step, so that the series is exactly at   *)
(* the step of a letter that leaves.                                        *)
(***************************************************************************)
EXTENDS Outbound, TLAPS, FiniteSetTheorems, SequenceTheorems

(* The rows, and the columns a step may leave alone.                        *)
Rows == [status : Statuses, subject : Subjects \cup {NoSubject}, step : 0..Steps,
         token : Tokens, waiting : BOOLEAN, auto : BOOLEAN]
Outcome == [letter : Ids, ok : BOOLEAN]
Stages == {"idle", "freeze", "release", "enroll", "claim", "post", "submit", "record"}

LEMMA TypeMeans ==
    TypeOK <=> /\ letters \in [Ids -> Rows]
               /\ at \in [Subjects -> 1..(Steps + 1)]
               /\ recent \subseteq Ids
               /\ pc \in [Procs -> Stages]
               /\ batch \in [Procs -> SUBSET Ids]
               /\ outcomes \in [Procs -> Seq(Outcome)]
               /\ delivered \subseteq Ids /\ denied \subseteq Ids /\ vouched \subseteq Ids
               /\ moved \subseteq Subjects /\ interrupts \in 0..MaxInterrupts
BY DEF TypeOK, Rows, Outcome, Stages

LEMMA TypeMeansNext ==
    TypeOK' <=> /\ letters' \in [Ids -> Rows]
                /\ at' \in [Subjects -> 1..(Steps + 1)]
                /\ recent' \subseteq Ids
                /\ pc' \in [Procs -> Stages]
                /\ batch' \in [Procs -> SUBSET Ids]
                /\ outcomes' \in [Procs -> Seq(Outcome)]
                /\ delivered' \subseteq Ids /\ denied' \subseteq Ids /\ vouched' \subseteq Ids
                /\ moved' \subseteq Subjects /\ interrupts' \in 0..MaxInterrupts
BY DEF TypeOK, Rows, Outcome, Stages

LEMMA ConstantsHave ==
    /\ Steps \in Nat \ {0} /\ Cap \in Nat \ {0} /\ MaxLetters \in Nat /\ MaxInterrupts \in Nat
    /\ Windows \subseteq Procs /\ NoToken \notin Procs /\ Gone \notin Procs
    /\ NoSubject \notin Subjects
    /\ Procs \subseteq Tokens /\ NoToken \in Tokens /\ Gone \in Tokens
    /\ Ids \subseteq Nat
BY OutboundAssumption DEF Tokens, Ids

----------------------------------------------------------------------------
(* The operators of the model.                                              *)

(* What UPDATE .. SET status does to each row.                              *)
LEMMA BecomesRows ==
    ASSUME letters \in [Ids -> Rows], NEW which, NEW status \in Statuses
    PROVE  /\ Becomes(which, status) \in [Ids -> Rows]
           /\ \A l \in Ids :
                /\ Becomes(which, status)[l].status =
                     IF l \in which THEN status ELSE letters[l].status
                /\ Becomes(which, status)[l].subject = letters[l].subject
                /\ Becomes(which, status)[l].step = letters[l].step
BY DEF Becomes, Rows

LEMMA LetterIsRow ==
    ASSUME NEW s \in Subjects \cup {NoSubject}, NEW k \in 0..Steps, NEW t \in Tokens,
           NEW w \in BOOLEAN, NEW a \in BOOLEAN
    PROVE  Letter(s, k, t, w, a) \in Rows
BY DEF Letter, Rows, Statuses

LEMMA FailedIsSeq ==
    ASSUME NEW which \in SUBSET Ids
    PROVE  /\ Failed(which) \in Seq(Outcome)
           /\ \A i \in 1..Len(Failed(which)) :
                Failed(which)[i].letter \in which /\ Failed(which)[i].ok = FALSE
           /\ \A i, j \in 1..Len(Failed(which)) :
                Failed(which)[i].letter = Failed(which)[j].letter => i = j
<1> DEFINE S == [letter : which, ok : {FALSE}]
<1>0. ASSUME NEW x \in [letter : which, ok : {FALSE}]
      PROVE  x = [letter |-> x.letter, ok |-> FALSE]
  BY Zenon
<1>1. IsFiniteSet(which)
  <2>1. IsFiniteSet(1..MaxLetters)
    BY FS_Interval, ConstantsHave
  <2> QED BY <2>1, FS_Subset DEF Ids
<1>2. IsFiniteSet(S) /\ Cardinality(S) \in Nat
  <2> DEFINE f == [l \in which |-> [letter |-> l, ok |-> FALSE]]
  <2>1. f \in [which -> S]
    OBVIOUS
  <2>2. \A x \in S : x.letter \in which /\ f[x.letter] = x
    BY <1>0
  <2>3. f \in Surjection(which, S)
    <3> HIDE DEF f, S
    <3> QED BY <2>1, <2>2 DEF Surjection
  <2>4. IsFiniteSet(S)
    BY <1>1, <2>3, FS_Surjection
  <2> QED BY <2>4, FS_CardinalityType
<1>3. \A x \in S : x \in Outcome /\ x.letter \in which /\ x.ok = FALSE
  BY DEF Outcome
<1>4. \A x, y \in S : x.letter = y.letter => x = y
  BY <1>0
<1> HIDE DEF S
<1>5. PICK f : f \in Bijection(1..Cardinality(S), S)
  BY <1>2, FS_CardinalityType DEF ExistsBijection
<1>6. f \in [1..Cardinality(S) -> S] /\ IsInjective(f)
  BY <1>5 DEF Bijection, Injection, IsInjective
<1>7. Failed(which) \in [1..Cardinality(S) -> S] /\ IsInjective(Failed(which))
  BY <1>6 DEF SetToSeq, Failed, S
<1>8. Failed(which) \in Seq(S)
  BY <1>2, <1>7, SeqDef
<1>9. Failed(which) \in Seq(Outcome)
  BY <1>3, <1>8, SeqMonotonic
<1>10. DOMAIN Failed(which) = 1..Len(Failed(which))
       /\ \A i \in 1..Len(Failed(which)) : Failed(which)[i] \in S
  BY <1>8, LenProperties, ElementOfSeq
<1> QED
  BY <1>3, <1>4, <1>7, <1>9, <1>10 DEF IsInjective

(* How a process goes on.                                                   *)
LEMMA Continues ==
    ASSUME TypeOK, NEW p \in Procs, NEW left \in SUBSET Ids, NEW toRecord \in Seq(Outcome),
           Continue(p, left, toRecord)
    PROVE  /\ pc' \in [Procs -> Stages] /\ batch' \in [Procs -> SUBSET Ids]
           /\ outcomes' \in [Procs -> Seq(Outcome)]
           /\ batch'[p] = left /\ outcomes'[p] = toRecord
           /\ pc'[p] # "submit" /\ (pc'[p] = "record" => toRecord # <<>>)
           /\ \A q \in Procs : q # p =>
                pc'[q] = pc[q] /\ batch'[q] = batch[q] /\ outcomes'[q] = outcomes[q]
BY TypeMeans DEF Continue, Goto, Stages

----------------------------------------------------------------------------
(* The inductive invariant.                                                 *)

Has(p, l) == \E i \in 1..Len(outcomes[p]) : outcomes[p][i].letter = l
Holds(p, l) == l \in batch[p] \/ Has(p, l)

(* A letter in the hands of a process was taken from the outbox.            *)
HeldWasTaken ==
    \A p \in Procs, l \in Ids : Holds(p, l) => letters[l].status \notin {"none", "armed"}

(* It is in the hands of one process, and once.                             *)
OneHolder ==
    /\ \A p, q \in Procs, l \in Ids : Holds(p, l) /\ Holds(q, l) => p = q
    /\ \A p \in Procs : \A l \in batch[p] : ~Has(p, l)
    /\ \A p \in Procs : \A i, j \in 1..Len(outcomes[p]) :
         outcomes[p][i].letter = outcomes[p][j].letter => i = j

(* What a process is about to record of it is so.                           *)
OutcomesAreTrue ==
    \A p \in Procs : \A i \in 1..Len(outcomes[p]) :
      outcomes[p][i].letter \in delivered => outcomes[p][i].ok \/ outcomes[p][i].letter \in denied

OksWent ==
    \A p \in Procs : \A i \in 1..Len(outcomes[p]) :
      outcomes[p][i].ok => outcomes[p][i].letter \in delivered

(* The letter a process hands to the server is on its way, or a human was    *)
(* told that nobody knows.                                                  *)
Handed(p) == outcomes[p][Len(outcomes[p])]
HandedIsLeaving ==
    \A p \in Procs :
      /\ pc[p] \in {"submit", "record"} => outcomes[p] # <<>>
      /\ pc[p] = "submit" =>
           /\ ~Handed(p).ok /\ Handed(p).letter \notin delivered
           /\ letters[Handed(p).letter].status \in {"sending", "uncertain", "sent", "failed"}
           /\ letters[Handed(p).letter].status = "failed" => Handed(p).letter \in denied

(* The index holds: of each step, one letter that was not refused.          *)
OneIndexed ==
    \A l, m \in In(Indexed) :
      /\ letters[l].subject # NoSubject
      /\ letters[l].subject = letters[m].subject /\ letters[l].step = letters[m].step
      => l = m

(* A letter of a series is of a step, which the series had reached.         *)
WrittenInTime ==
    \A l \in Ids :
      letters[l].subject # NoSubject =>
        /\ letters[l].step \in 1..Steps
        /\ letters[l].subject \notin moved => letters[l].step <= at[letters[l].subject]

Inv ==
    /\ TypeOK /\ HeldWasTaken /\ OneHolder /\ OutcomesAreTrue /\ OksWent /\ HandedIsLeaving
    /\ OneIndexed /\ WrittenInTime /\ StatusIsTrue /\ SeriesFollowsLetters

LEMMA HandedIsOutcome ==
    ASSUME TypeOK, NEW p \in Procs, outcomes[p] # <<>>
    PROVE  /\ Len(outcomes[p]) \in 1..Len(outcomes[p]) /\ Handed(p) \in Outcome
           /\ outcomes[p] \in Seq(Outcome)
<1>1. outcomes[p] \in Seq(Outcome)
  BY TypeMeans
<1>2. Len(outcomes[p]) \in Nat \ {0}
  BY <1>1, EmptySeq
<1> QED
  BY <1>1, <1>2, ElementOfSeq DEF Handed

LEMMA InvInit == Init => Inv
<1> SUFFICES ASSUME Init PROVE Inv
  OBVIOUS
<1>1. NoLetter \in Rows /\ NoLetter.status = "none" /\ NoLetter.subject = NoSubject
  <2>1. Letter(NoSubject, 0, NoToken, FALSE, FALSE) \in Rows
    <3>1. 0 \in 0..Steps /\ NoToken \in Tokens /\ NoSubject \in Subjects \cup {NoSubject}
      BY ConstantsHave
    <3> QED BY <3>1, LetterIsRow, Zenon
  <2> QED BY <2>1 DEF NoLetter, Letter, Rows, Statuses
<1>2. TypeOK
  BY <1>1, ConstantsHave, TypeMeans DEF Init, Stages
<1>3. \A p \in Procs : pc[p] = "idle" /\ batch[p] = {} /\ outcomes[p] = <<>>
  BY DEF Init
<1>4. HeldWasTaken /\ OneHolder /\ OutcomesAreTrue /\ OksWent /\ HandedIsLeaving
  BY <1>3 DEF HeldWasTaken, OneHolder, OutcomesAreTrue, OksWent, HandedIsLeaving, Holds, Has
<1>5. \A l \in Ids : letters[l].status = "none" /\ letters[l].subject = NoSubject
  BY <1>1 DEF Init
<1>6. OneIndexed /\ WrittenInTime
  BY <1>5 DEF OneIndexed, WrittenInTime, In
<1>7. StatusIsTrue
  BY <1>5 DEF StatusIsTrue, Init, In
<1>8. SeriesFollowsLetters
  <2>1. In({"sent"}) = {}
    BY <1>5 DEF In
  <2>2. \A s \in Subjects, k \in 1..Steps : at[s] = 1 /\ ~(at[s] > k)
    BY ConstantsHave DEF Init
  <2> QED BY <2>1, <2>2 DEF SeriesFollowsLetters
<1> QED
  BY <1>2, <1>4, <1>6, <1>7, <1>8 DEF Inv

----------------------------------------------------------------------------
(* Steps that hand no letter to a process and take no series further.       *)

KeepsSteps ==
    \A l \in Ids :
      letters'[l].subject = letters[l].subject /\ letters'[l].step = letters[l].step

(* How the status of a letter may change under the hands of the others.     *)
Settles(from, to) ==
    \/ from = to
    \/ from \in {"armed", "held"} /\ to = "cancelled"
    \/ from = "sending" /\ to = "uncertain"

KeepsHands ==
    /\ batch' = batch /\ outcomes' = outcomes
    /\ \A p \in Procs : pc'[p] \in {"submit", "record"} => pc'[p] = pc[p]

LEMMA QuietKeeps ==
    ASSUME Inv, TypeOK', KeepsSteps, KeepsHands, at' = at, moved' = moved,
           delivered' = delivered, denied \subseteq denied', vouched' = vouched,
           \A l \in Ids : \/ Settles(letters[l].status, letters'[l].status)
                          \/ /\ letters[l].status \in {"uncertain", "failed"}
                             /\ letters'[l].status = "failed" /\ l \in denied'
    PROVE  Inv'
<1> USE DEF Inv
<1>0. \A l \in Ids : letters[l].status \in Statuses /\ letters'[l].status \in Statuses
  BY TypeMeans, TypeMeansNext DEF Rows
<1>1. HeldWasTaken'
  BY <1>0 DEF HeldWasTaken, Holds, Has, KeepsHands, Settles
<1>2. OneHolder' /\ OutcomesAreTrue' /\ OksWent'
  BY DEF OneHolder, Holds, Has, OutcomesAreTrue, OksWent, KeepsHands
<1>3. HandedIsLeaving'
  <2>1. ASSUME NEW p \in Procs, outcomes[p] # <<>>  PROVE Handed(p).letter \in Ids
    BY <2>1, HandedIsOutcome DEF Outcome
  <2> QED BY <2>1 DEF HandedIsLeaving, Handed, KeepsHands, Settles
<1>4. In(Indexed)' \subseteq In(Indexed) /\ OneIndexed'
  <2>1. In(Indexed)' \subseteq In(Indexed)
    BY DEF In, Indexed, Settles
  <2> QED BY <2>1 DEF OneIndexed, KeepsSteps, In
<1>5. WrittenInTime'
  BY DEF WrittenInTime, KeepsSteps
<1>6. StatusIsTrue'
  BY <1>0 DEF StatusIsTrue, In, Settles
<1>7. SeriesFollowsLetters'
  <2>1. In({"sent"})' = In({"sent"})
    BY <1>0 DEF In, Settles
  <2>2. \A s \in Subjects, k \in 1..Steps : Written(s, k)' = Written(s, k)
    BY DEF Written, KeepsSteps
  <2> QED BY <2>1, <2>2 DEF SeriesFollowsLetters
<1> QED
  BY <1>1, <1>2, <1>3, <1>4, <1>5, <1>6, <1>7

LEMMA CancelKeeps == ASSUME Inv, NEW l \in Ids, Cancel(l) PROVE Inv'
<1> USE DEF Inv
<1>1. letters' \in [Ids -> Rows] /\ KeepsSteps
      /\ \A m \in Ids : letters'[m].status = IF m = l THEN "cancelled" ELSE letters[m].status
  BY TypeMeans, BecomesRows DEF Cancel, KeepsSteps, Statuses
<1>2. TypeOK'
  BY <1>1, TypeMeans, TypeMeansNext DEF Cancel, local, history
<1>3. KeepsHands
  BY DEF Cancel, local, KeepsHands
<1> QED
  BY <1>1, <1>2, <1>3, QuietKeeps DEF Cancel, history, local, Settles

LEMMA DisputeKeeps == ASSUME Inv, NEW l \in Ids, Resolve(l, FALSE) PROVE Inv'
<1> USE DEF Inv
<1>1. letters' \in [Ids -> Rows] /\ KeepsSteps
      /\ \A m \in Ids : letters'[m].status = IF m = l THEN "failed" ELSE letters[m].status
  BY TypeMeans, BecomesRows DEF Resolve, KeepsSteps, Statuses
<1>2. TypeOK'
  <2>1. /\ denied' = denied \cup {l} /\ at' = at /\ recent' = recent /\ vouched' = vouched
        /\ pc' = pc /\ batch' = batch /\ outcomes' = outcomes
        /\ delivered' = delivered /\ moved' = moved /\ interrupts' = interrupts
    BY DEF Resolve, local
  <2> QED BY <1>1, <2>1, TypeMeans, TypeMeansNext
<1>3. KeepsHands
  BY DEF Resolve, local, KeepsHands
<1> QED
  BY <1>1, <1>2, <1>3, QuietKeeps DEF Resolve, local, Settles

LEMMA TimeKeeps == ASSUME Inv, Time PROVE Inv'
<1> USE DEF Inv
<1>1. ASSUME NEW l \in Ids, UndoEnds(l) PROVE Inv'
  <2>1. letters' \in [Ids -> Rows] /\ KeepsSteps
        /\ \A m \in Ids : letters'[m].status = letters[m].status
    BY <1>1, TypeMeans, ZenonT(60) DEF UndoEnds, KeepsSteps, Rows
  <2>2. TypeOK'
    BY <1>1, <2>1, TypeMeans, TypeMeansNext DEF UndoEnds, local, history
  <2> QED
    BY <1>1, <2>1, <2>2, QuietKeeps DEF UndoEnds, KeepsHands, history, local, Settles
<1>2. ASSUME NEW l \in Ids, HourPasses(l) PROVE Inv'
  <2>1. TypeOK'
    BY <1>2, TypeMeans, TypeMeansNext DEF HourPasses, local, history
  <2> QED
    BY <1>2, <2>1, QuietKeeps DEF HourPasses, KeepsSteps, KeepsHands, history, local, Settles
<1> QED BY <1>1, <1>2 DEF Time

(* What the posting does before it takes letters.                           *)
LEMMA SweepKeeps ==
    ASSUME Inv, NEW p \in Procs,
           AbandonHeld(p) \/ FreezeInterrupted(p) \/ ReleaseStaleArmed(p)
    PROVE  Inv'
<1> USE DEF Inv
<1>1. /\ batch' = batch /\ outcomes' = outcomes
      /\ at' = at /\ recent' = recent /\ UNCHANGED history
  BY DEF AbandonHeld, FreezeInterrupted, ReleaseStaleArmed
<1>2. pc' \in [Procs -> Stages] /\ KeepsHands
  <2>1. PICK stage \in {"freeze", "release", "enroll"} : pc' = [pc EXCEPT ![p] = stage]
    BY DEF AbandonHeld, FreezeInterrupted, ReleaseStaleArmed, Goto
  <2> QED BY <1>1, <2>1, TypeMeans DEF Stages, KeepsHands
<1>3. /\ letters' \in [Ids -> Rows] /\ KeepsSteps
      /\ \A l \in Ids : Settles(letters[l].status, letters'[l].status)
  <2>1. CASE letters' = Becomes(In({"held"}), "cancelled")
    BY <2>1, TypeMeans, BecomesRows DEF KeepsSteps, Settles, In, Statuses
  <2>2. CASE letters' = Becomes(In({"sending"}), "uncertain")
    BY <2>2, TypeMeans, BecomesRows DEF KeepsSteps, Settles, In, Statuses
  <2>3. CASE letters' = Becomes(Stale(p), "cancelled")
    BY <2>3, TypeMeans, BecomesRows DEF KeepsSteps, Settles, In, Stale, Statuses
  <2> QED
    BY <2>1, <2>2, <2>3 DEF AbandonHeld, FreezeInterrupted, ReleaseStaleArmed
<1>4. TypeOK'
  BY <1>1, <1>2, <1>3, TypeMeans, TypeMeansNext DEF history
<1> QED
  BY <1>1, <1>2, <1>3, <1>4, QuietKeeps DEF history

----------------------------------------------------------------------------
(* Steps that write letters.                                                *)

(* New letters are armed in empty rows, for steps that are reached and have *)
(* no letter the index counts; what they replace has failed.                *)
Writes(new) ==
    /\ \A l \in new :
         /\ letters[l].status = "none" /\ letters'[l].status = "armed"
         /\ letters'[l].subject # NoSubject =>
              /\ letters'[l].subject \in Subjects
              /\ letters'[l].step \in 1..Steps
              /\ letters'[l].subject \notin moved =>
                   letters'[l].step <= at[letters'[l].subject]
    /\ \A l \in Ids \ new :
         /\ letters'[l].subject = letters[l].subject /\ letters'[l].step = letters[l].step
         /\ \/ letters'[l].status = letters[l].status
            \/ /\ letters[l].status \in {"uncertain", "failed"}
               /\ letters'[l].status = "failed" /\ l \in denied'
    /\ \A l \in new, m \in Ids :
         /\ letters'[l].subject # NoSubject /\ letters'[m].status \in Indexed
         /\ letters'[l].subject = letters'[m].subject /\ letters'[l].step = letters'[m].step
         => l = m

LEMMA WritesKeep ==
    ASSUME Inv, TypeOK', NEW new \in SUBSET Ids, Writes(new), KeepsHands,
           at' = at, moved' = moved, delivered' = delivered, denied \subseteq denied',
           vouched' = vouched
    PROVE  Inv'
<1> USE DEF Inv
<1>0. \A l \in Ids : letters[l].status \in Statuses /\ letters'[l].status \in Statuses
  BY TypeMeans, TypeMeansNext DEF Rows
<1>1. HeldWasTaken'
  BY <1>0 DEF HeldWasTaken, Holds, Has, KeepsHands, Writes
<1>2. OneHolder' /\ OutcomesAreTrue' /\ OksWent'
  BY DEF OneHolder, Holds, Has, OutcomesAreTrue, OksWent, KeepsHands
<1>3. HandedIsLeaving'
  <2>1. ASSUME NEW p \in Procs, outcomes[p] # <<>>  PROVE Handed(p).letter \in Ids
    BY <2>1, HandedIsOutcome DEF Outcome
  <2> QED BY <2>1 DEF HandedIsLeaving, Handed, KeepsHands, Writes
<1>4. OneIndexed'
  BY DEF OneIndexed, Writes, In, Indexed
<1>5. WrittenInTime'
  BY DEF WrittenInTime, Writes
<1>6. StatusIsTrue'
  BY <1>0 DEF StatusIsTrue, In, Writes
<1>7. SeriesFollowsLetters'
  <2>1. In({"sent"})' = In({"sent"})
    BY <1>0 DEF In, Writes
  <2>2. \A s \in Subjects, k \in 1..Steps :
           (Written(s, k) \cap In({"sent"}))' = Written(s, k) \cap In({"sent"})
    BY <2>1 DEF Written, Writes, In
  <2> QED BY <2>1, <2>2 DEF SeriesFollowsLetters
<1> QED
  BY <1>1, <1>2, <1>3, <1>4, <1>5, <1>6, <1>7

LEMMA ArmKeeps ==
    ASSUME Inv, NEW l \in Ids, NEW t \in {NoToken} \cup Windows,
           NEW s \in Subjects \cup {NoSubject}, NEW k \in 0..Steps,
           s # NoSubject => k \in 1..at[s],
           Arm(l, s, k, t)
    PROVE  Inv'
<1> USE DEF Inv
<1>1. t \in Tokens
  BY ConstantsHave
<1>2. Letter(s, k, t, TRUE, FALSE) \in Rows
  BY <1>1, LetterIsRow
<1>3. letters' = [letters EXCEPT ![l] = Letter(s, k, t, TRUE, FALSE)]
  BY DEF Arm
<1>4. letters' \in [Ids -> Rows]
  BY <1>2, <1>3, TypeMeans
<1>5. TypeOK'
  BY <1>4, TypeMeans, TypeMeansNext DEF Arm, local, history
<1>6. letters'[l].status = "armed" /\ letters'[l].subject = s /\ letters'[l].step = k
      /\ \A m \in Ids : m # l => letters'[m] = letters[m]
  BY <1>3, TypeMeans DEF Letter
<1>7. \A m \in Ids : m # l /\ letters[m].status \in Indexed /\ s # NoSubject
                    => ~(letters[m].subject = s /\ letters[m].step = k)
  BY DEF Arm, Unique, Written, In
<1>8. Writes({l})
  <2>1. s # NoSubject => k \in 1..Steps /\ k <= at[s]
    BY TypeMeans, ConstantsHave
  <2>2. letters[l].status = "none"
    BY DEF Arm, Fresh
  <2>3. letters'[l].subject # NoSubject =>
          /\ letters'[l].subject \in Subjects /\ letters'[l].step \in 1..Steps
          /\ letters'[l].subject \notin moved => letters'[l].step <= at[letters'[l].subject]
    BY <1>6, <2>1
  <2>4. ASSUME NEW m \in Ids, letters'[l].subject # NoSubject, letters'[m].status \in Indexed,
               letters'[l].subject = letters'[m].subject, letters'[l].step = letters'[m].step
        PROVE  l = m
    BY <1>6, <1>7, <2>4
  <2>5. \A m \in Ids \ {l} : letters'[m] = letters[m]
    BY <1>6
  <2> QED BY <1>6, <2>2, <2>3, <2>4, <2>5 DEF Writes
<1> QED
  BY <1>5, <1>8, WritesKeep DEF Arm, KeepsHands, local, history

LEMMA RetryKeeps ==
    ASSUME Inv, NEW l \in Ids, NEW m \in Ids, NEW t \in Tokens, Retry(l, m, t)
    PROVE  Inv'
<1> USE DEF Inv
<1> DEFINE s == letters[l].subject
           k == letters[l].step
           letter == Letter(s, k, t, FALSE, FALSE)
           failed == Becomes({l}, "failed")
<1>1. /\ letters[l].status \in {"failed", "uncertain"} /\ letters[m].status = "none"
      /\ s # NoSubject => Written(s, k) \cap In(Indexed) \subseteq {l}
      /\ letters' = [failed EXCEPT ![m] = letter]
      /\ denied' = denied \cup {l}
      /\ at' = at /\ recent' = recent /\ vouched' = vouched
      /\ pc' = pc /\ batch' = batch /\ outcomes' = outcomes
      /\ delivered' = delivered /\ moved' = moved /\ interrupts' = interrupts
  BY DEF Retry, Fresh, local
<1>2. s \in Subjects \cup {NoSubject} /\ k \in 0..Steps
  BY TypeMeans DEF Rows
<1>3. letter \in Rows /\ letter.status = "armed" /\ letter.subject = s /\ letter.step = k
  <2>1. letter \in Rows
    <3> HIDE DEF s, k
    <3> QED BY <1>2, LetterIsRow
  <2> QED BY <2>1 DEF Letter
<1>4. /\ failed \in [Ids -> Rows]
      /\ \A n \in Ids : /\ failed[n].status = IF n = l THEN "failed" ELSE letters[n].status
                        /\ failed[n].subject = letters[n].subject
                        /\ failed[n].step = letters[n].step
  BY TypeMeans, BecomesRows DEF Statuses
<1>5. s # NoSubject => k \in 1..Steps /\ s \in Subjects /\ (s \notin moved => k <= at[s])
  BY <1>2 DEF WrittenInTime
<1>6. \A n \in Ids : n # l /\ letters[n].status \in Indexed /\ s # NoSubject
                    => ~(letters[n].subject = s /\ letters[n].step = k)
  BY <1>1 DEF Written, In
<1> HIDE DEF letter, failed
<1>7. letters' \in [Ids -> Rows]
  BY <1>1, <1>3, <1>4
<1>8. TypeOK'
  BY <1>1, <1>7, TypeMeans, TypeMeansNext
<1>9. l # m
  BY <1>1
<1>10. /\ letters'[m].status = "armed" /\ letters'[m].subject = s /\ letters'[m].step = k
       /\ \A n \in Ids : n # m =>
            /\ letters'[n].status = IF n = l THEN "failed" ELSE letters[n].status
            /\ letters'[n].subject = letters[n].subject
            /\ letters'[n].step = letters[n].step
  BY <1>1, <1>3, <1>4
<1> HIDE DEF s, k
<1>11. Writes({m})
  BY <1>1, <1>5, <1>6, <1>9, <1>10 DEF Writes, Indexed
<1> QED
  BY <1>1, <1>8, <1>11, WritesKeep DEF KeepsHands

LEMMA EnrollKeeps == ASSUME Inv, NEW p \in Procs, EnrollToday(p) PROVE Inv'
<1> USE DEF Inv
<1>1. /\ batch' = batch /\ outcomes' = outcomes /\ at' = at /\ recent' = recent
      /\ UNCHANGED history /\ pc' = [pc EXCEPT ![p] = "claim"]
  BY DEF EnrollToday, Goto
<1>2. PICK today \in SUBSET Enrollable : \E row \in Injection(today, In({"none"})) :
         letters' = [l \in Ids |->
            IF \E s \in today : row[s] = l
            THEN LET s == CHOOSE s \in today : row[s] = l IN Letter(s, at[s], p, FALSE, TRUE)
            ELSE letters[l]]
  BY DEF EnrollToday
<1>3. PICK row \in Injection(today, In({"none"})) :
         letters' = [l \in Ids |->
            IF \E s \in today : row[s] = l
            THEN LET s == CHOOSE s \in today : row[s] = l IN Letter(s, at[s], p, FALSE, TRUE)
            ELSE letters[l]]
  BY <1>2
<1> DEFINE new == {l \in Ids : \E s \in today : row[s] = l}
           of(l) == CHOOSE s \in today : row[s] = l
<1>4. \A s \in today : /\ s \in Subjects /\ at[s] \in 1..Steps /\ row[s] \in In({"none"})
                       /\ Written(s, at[s]) \cap In(Indexed) = {}
  <2>1. \A s \in today : s \in Subjects /\ at[s] <= Steps /\ Written(s, at[s]) \cap In(Indexed) = {}
    BY <1>2 DEF Enrollable
  <2>2. row \in [today -> In({"none"})]
    BY <1>3 DEF Injection
  <2> QED BY <2>1, <2>2, TypeMeans, ConstantsHave
<1>5. \A l \in new : of(l) \in today /\ row[of(l)] = l
  OBVIOUS
<1>6. \A l \in Ids : letters'[l] = IF l \in new THEN Letter(of(l), at[of(l)], p, FALSE, TRUE)
                                 ELSE letters[l]
  BY <1>3
<1> HIDE DEF new, of
<1>7. \A l \in new : Letter(of(l), at[of(l)], p, FALSE, TRUE) \in Rows
  <2> TAKE l \in new
  <2>1. of(l) \in Subjects \cup {NoSubject} /\ at[of(l)] \in 0..Steps /\ p \in Tokens
    BY <1>4, <1>5, ConstantsHave
  <2> QED BY <2>1, LetterIsRow
<1>8. letters' \in [Ids -> Rows]
  BY <1>3, <1>6, <1>7, TypeMeans
<1>9. TypeOK'
  BY <1>1, <1>8, TypeMeans, TypeMeansNext DEF history, Stages
<1>10. \A l \in new : /\ l \in Ids /\ letters[l].status = "none"
                      /\ letters'[l].status = "armed" /\ letters'[l].subject = of(l)
                      /\ letters'[l].step = at[of(l)] /\ of(l) \in Subjects
  <2> TAKE l \in new
  <2>1. l \in In({"none"}) /\ of(l) \in Subjects
    BY <1>4, <1>5
  <2>2. l \in Ids /\ letters[l].status = "none"
    BY <2>1 DEF In
  <2>3. letters'[l] = Letter(of(l), at[of(l)], p, FALSE, TRUE)
    BY <1>6, <2>2
  <2> QED BY <2>1, <2>2, <2>3 DEF Letter
<1>11. \A l \in new, m \in Ids :
         /\ letters'[m].status \in Indexed
         /\ letters'[l].subject = letters'[m].subject /\ letters'[l].step = letters'[m].step
         => l = m
  <2> SUFFICES ASSUME NEW l \in new, NEW m \in Ids, letters'[m].status \in Indexed,
                      letters'[l].subject = letters'[m].subject,
                      letters'[l].step = letters'[m].step
               PROVE  l = m
    OBVIOUS
  <2>1. CASE m \in new
    BY <2>1, <1>5, <1>10
  <2>2. CASE m \notin new
    <3>1. letters'[m] = letters[m] /\ of(l) \in today
      BY <2>2, <1>5, <1>6
    <3>2. m \in Written(of(l), at[of(l)]) \cap In(Indexed)
      BY <3>1, <1>10 DEF Written, In
    <3> QED BY <3>1, <3>2, <1>4
  <2> QED BY <2>1, <2>2
<1>12. Writes(new)
  <2>1. \A l \in new : letters'[l].step \in 1..Steps
                     /\ letters'[l].step <= at[letters'[l].subject]
    BY <1>4, <1>5, <1>10
  <2> QED BY <1>6, <1>10, <1>11, <2>1 DEF Writes
<1> QED
  <2>1. KeepsHands
    BY <1>1, TypeMeans DEF KeepsHands
  <2>2. new \in SUBSET Ids
    BY <1>10
  <2> QED
    BY <1>1, <1>9, <1>12, <2>1, <2>2, WritesKeep DEF history

----------------------------------------------------------------------------
(* Steps that say a letter sent.                                            *)

(* The series is exactly at the step of a letter that is leaving it.        *)
LEMMA LeavingIsNext ==
    ASSUME Inv, NEW l \in Ids, letters[l].status \in {"sending", "uncertain"},
           letters[l].subject # NoSubject, letters[l].subject \notin moved
    PROVE  /\ letters[l].subject \in Subjects /\ at[letters[l].subject] = letters[l].step
           /\ letters[l].step \in 1..Steps
<1> USE DEF Inv
<1> DEFINE s == letters[l].subject
           k == letters[l].step
<1>1. s \in Subjects /\ k \in 1..Steps /\ k <= at[s] /\ at[s] \in 1..(Steps + 1)
  BY TypeMeans DEF WrittenInTime, Rows
<1>2. Written(s, k) \cap In({"sent"}) = {}
  BY DEF OneIndexed, Written, In, Indexed
<1>3. ~(at[s] > k)
  BY <1>1, <1>2 DEF SeriesFollowsLetters
<1> QED
  BY <1>1, <1>3, ConstantsHave

LEMMA SentFollows ==
    ASSUME Inv, TypeOK', NEW l \in Ids, letters[l].status \in {"sending", "uncertain"}, KeepsSteps,
           \A m \in Ids : letters'[m].status = IF m = l THEN "sent" ELSE letters[m].status,
           AdvanceFor(l), moved' = moved
    PROVE  OneIndexed' /\ WrittenInTime' /\ SeriesFollowsLetters'
<1> USE DEF Inv
<1>1. OneIndexed'
  <2>1. In(Indexed)' \subseteq In(Indexed)
    BY DEF In, Indexed
  <2> QED BY <2>1 DEF OneIndexed, KeepsSteps, In
<1> DEFINE s == letters[l].subject
           k == letters[l].step
<1>2. \A r \in Subjects : at'[r] = IF r = s THEN IF at[r] > Steps THEN at[r] ELSE at[r] + 1
                                          ELSE at[r]
  BY TypeMeans, ConstantsHave DEF AdvanceFor, Advance
<1>3. \A r \in Subjects : at[r] \in Nat /\ at'[r] \in Nat /\ at[r] <= at'[r]
  BY <1>2, TypeMeans, ConstantsHave
<1>4. WrittenInTime'
  <2> SUFFICES ASSUME NEW m \in Ids, letters[m].subject # NoSubject
               PROVE  /\ letters[m].step \in 1..Steps
                      /\ letters[m].subject \notin moved =>
                           letters[m].step <= at'[letters[m].subject]
    BY DEF WrittenInTime, KeepsSteps
  <2>1. letters[m].subject \in Subjects /\ letters[m].step \in 1..Steps
    BY TypeMeans DEF WrittenInTime, Rows
  <2>2. letters[m].subject \notin moved => letters[m].step <= at[letters[m].subject]
    BY DEF WrittenInTime
  <2>3. letters[m].step \in Nat
    BY <2>1
  <2> HIDE DEF s
  <2> QED BY <1>3, <2>1, <2>2, <2>3
<1>5. SeriesFollowsLetters'
  <2> SUFFICES ASSUME NEW r \in Subjects \ moved, NEW j \in 1..Steps
               PROVE  at'[r] > j <=> (Written(r, j) \cap In({"sent"}))' # {}
    BY DEF SeriesFollowsLetters
  <2>1. at[r] > j <=> Written(r, j) \cap In({"sent"}) # {}
    BY DEF SeriesFollowsLetters
  <2>2. (Written(r, j) \cap In({"sent"}))' =
           IF r = s /\ j = k THEN (Written(r, j) \cap In({"sent"})) \cup {l}
           ELSE Written(r, j) \cap In({"sent"})
    BY DEF Written, In, KeepsSteps
  <2>3. CASE r = s
    <3>1. at[r] = k /\ k \in 1..Steps /\ at'[r] = k + 1
      <4>1. s # NoSubject
        BY <2>3, ConstantsHave
      <4>2. at[r] = k /\ k \in 1..Steps
        BY <2>3, <4>1, LeavingIsNext
      <4> QED BY <1>2, <2>3, <4>2, ConstantsHave
    <3> QED BY <2>1, <2>2, <2>3, <3>1, ConstantsHave
  <2>4. CASE r # s
    BY <1>2, <2>1, <2>2, <2>4
  <2> QED BY <2>3, <2>4
<1> QED
  BY <1>1, <1>4, <1>5

LEMMA AdvanceType ==
    ASSUME TypeOK, NEW l \in Ids, AdvanceFor(l)
    PROVE  at' \in [Subjects -> 1..(Steps + 1)]
<1>1. CASE letters[l].subject = NoSubject
  BY <1>1, TypeMeans DEF AdvanceFor
<1>2. CASE letters[l].subject # NoSubject
  BY <1>2, TypeMeans, ConstantsHave DEF AdvanceFor, Advance
<1> QED BY <1>1, <1>2

LEMMA VouchKeeps == ASSUME Inv, NEW l \in Ids, Resolve(l, TRUE) PROVE Inv'
<1> USE DEF Inv
<1>1. /\ letters' \in [Ids -> Rows] /\ KeepsSteps /\ letters[l].status = "uncertain"
      /\ \A m \in Ids : letters'[m].status = IF m = l THEN "sent" ELSE letters[m].status
  BY TypeMeans, BecomesRows DEF Resolve, KeepsSteps, Statuses
<1>2. /\ AdvanceFor(l) /\ recent' = recent \cup {l} /\ vouched' = vouched \cup {l}
      /\ denied' = denied /\ pc' = pc /\ batch' = batch /\ outcomes' = outcomes
      /\ delivered' = delivered /\ moved' = moved /\ interrupts' = interrupts
  BY DEF Resolve, local
<1>3. TypeOK'
  <2>1. at' \in [Subjects -> 1..(Steps + 1)]
    BY <1>2, AdvanceType
  <2> QED BY <1>1, <1>2, <2>1, TypeMeans, TypeMeansNext
<1>4. HeldWasTaken'
  BY <1>1, <1>2 DEF HeldWasTaken, Holds, Has
<1>5. OneHolder' /\ OutcomesAreTrue' /\ OksWent'
  BY <1>2 DEF OneHolder, Holds, Has, OutcomesAreTrue, OksWent
<1>6. HandedIsLeaving'
  <2>1. ASSUME NEW p \in Procs, outcomes[p] # <<>>  PROVE Handed(p).letter \in Ids
    BY <2>1, HandedIsOutcome DEF Outcome
  <2> QED BY <1>1, <1>2, <2>1 DEF HandedIsLeaving, Handed
<1>7. OneIndexed' /\ WrittenInTime' /\ SeriesFollowsLetters'
  BY <1>1, <1>2, <1>3, SentFollows
<1>8. StatusIsTrue'
  BY <1>1, <1>2 DEF StatusIsTrue, In
<1> QED
  BY <1>3, <1>4, <1>5, <1>6, <1>7, <1>8

(* A human moves a series.                                                  *)
LEMMA MoveKeeps == ASSUME Inv, NEW s \in Subjects, Skip(s) \/ Retract(s) PROVE Inv'
<1> USE DEF Inv
<1>1. /\ letters' = letters /\ recent' = recent /\ pc' = pc /\ batch' = batch
      /\ outcomes' = outcomes /\ delivered' = delivered /\ denied' = denied
      /\ vouched' = vouched /\ interrupts' = interrupts /\ moved' = moved \cup {s}
      /\ \A r \in Subjects : r # s => at'[r] = at[r]
  BY TypeMeans DEF Skip, Retract, Advance, local
<1>2. at' \in [Subjects -> 1..(Steps + 1)]
  <2>1. at \in [Subjects -> 1..(Steps + 1)] /\ Steps \in Nat
    BY TypeMeans, ConstantsHave
  <2>2. CASE Skip(s)
    BY <2>1, <2>2 DEF Skip, Advance
  <2>3. CASE Retract(s)
    BY <2>1, <2>3 DEF Retract
  <2> QED BY <2>2, <2>3
<1>3. TypeOK'
  BY <1>1, <1>2, TypeMeans, TypeMeansNext
<1>4. HeldWasTaken' /\ OneHolder' /\ OutcomesAreTrue' /\ OksWent' /\ HandedIsLeaving'
  BY <1>1 DEF HeldWasTaken, OneHolder, Holds, Has, OutcomesAreTrue, OksWent, HandedIsLeaving,
              Handed
<1>5. OneIndexed' /\ StatusIsTrue'
  BY <1>1 DEF OneIndexed, StatusIsTrue, In
<1>6. WrittenInTime'
  <2>1. \A l \in Ids : letters[l].subject # NoSubject => letters[l].subject \in Subjects
    BY TypeMeans DEF Rows
  <2> QED BY <1>1, <2>1 DEF WrittenInTime
<1>7. SeriesFollowsLetters'
  BY <1>1 DEF SeriesFollowsLetters, Written, In
<1> QED
  BY <1>3, <1>4, <1>5, <1>6, <1>7

----------------------------------------------------------------------------
(* What a process holds, as it goes on.                                     *)

(* What it holds is among what it held, told the same; nothing else changed *)
(* hands.                                                                   *)
Shrinks(p) ==
    /\ batch'[p] \subseteq batch[p]
    /\ \E first \in Nat :
         /\ first + Len(outcomes'[p]) <= Len(outcomes[p])
         /\ \A i \in 1..Len(outcomes'[p]) : outcomes'[p][i] = outcomes[p][first + i]
    /\ \A q \in Procs : q # p => batch'[q] = batch[q] /\ outcomes'[q] = outcomes[q]

LEMMA ShrinkKeeps ==
    ASSUME Inv, NEW p \in Procs, Shrinks(p), TypeOK', delivered' = delivered,
           denied' = denied,
           \A l \in Ids : letters'[l].status \in {"none", "armed"}
                          => letters'[l].status = letters[l].status
    PROVE  HeldWasTaken' /\ OneHolder' /\ OutcomesAreTrue' /\ OksWent'
<1> USE DEF Inv
<1>1. \A q \in Procs : Len(outcomes[q]) \in Nat /\ Len(outcomes'[q]) \in Nat
  <2> TAKE q \in Procs
  <2>1. outcomes[q] \in Seq(Outcome) /\ outcomes'[q] \in Seq(Outcome)
    BY TypeMeans, TypeMeansNext
  <2> QED BY <2>1, LenProperties
<1>2. PICK first \in Nat :
         /\ first + Len(outcomes'[p]) <= Len(outcomes[p])
         /\ \A i \in 1..Len(outcomes'[p]) : outcomes'[p][i] = outcomes[p][first + i]
  BY DEF Shrinks
<1>3. \A i \in 1..Len(outcomes'[p]) : first + i \in 1..Len(outcomes[p])
  BY <1>1, <1>2
<1> DEFINE HasNext(q, l) == \E i \in 1..Len(outcomes'[q]) : outcomes'[q][i].letter = l
<1>4. \A q \in Procs, l \in Ids : /\ HasNext(q, l) => Has(q, l)
                                  /\ l \in batch'[q] \/ HasNext(q, l) => Holds(q, l)
  <2> TAKE q \in Procs, l \in Ids
  <2>1. HasNext(q, l) => Has(q, l)
    <3>1. CASE q = p
      BY <1>2, <1>3, <3>1 DEF Has
    <3>2. CASE q # p
      BY <3>2 DEF Has, Shrinks
    <3> QED BY <3>1, <3>2
  <2>2. batch'[q] \subseteq batch[q]
    BY DEF Shrinks
  <2> QED BY <2>1, <2>2 DEF Holds
<1> HIDE DEF HasNext
<1>5. HeldWasTaken'
  <2>1. \A q \in Procs, l \in Ids : l \in batch'[q] \/ HasNext(q, l)
                                   => letters'[l].status \notin {"none", "armed"}
    BY <1>4 DEF HeldWasTaken
  <2> QED BY <2>1 DEF HeldWasTaken, Holds, Has, HasNext
<1>6. OneHolder'
  <2>1. \A q, r \in Procs, l \in Ids :
           /\ l \in batch'[q] \/ HasNext(q, l)
           /\ l \in batch'[r] \/ HasNext(r, l)
           => q = r
    BY <1>4 DEF OneHolder
  <2>2. \A q \in Procs : batch'[q] \subseteq batch[q] /\ batch[q] \subseteq Ids
    BY TypeMeans DEF Shrinks
  <2>3. \A q \in Procs : \A l \in batch'[q] : ~HasNext(q, l)
    BY <1>4, <2>2 DEF OneHolder
  <2>4. ASSUME NEW q \in Procs, NEW i \in 1..Len(outcomes'[q]), NEW j \in 1..Len(outcomes'[q]),
               outcomes'[q][i].letter = outcomes'[q][j].letter
        PROVE  i = j
    <3>1. CASE q # p
      BY <2>4, <3>1 DEF Shrinks, OneHolder
    <3>2. CASE q = p
      <4>1. outcomes[p][first + i].letter = outcomes[p][first + j].letter
        BY <1>2, <2>4, <3>2
      <4>2. first + i = first + j
        BY <1>3, <2>4, <3>2, <4>1 DEF OneHolder
      <4> QED BY <4>2
    <3> QED BY <3>1, <3>2
  <2> QED BY <2>1, <2>3, <2>4 DEF OneHolder, Holds, Has, HasNext
<1>7. \A q \in Procs : \A i \in 1..Len(outcomes'[q]) :
        \E j \in 1..Len(outcomes[q]) : outcomes'[q][i] = outcomes[q][j]
  BY <1>2, <1>3, SMTT(90) DEF Shrinks
<1>8. OutcomesAreTrue'
  BY <1>7, ZenonT(60) DEF OutcomesAreTrue
<1>9. OksWent'
  BY <1>7 DEF OksWent
<1> QED BY <1>5, <1>6, <1>8, <1>9

(* A process that is not handing a letter keeps what is said of the others.  *)
LEMMA HandedKeeps ==
    ASSUME Inv, NEW p \in Procs, delivered' = delivered, denied' = denied,
           pc'[p] # "submit", pc'[p] = "record" => outcomes'[p] # <<>>,
           \A q \in Procs : q # p => pc'[q] = pc[q] /\ outcomes'[q] = outcomes[q],
           \A l \in Ids : letters[l].status \in {"sending", "uncertain", "sent", "failed"}
              /\ (\E q \in Procs : q # p /\ Has(q, l))
              => \/ letters'[l].status = letters[l].status
    PROVE  HandedIsLeaving'
<1> USE DEF Inv
<1>1. ASSUME NEW q \in Procs, q # p, outcomes[q] # <<>>
      PROVE  Handed(q).letter \in Ids /\ Has(q, Handed(q).letter)
  BY <1>1, HandedIsOutcome DEF Outcome, Has, Handed
<1> QED
  BY <1>1 DEF HandedIsLeaving, Handed

LEMMA InterruptKeeps == ASSUME Inv, NEW p \in Procs, Interrupt(p) PROVE Inv'
<1> USE DEF Inv
<1>0. {} \in SUBSET Ids /\ <<>> \in Seq(Outcome) /\ Len(<<>>) = 0
  BY EmptySeq
<1>1. /\ at' = at /\ recent' = recent /\ delivered' = delivered /\ denied' = denied
      /\ vouched' = vouched /\ moved' = moved /\ Continue(p, {}, <<>>)
      /\ interrupts' \in 0..MaxInterrupts
  BY TypeMeans, ConstantsHave DEF Interrupt, Stop
<1>2. /\ pc' \in [Procs -> Stages] /\ batch' \in [Procs -> SUBSET Ids]
      /\ outcomes' \in [Procs -> Seq(Outcome)] /\ batch'[p] = {} /\ outcomes'[p] = <<>>
      /\ pc'[p] # "submit" /\ (pc'[p] = "record" => <<>> # <<>>)
      /\ \A q \in Procs : q # p =>
           pc'[q] = pc[q] /\ batch'[q] = batch[q] /\ outcomes'[q] = outcomes[q]
  BY <1>0, <1>1, Continues
<1>3. /\ letters' \in [Ids -> Rows] /\ KeepsSteps
      /\ \A l \in Ids : letters'[l].status = letters[l].status
  <2>1. CASE letters' = letters
    BY <2>1, TypeMeans DEF KeepsSteps
  <2>2. CASE letters' = [l \in Ids |-> IF letters[l].token = p
                                     THEN [letters[l] EXCEPT !.token = Gone] ELSE letters[l]]
    <3>1. ASSUME NEW l \in Ids
          PROVE  /\ letters'[l] \in Rows /\ letters'[l].status = letters[l].status
                 /\ letters'[l].subject = letters[l].subject /\ letters'[l].step = letters[l].step
      <4>1. letters[l] \in Rows /\ Gone \in Tokens
        BY TypeMeans, ConstantsHave
      <4>2. letters'[l] = IF letters[l].token = p
                            THEN [letters[l] EXCEPT !.token = Gone] ELSE letters[l]
        BY <2>2
      <4> QED BY <4>1, <4>2 DEF Rows
    <3>2. letters' \in [Ids -> Rows]
      BY <2>2, <3>1
    <3> QED BY <3>1, <3>2 DEF KeepsSteps
  <2> QED BY <2>1, <2>2 DEF Interrupt
<1>4. TypeOK'
  BY <1>1, <1>2, <1>3, TypeMeans, TypeMeansNext
<1>5. Shrinks(p)
  <2>1. Len(outcomes[p]) \in Nat
    BY TypeMeans, LenProperties
  <2> QED BY <1>0, <1>2, <2>1 DEF Shrinks
<1>6. HeldWasTaken' /\ OneHolder' /\ OutcomesAreTrue' /\ OksWent'
  BY <1>1, <1>3, <1>4, <1>5, ShrinkKeeps
<1>7. HandedIsLeaving'
  BY <1>1, <1>2, <1>3, HandedKeeps
<1>8. OneIndexed' /\ WrittenInTime' /\ StatusIsTrue' /\ SeriesFollowsLetters'
  BY <1>1, <1>3 DEF OneIndexed, WrittenInTime, StatusIsTrue, SeriesFollowsLetters, KeepsSteps,
                    Written, In
<1> QED
  BY <1>4, <1>6, <1>7, <1>8

LEMMA ClaimKeeps == ASSUME Inv, NEW p \in Procs, ClaimDue(p) PROVE Inv'
<1> USE DEF Inv
<1>0. PICK taken \in SUBSET Claimable(p) : \E lost \in SUBSET taken :
         /\ letters' = [l \in Ids |->
              IF l \in lost THEN [letters[l] EXCEPT !.status = "failed"]
              ELSE IF l \in taken THEN [letters[l] EXCEPT !.status = "held"]
              ELSE letters[l]]
         /\ \/ Continue(p, taken \ lost, <<>>)
            \/ Continue(p, {}, Failed(taken \ lost))
  BY DEF ClaimDue
<1>1. PICK lost \in SUBSET taken :
         /\ letters' = [l \in Ids |->
              IF l \in lost THEN [letters[l] EXCEPT !.status = "failed"]
              ELSE IF l \in taken THEN [letters[l] EXCEPT !.status = "held"]
              ELSE letters[l]]
         /\ \/ Continue(p, taken \ lost, <<>>)
            \/ Continue(p, {}, Failed(taken \ lost))
  BY <1>0
<1>2. /\ at' = at /\ recent' = recent /\ delivered' = delivered /\ denied' = denied
      /\ vouched' = vouched /\ moved' = moved /\ interrupts' = interrupts
  BY DEF ClaimDue, history
<1>3. taken \in SUBSET Ids /\ \A l \in taken : letters[l].status = "armed"
  BY DEF Claimable, In
<1>4. /\ letters' \in [Ids -> Rows] /\ KeepsSteps
      /\ \A l \in Ids : letters'[l].status = IF l \in lost THEN "failed"
                                             ELSE IF l \in taken THEN "held"
                                             ELSE letters[l].status
  <2>1. ASSUME NEW l \in Ids
        PROVE  /\ letters'[l] \in Rows
               /\ letters'[l].status = IF l \in lost THEN "failed"
                                       ELSE IF l \in taken THEN "held" ELSE letters[l].status
               /\ letters'[l].subject = letters[l].subject /\ letters'[l].step = letters[l].step
    <3>1. letters[l] \in Rows
      BY TypeMeans
    <3>2. letters'[l] = IF l \in lost THEN [letters[l] EXCEPT !.status = "failed"]
                        ELSE IF l \in taken THEN [letters[l] EXCEPT !.status = "held"]
                        ELSE letters[l]
      BY <1>1
    <3> QED BY <3>1, <3>2 DEF Rows, Statuses
  <2>2. letters' \in [Ids -> Rows]
    BY <1>1, <2>1
  <2> QED BY <2>1, <2>2 DEF KeepsSteps
<1>5. \E left \in SUBSET taken, toRecord \in Seq(Outcome) :
        /\ Continue(p, left, toRecord)
        /\ left = {} \/ toRecord = <<>>
        /\ \A i \in 1..Len(toRecord) : toRecord[i].letter \in taken /\ toRecord[i].ok = FALSE
        /\ \A i, j \in 1..Len(toRecord) : toRecord[i].letter = toRecord[j].letter => i = j
  <2>0. <<>> \in Seq(Outcome) /\ Len(<<>>) = 0
    BY EmptySeq
  <2>1. CASE Continue(p, taken \ lost, <<>>)
    <3> WITNESS taken \ lost \in SUBSET taken, <<>> \in Seq(Outcome)
    <3> QED BY <2>0, <2>1
  <2>2. CASE Continue(p, {}, Failed(taken \ lost))
    <3>1. /\ Failed(taken \ lost) \in Seq(Outcome)
          /\ \A i \in 1..Len(Failed(taken \ lost)) :
               Failed(taken \ lost)[i].letter \in taken \ lost
               /\ Failed(taken \ lost)[i].ok = FALSE
          /\ \A i, j \in 1..Len(Failed(taken \ lost)) :
               Failed(taken \ lost)[i].letter = Failed(taken \ lost)[j].letter => i = j
      <4> DEFINE kept == taken \ lost
      <4>1. kept \in SUBSET Ids
        BY <1>3
      <4> HIDE DEF kept
      <4>2. /\ Failed(kept) \in Seq(Outcome)
            /\ \A i \in 1..Len(Failed(kept)) :
                 Failed(kept)[i].letter \in kept /\ Failed(kept)[i].ok = FALSE
            /\ \A i, j \in 1..Len(Failed(kept)) :
                 Failed(kept)[i].letter = Failed(kept)[j].letter => i = j
        BY <4>1, FailedIsSeq
      <4> QED BY <4>2 DEF kept
    <3> Failed(taken \ lost) \in Seq(Outcome)
      BY <3>1
    <3> WITNESS {} \in SUBSET taken, Failed(taken \ lost) \in Seq(Outcome)
    <3> QED BY <2>2, <3>1
  <2> QED BY <1>1, <2>1, <2>2
<1>6. PICK left \in SUBSET taken, toRecord \in Seq(Outcome) :
        /\ Continue(p, left, toRecord)
        /\ left = {} \/ toRecord = <<>>
        /\ \A i \in 1..Len(toRecord) : toRecord[i].letter \in taken /\ toRecord[i].ok = FALSE
        /\ \A i, j \in 1..Len(toRecord) : toRecord[i].letter = toRecord[j].letter => i = j
  BY <1>5
<1>7. /\ pc' \in [Procs -> Stages] /\ batch' \in [Procs -> SUBSET Ids]
      /\ outcomes' \in [Procs -> Seq(Outcome)] /\ batch'[p] = left /\ outcomes'[p] = toRecord
      /\ pc'[p] # "submit" /\ (pc'[p] = "record" => toRecord # <<>>)
      /\ \A q \in Procs : q # p =>
           pc'[q] = pc[q] /\ batch'[q] = batch[q] /\ outcomes'[q] = outcomes[q]
  <2>1. left \in SUBSET Ids
    BY <1>3
  <2>2. Continue(p, left, toRecord)
    BY <1>6
  <2>3. TypeOK
    OBVIOUS
  <2> QED BY ONLY <2>1, <2>2, <2>3, Continues, p \in Procs, toRecord \in Seq(Outcome), ZenonT(60)
<1>8. TypeOK'
  BY <1>2, <1>4, <1>7, TypeMeans, TypeMeansNext
(* Nobody held a letter that was armed.                                     *)
<1> DEFINE HasNext(q, l) == \E i \in 1..Len(outcomes'[q]) : outcomes'[q][i].letter = l
           HoldsNext(q, l) == l \in batch'[q] \/ HasNext(q, l)
<1>9. \A q \in Procs, l \in taken : ~Holds(q, l)
  BY <1>3 DEF HeldWasTaken
<1>10. \A l \in Ids : HoldsNext(p, l) => l \in taken
  BY <1>6, <1>7
<1>11. \A q \in Procs, l \in Ids : q # p => (HoldsNext(q, l) <=> Holds(q, l))
  BY <1>7 DEF Holds, Has
<1>12. \A l \in batch'[p] : ~HasNext(p, l)
  <2>1. Len(<<>>) = 0
    BY EmptySeq
  <2> QED BY <1>6, <1>7, <2>1
<1>13. \A q \in Procs : q # p => \A l \in batch'[q] : ~HasNext(q, l)
  <2>1. \A q \in Procs : \A l \in batch[q] : ~Has(q, l)
    BY DEF OneHolder
  <2> QED BY <1>7, <2>1, ZenonT(60) DEF Has
<1> HIDE DEF HasNext, HoldsNext
<1>14. HeldWasTaken'
  <2>1. \A q \in Procs, l \in Ids : HoldsNext(q, l) => letters'[l].status \notin {"none", "armed"}
    BY <1>3, <1>4, <1>9, <1>10, <1>11 DEF HeldWasTaken
  <2> QED BY <2>1 DEF HeldWasTaken, Holds, Has, HasNext, HoldsNext
<1>15. OneHolder'
  <2>1. \A q, r \in Procs, l \in Ids : HoldsNext(q, l) /\ HoldsNext(r, l) => q = r
    BY <1>9, <1>10, <1>11 DEF OneHolder
  <2>2. \A q \in Procs : \A l \in batch'[q] : ~HasNext(q, l)
    BY <1>12, <1>13
  <2>3. \A q \in Procs : \A i, j \in 1..Len(outcomes'[q]) :
           outcomes'[q][i].letter = outcomes'[q][j].letter => i = j
    BY <1>6, <1>7, SMTT(60) DEF OneHolder
  <2> QED BY <2>1, <2>2, <2>3 DEF OneHolder, Holds, Has, HasNext, HoldsNext
<1>16. OutcomesAreTrue' /\ OksWent'
  <2>1. \A l \in taken : l \notin delivered
    BY <1>3 DEF StatusIsTrue, In
  <2> QED BY <1>2, <1>6, <1>7, <2>1, ZenonT(60) DEF OutcomesAreTrue, OksWent
<1>17. HandedIsLeaving'
  BY <1>2, <1>3, <1>4, <1>7, HandedKeeps, ZenonT(60)
<1>18. OneIndexed'
  <2>1. In(Indexed)' \subseteq In(Indexed)
    BY <1>3, <1>4 DEF In, Indexed
  <2> QED BY <1>4, <2>1 DEF OneIndexed, KeepsSteps, In
<1>19. WrittenInTime'
  BY <1>2, <1>4 DEF WrittenInTime, KeepsSteps
<1>20. StatusIsTrue'
  BY <1>2, <1>3, <1>4 DEF StatusIsTrue, In
<1>21. SeriesFollowsLetters'
  <2>1. In({"sent"})' = In({"sent"})
    BY <1>3, <1>4 DEF In
  <2>2. \A s \in Subjects, k \in 1..Steps : Written(s, k)' = Written(s, k)
    BY <1>4 DEF Written, KeepsSteps
  <2> QED BY <1>2, <2>1, <2>2 DEF SeriesFollowsLetters
<1> QED
  BY <1>8, <1>14, <1>15, <1>16, <1>17, <1>18, <1>19, <1>20, <1>21

LEMMA CommitKeeps == ASSUME Inv, NEW p \in Procs, NEW l \in Ids, CommitOutbound(p, l) PROVE Inv'
<1> USE DEF Inv
<1>1. /\ at' = at /\ recent' = recent /\ delivered' = delivered /\ denied' = denied
      /\ vouched' = vouched /\ moved' = moved /\ interrupts' = interrupts /\ l \in batch[p]
  BY DEF CommitOutbound, history
<1>2. outcomes[p] \in Seq(Outcome) /\ batch[p] \in SUBSET Ids /\ Len(outcomes[p]) \in Nat
  <2>1. outcomes[p] \in Seq(Outcome) /\ batch[p] \in SUBSET Ids
    BY TypeMeans
  <2> QED BY <2>1, LenProperties
<1>0. \A left \in SUBSET Ids, toRecord \in Seq(Outcome) :
        Continue(p, left, toRecord) =>
          /\ pc' \in [Procs -> Stages] /\ batch' \in [Procs -> SUBSET Ids]
          /\ outcomes' \in [Procs -> Seq(Outcome)]
          /\ batch'[p] = left /\ outcomes'[p] = toRecord
          /\ pc'[p] # "submit" /\ (pc'[p] = "record" => toRecord # <<>>)
          /\ \A q \in Procs : q # p =>
               pc'[q] = pc[q] /\ batch'[q] = batch[q] /\ outcomes'[q] = outcomes[q]
  BY Continues
(* The process drops letters, without handing one.                          *)
<1>3. ASSUME NEW left \in SUBSET batch[p], NEW toRecord \in {outcomes[p], <<>>},
             Continue(p, left, toRecord), letters' = letters
      PROVE  Inv'
  <2>1. left \in SUBSET Ids /\ toRecord \in Seq(Outcome) /\ Len(<<>>) = 0
    BY <1>2, EmptySeq
  <2>2. TypeOK /\ Continue(p, left, toRecord)
    BY <1>3
  <2>3. /\ pc' \in [Procs -> Stages] /\ batch' \in [Procs -> SUBSET Ids]
        /\ outcomes' \in [Procs -> Seq(Outcome)] /\ batch'[p] = left /\ outcomes'[p] = toRecord
        /\ pc'[p] # "submit" /\ (pc'[p] = "record" => toRecord # <<>>)
        /\ \A q \in Procs : q # p =>
             pc'[q] = pc[q] /\ batch'[q] = batch[q] /\ outcomes'[q] = outcomes[q]
    BY <1>0, <2>1, <2>2, Zenon
  <2>4. TypeOK'
    BY <1>1, <1>3, <2>3, TypeMeans, TypeMeansNext
  <2>5. Shrinks(p)
    <3>1. CASE toRecord = <<>>
      BY <1>2, <1>3, <2>1, <2>3, <3>1 DEF Shrinks
    <3>2. CASE toRecord = outcomes[p]
      <4>1. 0 \in Nat /\ 0 + Len(outcomes[p]) <= Len(outcomes[p])
            /\ \A i \in 1..Len(outcomes[p]) : outcomes[p][i] = outcomes[p][0 + i]
        BY <1>2
      <4> QED BY <1>3, <2>3, <3>2, <4>1, ZenonT(60) DEF Shrinks
    <3> QED BY <3>1, <3>2
  <2>6. HeldWasTaken' /\ OneHolder' /\ OutcomesAreTrue' /\ OksWent'
    BY <1>1, <1>3, <2>4, <2>5, ShrinkKeeps
  <2>7. HandedIsLeaving'
    BY <1>1, <1>3, <2>3, HandedKeeps
  <2>8. OneIndexed' /\ WrittenInTime' /\ StatusIsTrue' /\ SeriesFollowsLetters'
    BY <1>1, <1>3 DEF OneIndexed, WrittenInTime, StatusIsTrue, SeriesFollowsLetters, Written, In
  <2> QED BY <2>4, <2>6, <2>7, <2>8
<1>4. CASE letters[l].status # "held" /\ Continue(p, batch[p] \ {l}, outcomes[p])
           /\ letters' = letters
  BY <1>3, <1>4
<1>5. CASE Stop(p) /\ letters' = letters
  BY <1>3, <1>5 DEF Stop
(* It hands one.                                                            *)
<1>6. CASE /\ letters[l].status = "held"
           /\ Unique(l, letters[l].subject, letters[l].step)
           /\ letters' = Becomes({l}, "sending")
           /\ batch' = [batch EXCEPT ![p] = @ \ {l}]
           /\ outcomes' = [outcomes EXCEPT ![p] = Append(@, [letter |-> l, ok |-> FALSE])]
           /\ Goto(p, "submit")
  <2> DEFINE n == Len(outcomes[p])
             o == [letter |-> l, ok |-> FALSE]
  <2>1. /\ letters' \in [Ids -> Rows] /\ KeepsSteps
        /\ \A m \in Ids : letters'[m].status = IF m = l THEN "sending" ELSE letters[m].status
    BY <1>6, TypeMeans, BecomesRows DEF KeepsSteps, Statuses
  <2>2. o \in Outcome /\ o.letter = l /\ ~o.ok
    BY DEF Outcome
  <2> HIDE DEF o
  <2>3. /\ Append(outcomes[p], o) \in Seq(Outcome) /\ Len(Append(outcomes[p], o)) = n + 1
        /\ \A i \in 1..n : Append(outcomes[p], o)[i] = outcomes[p][i]
        /\ Append(outcomes[p], o)[n + 1] = o /\ Append(outcomes[p], o) # <<>>
    BY <1>2, <2>2, AppendProperties
  <2>4. /\ outcomes'[p] = Append(outcomes[p], o) /\ batch'[p] = batch[p] \ {l}
        /\ pc'[p] = "submit"
        /\ \A q \in Procs : q # p =>
             pc'[q] = pc[q] /\ batch'[q] = batch[q] /\ outcomes'[q] = outcomes[q]
    BY <1>6, TypeMeans DEF Goto, o
  <2>5. TypeOK'
    <3>1. outcomes' \in [Procs -> Seq(Outcome)]
      BY <1>6, <2>3, TypeMeans DEF o
    <3>2. batch' \in [Procs -> SUBSET Ids] /\ pc' \in [Procs -> Stages]
      BY <1>6, TypeMeans DEF Goto, Stages
    <3> QED BY <1>1, <2>1, <3>1, <3>2, TypeMeans, TypeMeansNext
  <2>6. l \notin delivered
    BY <1>6 DEF StatusIsTrue, In
  <2>7. /\ Len(outcomes'[p]) = n + 1 /\ n \in Nat /\ outcomes'[p][n + 1] = o
        /\ \A i \in 1..n : outcomes'[p][i] = outcomes[p][i]
        /\ \A i \in 1..(n + 1) : i \in 1..n \/ i = n + 1
    BY <1>2, <2>3, <2>4
  <2> HIDE DEF n
  <2> DEFINE HasNext(q, m) == \E i \in 1..Len(outcomes'[q]) : outcomes'[q][i].letter = m
             HoldsNext(q, m) == m \in batch'[q] \/ HasNext(q, m)
  <2>8. \A m \in Ids : HasNext(p, m) => Has(p, m) \/ m = l
    BY <2>2, <2>7 DEF Has, n
  <2>9. \A q \in Procs, m \in Ids : q # p => (HasNext(q, m) => Has(q, m))
    BY <2>4 DEF Has
  <2> HIDE DEF HasNext
  <2>10. \A q \in Procs, m \in Ids : HoldsNext(q, m) => Holds(q, m)
    <3> TAKE q \in Procs, m \in Ids
    <3>1. CASE q = p
      BY <1>1, <2>4, <2>8, <3>1 DEF Holds
    <3>2. CASE q # p
      BY <2>4, <2>9, <3>2 DEF Holds
    <3> QED BY <3>1, <3>2
  <2> HIDE DEF HoldsNext
  <2>11. HeldWasTaken'
    <3>1. \A q \in Procs, m \in Ids : HoldsNext(q, m) => letters'[m].status \notin {"none", "armed"}
      BY <2>1, <2>10 DEF HeldWasTaken
    <3> QED BY <3>1 DEF HeldWasTaken, Holds, Has, HasNext, HoldsNext
  <2>12. ~Has(p, l) /\ \A q \in Procs : q # p => ~Holds(q, l)
    BY <1>1 DEF OneHolder, Holds
  <2>13. OneHolder'
    <3>1. \A q, r \in Procs, m \in Ids : HoldsNext(q, m) /\ HoldsNext(r, m) => q = r
      BY <2>10 DEF OneHolder
    <3>2. ASSUME NEW q \in Procs, NEW m \in batch'[q]  PROVE ~HasNext(q, m)
      <4>1. m \in batch[q] /\ ~Has(q, m) /\ m \in Ids
        BY <2>4, <3>2, TypeMeans DEF OneHolder
      <4>2. CASE q = p
        BY <2>4, <2>8, <3>2, <4>1, <4>2
      <4>3. CASE q # p
        BY <2>9, <4>1, <4>3
      <4> QED BY <4>2, <4>3
    <3>3. ASSUME NEW q \in Procs, NEW i \in 1..Len(outcomes'[q]), NEW j \in 1..Len(outcomes'[q]),
                 outcomes'[q][i].letter = outcomes'[q][j].letter
          PROVE  i = j
      <4>1. CASE q # p
        BY <2>4, <3>3, <4>1 DEF OneHolder
      <4>2. CASE q = p
        <5>1. \A h \in 1..n : outcomes[p][h].letter # l
          BY <2>12 DEF Has, n
        <5>2. \A g, h \in 1..n : outcomes[p][g].letter = outcomes[p][h].letter => g = h
          BY DEF OneHolder, n
        <5> QED BY <2>2, <2>7, <3>3, <4>2, <5>1, <5>2
      <4> QED BY <4>1, <4>2
    <3> QED BY <3>1, <3>2, <3>3 DEF OneHolder, Holds, Has, HasNext, HoldsNext
  <2>14. \A q \in Procs : \A i \in 1..Len(outcomes'[q]) :
           \/ outcomes'[q][i] = o
           \/ i \in 1..Len(outcomes[q]) /\ outcomes'[q][i] = outcomes[q][i]
    BY <2>4, <2>7 DEF n
  <2>15. OutcomesAreTrue'
    BY <1>1, <2>2, <2>6, <2>14, ZenonT(60) DEF OutcomesAreTrue
  <2>16. OksWent'
    BY <1>1, <2>2, <2>14, SMTT(60) DEF OksWent
  <2>17. HandedIsLeaving'
    <3>1. ASSUME NEW q \in Procs, q # p, outcomes[q] # <<>>
          PROVE  Handed(q).letter \in Ids /\ Handed(q).letter # l
      <4>1. Handed(q).letter \in Ids /\ Has(q, Handed(q).letter)
        BY <3>1, HandedIsOutcome DEF Outcome, Has, Handed
      <4> QED BY <2>12, <3>1, <4>1 DEF Holds
    <3>2. outcomes'[p] # <<>> /\ outcomes'[p][Len(outcomes'[p])] = o
      BY <2>3, <2>4, <2>7
    <3> QED BY <1>1, <2>1, <2>2, <2>4, <2>6, <3>1, <3>2, SMTT(60) DEF HandedIsLeaving, Handed
  <2>18. OneIndexed'
    <3>1. \A m \in In(Indexed)' : m \in In(Indexed) \/ m = l
      BY <2>1 DEF In, Indexed
    <3>2. \A m \in In(Indexed) : /\ letters[l].subject # NoSubject
                                 /\ letters[m].subject = letters[l].subject
                                 /\ letters[m].step = letters[l].step
                                 => m = l
      BY <1>6 DEF Unique, Written, In
    <3> QED BY <2>1, <3>1, <3>2 DEF OneIndexed, KeepsSteps, In
  <2>19. WrittenInTime'
    BY <1>1, <2>1 DEF WrittenInTime, KeepsSteps
  <2>20. StatusIsTrue'
    BY <1>1, <1>6, <2>1 DEF StatusIsTrue, In
  <2>21. SeriesFollowsLetters'
    <3>1. In({"sent"})' = In({"sent"})
      BY <1>6, <2>1 DEF In
    <3>2. \A s \in Subjects, k \in 1..Steps : Written(s, k)' = Written(s, k)
      BY <2>1 DEF Written, KeepsSteps
    <3> QED BY <1>1, <3>1, <3>2 DEF SeriesFollowsLetters
  <2> QED
    BY <2>5, <2>11, <2>13, <2>15, <2>16, <2>17, <2>18, <2>19, <2>20, <2>21
<1> QED
  BY <1>4, <1>5, <1>6 DEF CommitOutbound

LEMMA SubmitKeeps == ASSUME Inv, NEW p \in Procs, Submit(p) PROVE Inv'
<1> USE DEF Inv
<1> DEFINE n == Len(outcomes[p])
           l == outcomes[p][n].letter
<1>1. pc[p] = "submit" /\ outcomes[p] # <<>>
  BY DEF Submit, At, HandedIsLeaving
<1>2. /\ outcomes[p] \in Seq(Outcome) /\ n \in 1..n /\ Handed(p) \in Outcome
      /\ Handed(p) = outcomes[p][n]
  BY <1>1, HandedIsOutcome DEF Handed
<1>3. /\ l \in Ids /\ l \notin delivered
      /\ letters[l].status \in {"sending", "uncertain", "sent", "failed"}
      /\ letters[l].status = "failed" => l \in denied
  BY <1>1, <1>2 DEF HandedIsLeaving, Outcome
<1>4. PICK took \in BOOLEAN, ok \in BOOLEAN :
        /\ ok => took
        /\ delivered' = IF took THEN delivered \cup {l} ELSE delivered
        /\ IF took /\ ~ok
           THEN /\ interrupts < MaxInterrupts /\ interrupts' = interrupts + 1
                /\ denied' = denied \cup {l}
           ELSE UNCHANGED <<denied, interrupts>>
        /\ Continue(p, batch[p], [outcomes[p] EXCEPT ![n].ok = ok])
  BY DEF Submit
<1>5. /\ letters' = letters /\ at' = at /\ recent' = recent /\ vouched' = vouched
      /\ moved' = moved
  BY DEF Submit, table
<1> DEFINE o == [letter |-> l, ok |-> ok]
           recorded == [outcomes[p] EXCEPT ![n] = o]
<1>6. [outcomes[p] EXCEPT ![n].ok = ok] = recorded
  <2>1. [outcomes[p][n] EXCEPT !.ok = ok] = o
    BY <1>2 DEF Outcome
  <2> QED BY <2>1
<1>7. o \in Outcome /\ o.letter = l /\ o.ok = ok
  BY <1>3 DEF Outcome
<1>8. l = outcomes[p][n].letter
  OBVIOUS
<1> HIDE DEF o, l
<1>9. /\ recorded \in Seq(Outcome) /\ Len(recorded) = n
      /\ \A i \in 1..n : recorded[i] = IF i = n THEN o ELSE outcomes[p][i]
  BY <1>2, <1>7, ExceptSeq
<1>10. /\ pc' \in [Procs -> Stages] /\ batch' \in [Procs -> SUBSET Ids]
       /\ outcomes' \in [Procs -> Seq(Outcome)] /\ batch'[p] = batch[p]
       /\ outcomes'[p] = recorded
       /\ pc'[p] # "submit" /\ (pc'[p] = "record" => recorded # <<>>)
       /\ \A q \in Procs : q # p =>
            pc'[q] = pc[q] /\ batch'[q] = batch[q] /\ outcomes'[q] = outcomes[q]
  <2>1. batch[p] \in SUBSET Ids /\ TypeOK
    BY TypeMeans
  <2>2. Continue(p, batch[p], recorded)
    BY <1>4, <1>6
  <2> HIDE DEF recorded
  <2> QED BY ONLY <1>9, <2>1, <2>2, Continues, p \in Procs, ZenonT(60)
<1> HIDE DEF recorded
<1>11. TypeOK'
  <2>1. delivered' \subseteq Ids /\ denied' \subseteq Ids /\ interrupts' \in 0..MaxInterrupts
    <3>1. CASE took /\ ~ok
      BY <1>3, <1>4, <3>1, TypeMeans, ConstantsHave
    <3>2. CASE ~(took /\ ~ok)
      BY <1>3, <1>4, <3>2, TypeMeans
    <3> QED BY <3>1, <3>2
  <2> QED BY <1>5, <1>10, <2>1, TypeMeans, TypeMeansNext
<1>12. \A q \in Procs : Len(outcomes'[q]) = Len(outcomes[q])
       /\ \A i \in 1..Len(outcomes[q]) :
            /\ outcomes'[q][i].letter = outcomes[q][i].letter
            /\ ~(q = p /\ i = n) => outcomes'[q][i] = outcomes[q][i]
  <2> TAKE q \in Procs
  <2>1. CASE q = p
    BY <1>7, <1>8, <1>9, <1>10, <2>1
  <2>2. CASE q # p
    BY <1>10, <2>2
  <2> QED BY <2>1, <2>2
<1>13. outcomes'[p][n] = o
  BY <1>2, <1>9, <1>10
<1>14. HeldWasTaken' /\ OneHolder'
  <2> DEFINE HasNext(q, m) == \E i \in 1..Len(outcomes'[q]) : outcomes'[q][i].letter = m
  <2>1. \A q \in Procs, m \in Ids : HasNext(q, m) <=> Has(q, m)
    BY <1>12 DEF Has
  <2>2. \A q \in Procs : batch'[q] = batch[q]
    BY <1>10
  <2> HIDE DEF HasNext
  <2>3. HeldWasTaken'
    <3>1. \A q \in Procs, m \in Ids : m \in batch'[q] \/ HasNext(q, m)
                                      => letters'[m].status \notin {"none", "armed"}
      BY <1>5, <2>1, <2>2 DEF HeldWasTaken, Holds
    <3> QED BY <3>1 DEF HeldWasTaken, Holds, Has, HasNext
  <2>4. OneHolder'
    <3>1. \A q, r \in Procs, m \in Ids : /\ m \in batch'[q] \/ HasNext(q, m)
                                         /\ m \in batch'[r] \/ HasNext(r, m)
                                         => q = r
      BY <2>1, <2>2 DEF OneHolder, Holds
    <3>2. \A q \in Procs : \A m \in batch'[q] : ~HasNext(q, m)
      BY <2>1, <2>2, TypeMeans DEF OneHolder
    <3>3. \A q \in Procs : \A i, j \in 1..Len(outcomes'[q]) :
             outcomes'[q][i].letter = outcomes'[q][j].letter => i = j
      BY <1>12 DEF OneHolder
    <3> QED BY <3>1, <3>2, <3>3 DEF OneHolder, Holds, Has, HasNext
  <2> QED BY <2>3, <2>4
(* The letter is in no other outcome.                                       *)
<1>15. ASSUME NEW q \in Procs, NEW i \in 1..Len(outcomes[q]), ~(q = p /\ i = n)
       PROVE  outcomes[q][i].letter # l /\ outcomes'[q][i] = outcomes[q][i]
  <2>1. Has(p, l) /\ Has(q, outcomes[q][i].letter)
    BY <1>2, <1>8 DEF Has
  <2>2. outcomes[q][i].letter # l
    <3>1. CASE q # p
      BY <1>3, <2>1, <3>1 DEF OneHolder, Holds
    <3>2. CASE q = p
      BY <1>2, <1>8, <1>15, <3>2 DEF OneHolder
    <3> QED BY <3>1, <3>2
  <2> QED BY <1>12, <1>15, <2>2
<1>16. OutcomesAreTrue'
  <2> SUFFICES ASSUME NEW q \in Procs, NEW i \in 1..Len(outcomes[q]),
                      outcomes'[q][i].letter \in delivered'
               PROVE  outcomes'[q][i].ok \/ outcomes'[q][i].letter \in denied'
    BY <1>12 DEF OutcomesAreTrue
  <2>1. denied \subseteq denied' /\ delivered' \subseteq delivered \cup {l}
    BY <1>4
  <2>2. CASE q = p /\ i = n
    BY <1>3, <1>4, <1>7, <1>13, <2>2
  <2>3. CASE ~(q = p /\ i = n)
    BY <1>15, <2>1, <2>3 DEF OutcomesAreTrue
  <2> QED BY <2>2, <2>3
<1>17. OksWent'
  <2> SUFFICES ASSUME NEW q \in Procs, NEW i \in 1..Len(outcomes[q]), outcomes'[q][i].ok
               PROVE  outcomes'[q][i].letter \in delivered'
    BY <1>12 DEF OksWent
  <2>1. delivered \subseteq delivered'
    BY <1>4
  <2>2. CASE q = p /\ i = n
    BY <1>4, <1>7, <1>13, <2>2
  <2>3. CASE ~(q = p /\ i = n)
    BY <1>15, <2>1, <2>3 DEF OksWent
  <2> QED BY <2>2, <2>3
<1>18. HandedIsLeaving'
  <2>1. ASSUME NEW q \in Procs, q # p, outcomes[q] # <<>>
        PROVE  Handed(q).letter # l
    <3>1. Len(outcomes[q]) \in 1..Len(outcomes[q])
      BY <2>1, HandedIsOutcome
    <3> QED BY <1>15, <2>1, <3>1 DEF Handed
  <2>2. denied \subseteq denied' /\ delivered' \subseteq delivered \cup {l}
    BY <1>4
  <2> QED BY <1>5, <1>10, <2>1, <2>2 DEF HandedIsLeaving, Handed
<1>19. OneIndexed' /\ WrittenInTime' /\ SeriesFollowsLetters'
  BY <1>5 DEF OneIndexed, WrittenInTime, SeriesFollowsLetters, Written, In
<1>20. StatusIsTrue'
  <2>1. denied \subseteq denied' /\ delivered \subseteq delivered'
        /\ delivered' \subseteq delivered \cup {l}
    BY <1>4
  <2> QED BY <1>3, <1>5, <2>1 DEF StatusIsTrue, In
<1> QED
  BY <1>11, <1>14, <1>16, <1>17, <1>18, <1>19, <1>20

LEMMA RecordKeeps == ASSUME Inv, NEW p \in Procs, RecordDelivery(p) PROVE Inv'
<1> USE DEF Inv
<1> DEFINE o == Head(outcomes[p])
           l == o.letter
<1>1. pc[p] = "record" /\ outcomes[p] # <<>>
  BY DEF RecordDelivery, At, HandedIsLeaving
<1>2. /\ outcomes[p] \in Seq(Outcome) /\ batch[p] \in SUBSET Ids
      /\ Len(outcomes[p]) \in Nat \ {0} /\ o = outcomes[p][1] /\ o \in Outcome
      /\ Tail(outcomes[p]) \in Seq(Outcome) /\ Len(Tail(outcomes[p])) = Len(outcomes[p]) - 1
      /\ \A i \in 1..Len(Tail(outcomes[p])) : Tail(outcomes[p])[i] = outcomes[p][i + 1]
  <2>1. outcomes[p] \in Seq(Outcome) /\ batch[p] \in SUBSET Ids
    BY TypeMeans
  <2>2. Len(outcomes[p]) \in Nat \ {0}
    BY <1>1, <2>1, EmptySeq
  <2> QED BY <1>1, <2>1, <2>2, HeadTailProperties
<1>3. /\ l \in Ids /\ Has(p, l) /\ letters[l].status \notin {"none", "armed"}
      /\ l \in delivered => o.ok \/ l \in denied
      /\ o.ok => l \in delivered
  <2>1. 1 \in 1..Len(outcomes[p])
    BY <1>2
  <2>2. l \in Ids /\ Has(p, l)
    BY <1>2, <2>1 DEF Has, Outcome
  <2> QED BY <1>2, <2>1, <2>2 DEF HeldWasTaken, Holds, OutcomesAreTrue, OksWent
<1>4. \A q \in Procs : q # p => ~Has(q, l)
  BY <1>3 DEF OneHolder, Holds
<1> HIDE DEF l, o
<1>5. /\ delivered' = delivered /\ denied' = denied /\ vouched' = vouched /\ moved' = moved
      /\ interrupts' = interrupts
  BY DEF RecordDelivery, history
<1>6. letters[l].status \in Statuses
  BY <1>3, TypeMeans DEF Rows
<1>0. \A left \in SUBSET Ids, toRecord \in Seq(Outcome) :
        Continue(p, left, toRecord) =>
          /\ pc' \in [Procs -> Stages] /\ batch' \in [Procs -> SUBSET Ids]
          /\ outcomes' \in [Procs -> Seq(Outcome)]
          /\ batch'[p] = left /\ outcomes'[p] = toRecord
          /\ pc'[p] # "submit" /\ (pc'[p] = "record" => toRecord # <<>>)
          /\ \A q \in Procs : q # p =>
               pc'[q] = pc[q] /\ batch'[q] = batch[q] /\ outcomes'[q] = outcomes[q]
  BY Continues
(* What the process holds afterwards.                                       *)
<1>7. ASSUME NEW left \in {batch[p], {}}, NEW toRecord \in {Tail(outcomes[p]), <<>>},
             Continue(p, left, toRecord),
             letters' \in [Ids -> Rows], at' \in [Subjects -> 1..(Steps + 1)],
             recent' \subseteq Ids,
             \A m \in Ids : m # l => letters'[m].status = letters[m].status,
             letters'[l].status \in {letters[l].status, "failed", "sent"}
      PROVE  TypeOK' /\ HeldWasTaken' /\ OneHolder' /\ OutcomesAreTrue' /\ OksWent'
             /\ HandedIsLeaving'
  <2>1. left \in SUBSET Ids /\ toRecord \in Seq(Outcome) /\ Len(<<>>) = 0
    BY <1>2, <1>7, EmptySeq
  <2>2. TypeOK /\ Continue(p, left, toRecord)
    BY <1>7
  <2>3. /\ pc' \in [Procs -> Stages] /\ batch' \in [Procs -> SUBSET Ids]
        /\ outcomes' \in [Procs -> Seq(Outcome)] /\ batch'[p] = left /\ outcomes'[p] = toRecord
        /\ pc'[p] # "submit" /\ (pc'[p] = "record" => toRecord # <<>>)
        /\ \A q \in Procs : q # p =>
             pc'[q] = pc[q] /\ batch'[q] = batch[q] /\ outcomes'[q] = outcomes[q]
    BY <1>0, <2>1, <2>2, Zenon
  <2>4. TypeOK'
    BY <1>5, <1>7, <2>3, TypeMeans, TypeMeansNext
  <2>5. Shrinks(p)
    <3>1. CASE toRecord = <<>>
      BY <1>2, <1>7, <2>1, <2>3, <3>1 DEF Shrinks
    <3>2. CASE toRecord = Tail(outcomes[p])
      <4>1. 1 \in Nat /\ 1 + Len(Tail(outcomes[p])) <= Len(outcomes[p])
            /\ \A i \in 1..Len(Tail(outcomes[p])) : Tail(outcomes[p])[i] = outcomes[p][1 + i]
        BY <1>2
      <4> QED BY <1>7, <2>3, <3>2, <4>1 DEF Shrinks
    <3> QED BY <1>7, <3>1, <3>2
  <2>6. HeldWasTaken' /\ OneHolder' /\ OutcomesAreTrue' /\ OksWent'
    BY <1>3, <1>5, <1>7, <2>4, <2>5, ShrinkKeeps
  <2>7. HandedIsLeaving'
    BY <1>4, <1>5, <1>7, <2>3, HandedKeeps, ZenonT(60)
  <2> QED BY <2>4, <2>6, <2>7
<1>8. CASE /\ ~o.ok
           /\ letters' = Becomes({l} \cap In({"sending", "held", "armed", "uncertain", "failed"}),
                                 "failed")
           /\ Continue(p, batch[p], Tail(outcomes[p]))
           /\ at' = at /\ recent' = recent
  <2>1. /\ letters' \in [Ids -> Rows] /\ KeepsSteps
        /\ \A m \in Ids : letters'[m].status =
             IF m = l /\ letters[l].status \in {"sending", "held", "uncertain", "failed"}
             THEN "failed" ELSE letters[m].status
    BY <1>3, <1>8, TypeMeans, BecomesRows, SMTT(60) DEF KeepsSteps, Statuses, In
  <2>2. TypeOK' /\ HeldWasTaken' /\ OneHolder' /\ OutcomesAreTrue' /\ OksWent'
             /\ HandedIsLeaving'
    <3>1. at' \in [Subjects -> 1..(Steps + 1)] /\ recent' \subseteq Ids
      BY <1>8, TypeMeans
    <3> QED BY <1>3, <1>7, <1>8, <2>1, <3>1, ZenonT(60)
  <2>3. OneIndexed'
    <3>1. In(Indexed)' \subseteq In(Indexed)
      BY <2>1 DEF In, Indexed
    <3> QED BY <2>1, <3>1 DEF OneIndexed, KeepsSteps, In
  <2>4. WrittenInTime'
    BY <1>5, <1>8, <2>1 DEF WrittenInTime, KeepsSteps
  <2>5. StatusIsTrue'
    BY <1>3, <1>5, <1>8, <2>1 DEF StatusIsTrue, In
  <2>6. SeriesFollowsLetters'
    <3>1. In({"sent"})' = In({"sent"})
      BY <2>1 DEF In
    <3>2. \A s \in Subjects, k \in 1..Steps : Written(s, k)' = Written(s, k)
      BY <2>1 DEF Written, KeepsSteps
    <3> QED BY <1>5, <1>8, <3>1, <3>2 DEF SeriesFollowsLetters
  <2> QED BY <2>2, <2>3, <2>4, <2>5, <2>6
<1>9. CASE /\ o.ok /\ letters[l].status = "sending"
           /\ letters' = Becomes({l}, "sent") /\ recent' = recent \cup {l}
           /\ AdvanceFor(l) /\ Continue(p, batch[p], Tail(outcomes[p]))
  <2>1. /\ letters' \in [Ids -> Rows] /\ KeepsSteps
        /\ \A m \in Ids : letters'[m].status = IF m = l THEN "sent" ELSE letters[m].status
    BY <1>9, TypeMeans, BecomesRows DEF KeepsSteps, Statuses
  <2>2. TypeOK' /\ HeldWasTaken' /\ OneHolder' /\ OutcomesAreTrue' /\ OksWent'
             /\ HandedIsLeaving'
    <3>1. at' \in [Subjects -> 1..(Steps + 1)]
      BY <1>3, <1>9, AdvanceType
    <3>2. recent' \subseteq Ids
      BY <1>3, <1>9, TypeMeans
    <3> QED BY <1>3, <1>7, <1>9, <2>1, <3>1, <3>2
  <2>3. OneIndexed' /\ WrittenInTime' /\ SeriesFollowsLetters'
    BY <1>3, <1>5, <1>9, <2>1, <2>2, SentFollows
  <2>4. StatusIsTrue'
    BY <1>3, <1>5, <1>9, <2>1 DEF StatusIsTrue, In
  <2> QED BY <2>2, <2>3, <2>4
<1>10. CASE Continue(p, {}, <<>>) /\ letters' = letters /\ at' = at /\ recent' = recent
  <2>1. TypeOK' /\ HeldWasTaken' /\ OneHolder' /\ OutcomesAreTrue' /\ OksWent'
             /\ HandedIsLeaving'
    BY <1>7, <1>10, TypeMeans
  <2>2. OneIndexed' /\ WrittenInTime' /\ SeriesFollowsLetters' /\ StatusIsTrue'
    BY <1>5, <1>10 DEF OneIndexed, WrittenInTime, SeriesFollowsLetters, StatusIsTrue, Written, In
  <2> QED BY <2>1, <2>2
<1> QED
  BY <1>8, <1>9, <1>10 DEF RecordDelivery, Stop, table, l, o

----------------------------------------------------------------------------
LEMMA InvNext == Inv /\ [Next]_vars => Inv'
<1> SUFFICES ASSUME Inv, [Next]_vars PROVE Inv'
  OBVIOUS
<1>1. ASSUME NEW l \in Ids, NEW t \in {NoToken} \cup Windows, Arm(l, NoSubject, 0, t)
      PROVE  Inv'
  <2>1. NoSubject \in Subjects \cup {NoSubject} /\ 0 \in 0..Steps
    BY ConstantsHave
  <2> QED BY <1>1, <2>1, ArmKeeps
<1>2. ASSUME NEW l \in Ids, NEW t \in {NoToken} \cup Windows, NEW s \in Subjects,
             NEW k \in 1..at[s], k <= Steps, Arm(l, s, k, t)
      PROVE  Inv'
  <2>1. at[s] \in Nat
    BY TypeMeans DEF Inv
  <2>2. k \in 0..Steps /\ s \in Subjects \cup {NoSubject}
    BY <1>2, <2>1, ConstantsHave
  <2> QED BY <1>2, <2>2, ArmKeeps
<1>3. ASSUME NEW l \in Ids, NEW sent \in BOOLEAN, Resolve(l, sent)  PROVE Inv'
  <2>1. Resolve(l, TRUE) \/ Resolve(l, FALSE)
    <3>1. sent = TRUE \/ sent = FALSE
      OBVIOUS
    <3> QED BY <1>3, <3>1, Zenon
  <2> QED BY <2>1, VouchKeeps, DisputeKeeps
<1>4. ASSUME NEW p \in Procs, Post(p)  PROVE Inv'
  BY <1>4, SweepKeeps, EnrollKeeps, ClaimKeeps, CommitKeeps, SubmitKeeps, RecordKeeps DEF Post
<1>5. CASE UNCHANGED vars
  <2>1. /\ letters' = letters /\ at' = at /\ recent' = recent /\ pc' = pc /\ batch' = batch
        /\ outcomes' = outcomes /\ delivered' = delivered /\ denied' = denied
        /\ vouched' = vouched /\ moved' = moved /\ interrupts' = interrupts
    BY <1>5 DEF vars, table, local, history
  <2>2. TypeOK'
    BY <2>1, TypeMeans, TypeMeansNext DEF Inv
  <2> QED
    BY <2>1, <2>2, QuietKeeps DEF KeepsSteps, KeepsHands, Settles
<1> QED
  BY <1>1, <1>2, <1>3, <1>4, <1>5, RetryKeeps, CancelKeeps, TimeKeeps, MoveKeeps, InterruptKeeps
     DEF Next

(* Every reachable state of the outgoing mail satisfies the invariant above. *)
THEOREM Invariance == Spec => []Inv
BY InvInit, InvNext, PTL DEF Spec

(* What the program says of a letter is so, whatever the processes, the     *)
(* steps of a series, the cap and the interruptions: sent went, or a human  *)
(* said it did; failed did not go, unless a human or an exchange that broke *)
(* off said so; a cancelled letter never went.                              *)
THEOREM LettersAreTold == Spec => []StatusIsTrue
<1>1. Inv => StatusIsTrue
  BY DEF Inv
<1> QED
  BY <1>1, Invariance, PTL

(* A step of a series goes once, however many processes post, unless the    *)
(* first letter was taken for lost: what went and is not disputed is counted *)
(* by the index, which admits one letter per step.                          *)
THEOREM StepsGoOnce == Spec => []StepGoesOnce
<1>1. Inv => StepGoesOnce
  <2> SUFFICES ASSUME Inv, NEW l \in delivered, NEW m \in delivered,
                      l # m, letters[l].subject # NoSubject,
                      letters[l].subject = letters[m].subject,
                      letters[l].step = letters[m].step, denied \cap {l, m} = {}
               PROVE  FALSE
    BY DEF StepGoesOnce
  <2>1. l \in Ids /\ m \in Ids /\ l \notin denied /\ m \notin denied
    BY TypeMeans DEF Inv
  <2>2. \A n \in {l, m} : letters[n].status \in Indexed
    <3> TAKE n \in {l, m}
    <3>1. letters[n].status \in Statuses
      BY <2>1, TypeMeans DEF Inv, Rows
    <3>2. letters[n].status \notin {"none", "armed", "held", "cancelled", "failed"}
      BY <2>1 DEF Inv, StatusIsTrue, In
    <3> QED BY <3>1, <3>2 DEF Statuses, Indexed
  <2> QED
    BY <2>1, <2>2 DEF Inv, OneIndexed, In
<1> QED
  BY <1>1, Invariance, PTL

(* A series no human moves stands after the steps whose letter is called    *)
(* sent, and before the others: it is never ahead of its letters, nor late. *)
THEOREM SeriesKeepsUp == Spec => []SeriesFollowsLetters
<1>1. Inv => SeriesFollowsLetters
  BY DEF Inv
<1> QED
  BY <1>1, Invariance, PTL
=============================================================================
