--------------------------- MODULE FollowUpProofs ---------------------------
(***************************************************************************)
(* Theorems on FollowUp, for any subjects, living series and bounds. A     *)
(* journal only grows: what the proofs need is what one more fact, or one  *)
(* retraction, does to the sorted and unretracted journal (Active), to the *)
(* cycle it is in, and to the day derived from them.                       *)
(***************************************************************************)
EXTENDS FollowUp, Integers, SumLemmas

Keys == UNION {{a[n].key : n \in DOMAIN a} : a \in Arrangements \cup {InvoiceSeries}}
Kinds == {"draft_prepared", "marked_sent", "step_skipped", "snoozed", "date_set",
          "retracted", "cycle_opened"}
JournalRows == [subject : Subjects, fact : Kinds, at : Nat, until : Days \cup {None},
                retracts : Nat \cup {None}, letter : Keys \cup {None}]

-----------------------------------------------------------------------------
(* Days and instants.                                                      *)

LEMMA DayOfInstant ==
    ASSUME NEW d \in Nat, NEW h \in 0..(Span - 1)
    PROVE  d * Span + h \in Nat /\ (d * Span + h) \div Span = d
<1> DEFINE a == d * Span + h
           q == a \div Span
           r == a % Span
<1>1. Span \in Nat \ {0} /\ h \in Nat /\ h < Span
  BY FollowUpAssumption
<1>2. d * Span \in Nat
  BY <1>1
<1>3. a \in Nat
  BY <1>1, <1>2
<1>4. q \in Int /\ r \in 0..(Span - 1) /\ a = Span * q + r
  BY <1>1, <1>3
<1>5. Span * (q - d) = h - r
  BY <1>1, <1>4
<1>6. q - d < 1 /\ q - d > -1
  BY <1>1, <1>4, <1>5
<1> QED
  BY <1>3, <1>4, <1>6

LEMMA DayIsANumber ==
    ASSUME NEW a \in Nat
    PROVE  a \div Span \in Nat
BY FollowUpAssumption

LEMMA LaterIsNoSoonerDay ==
    ASSUME NEW a \in Nat, NEW b \in Nat, a <= b
    PROVE  a \div Span <= b \div Span
BY FollowUpAssumption

-----------------------------------------------------------------------------
(* The reading of a journal f, which the module reads of the variable: so  *)
(* that a journal and the one a command leaves can be compared.            *)

RowsOf(f, s) == {i \in DOMAIN f : f[i].subject = s}
TrueRows(f, s) == {i \in RowsOf(f, s) : f[i].fact # "retracted" /\ i \notin {f[j].retracts : j \in DOMAIN f}}
Prec(f, i, j) == f[i].at < f[j].at \/ (f[i].at = f[j].at /\ i < j)
LastIn(f, S) == CHOOSE i \in S : \A j \in S \ {i} : Prec(f, j, i)
Openings(f, s) == {i \in TrueRows(f, s) : f[i].fact = "cycle_opened"}
Entered(f, s) == IF Openings(f, s) = {} THEN 0 ELSE LastIn(f, Openings(f, s))
Since(f, s) == {i \in TrueRows(f, s) : Openings(f, s) # {} => Prec(f, Entered(f, s), i)}
Advances(f, s) == {i \in Since(f, s) : f[i].fact \in Advancing}
Stands(f, s, i) == Advances(f, s) # {} => f[i].at >= f[LastIn(f, Advances(f, s))].at
Wishes(f, s) == {i \in Since(f, s) : f[i].fact \in Overriding /\ Stands(f, s, i)}

LEMMA ReadingIs ==
    ASSUME NEW s
    PROVE  /\ Rows(s) = RowsOf(facts, s) /\ Active(s) = TrueRows(facts, s)
           /\ Reprises(s) = Openings(facts, s) /\ EnteredCycle(s) = Entered(facts, s)
           /\ InCycle(s) = Since(facts, s) /\ AdvancesOf(s) = Advances(facts, s)
           /\ Overrides(s) = Wishes(facts, s)
<1>1. \A i, j : Before(i, j) <=> Prec(facts, i, j)
  BY DEF Before, Prec
<1>2. \A S : LastOf(S) = LastIn(facts, S)
  BY DEF LastOf, LastIn, Before, Prec
<1>3. Rows(s) = RowsOf(facts, s) /\ Active(s) = TrueRows(facts, s)
  BY DEF Rows, RowsOf, Active, TrueRows, Retracted
<1>4. Reprises(s) = Openings(facts, s)
  BY <1>3 DEF Reprises, Openings
<1>5. EnteredCycle(s) = Entered(facts, s)
  BY <1>2, <1>4 DEF EnteredCycle, Entered
<1>6. InCycle(s) = Since(facts, s)
  BY <1>1, <1>3, <1>4, <1>5 DEF InCycle, Since
<1>7. AdvancesOf(s) = Advances(facts, s)
  BY <1>6 DEF AdvancesOf, Advances
<1>8. \A i : Standing(s, i) <=> Stands(facts, s, i)
  BY <1>2, <1>7 DEF Standing, Stands
<1>9. Overrides(s) = Wishes(facts, s)
  BY <1>6, <1>8 DEF Overrides, Wishes
<1> QED
  BY <1>3, <1>4, <1>5, <1>6, <1>7, <1>9

(* The same of the journal a step leaves.                                  *)
LEMMA NextReadingIs ==
    ASSUME NEW s
    PROVE  /\ Rows(s)' = RowsOf(facts', s) /\ Active(s)' = TrueRows(facts', s)
           /\ Reprises(s)' = Openings(facts', s) /\ EnteredCycle(s)' = Entered(facts', s)
           /\ InCycle(s)' = Since(facts', s) /\ AdvancesOf(s)' = Advances(facts', s)
           /\ Overrides(s)' = Wishes(facts', s)
<1>1. \A i, j : Before(i, j)' <=> Prec(facts', i, j)
  BY DEF Before, Prec
<1>3. Rows(s)' = RowsOf(facts', s) /\ Active(s)' = TrueRows(facts', s)
  BY DEF Rows, RowsOf, Active, TrueRows, Retracted
<1>4. Reprises(s)' = Openings(facts', s)
  BY <1>3 DEF Reprises, Openings
<1>5. EnteredCycle(s)' = Entered(facts', s)
  BY <1>4 DEF EnteredCycle, Entered, LastOf, LastIn, Before, Prec
<1>6. InCycle(s)' = Since(facts', s)
  BY <1>1, <1>3, <1>4, <1>5 DEF InCycle, Since
<1>7. AdvancesOf(s)' = Advances(facts', s)
  BY <1>6 DEF AdvancesOf, Advances
<1>9. Overrides(s)' = Wishes(facts', s)
  BY <1>6, <1>7 DEF Overrides, Wishes, Standing, Stands, LastOf, LastIn, Before, Prec
<1> QED
  BY <1>3, <1>4, <1>5, <1>6, <1>7, <1>9

LEMMA JournalShape ==
    ASSUME NEW f \in Seq(JournalRows)
    PROVE  /\ Len(f) \in Nat /\ DOMAIN f = 1..Len(f)
           /\ \A i \in DOMAIN f : i \in Nat /\ f[i] \in JournalRows /\ f[i].at \in Nat
<1>1. Len(f) \in Nat /\ DOMAIN f = 1..Len(f)
  OBVIOUS
<1>2. \A i \in DOMAIN f : i \in Nat
  BY <1>1
<1>3. \A i \in DOMAIN f : f[i] \in JournalRows
  <2> HIDE DEF JournalRows
  <2> QED BY <1>1
<1>4. \A r \in JournalRows : r.at \in Nat
  BY DEF JournalRows
<1> QED BY <1>1, <1>2, <1>3, <1>4

LEMMA PrecIsTotal ==
    ASSUME NEW f \in Seq(JournalRows), NEW i \in DOMAIN f, NEW j \in DOMAIN f, i # j
    PROVE  Prec(f, i, j) <=> ~Prec(f, j, i)
<1>1. f[i].at \in Nat /\ f[j].at \in Nat /\ i \in Nat /\ j \in Nat
  BY JournalShape
<1> QED BY <1>1 DEF Prec

LEMMA PrecIsTransitive ==
    ASSUME NEW f \in Seq(JournalRows), NEW i \in DOMAIN f, NEW j \in DOMAIN f, NEW k \in DOMAIN f,
           Prec(f, i, j), Prec(f, j, k)
    PROVE  Prec(f, i, k)
<1>1. f[i].at \in Nat /\ f[j].at \in Nat /\ f[k].at \in Nat /\ i \in Nat /\ j \in Nat /\ k \in Nat
  BY JournalShape
<1> QED BY <1>1 DEF Prec

(* The rows of a journal are in a total order: a set of them has a last.   *)
LEMMA LastIsIn ==
    ASSUME NEW f \in Seq(JournalRows), NEW S, S \subseteq DOMAIN f, S # {}
    PROVE  /\ LastIn(f, S) \in S
           /\ \A j \in S \ {LastIn(f, S)} : Prec(f, j, LastIn(f, S))
<1> DEFINE HasLast(T) == \E i \in T : \A j \in T \ {i} : Prec(f, j, i)
           bad == {T \in SUBSET DOMAIN f : T # {} /\ ~HasLast(T)}
<1>1. DOMAIN f = 1..Len(f) /\ Len(f) \in Nat /\ \A i \in DOMAIN f : f[i].at \in Nat /\ i \in Nat
  BY JournalShape
<1>2. IsFiniteSet(DOMAIN f)
  BY <1>1, FS_Interval
<1>3. ASSUME bad # {} PROVE FALSE
  <2>1. PICK T \in bad : \A U \in bad : U \subseteq T => U = T
    <3>1. bad \subseteq SUBSET DOMAIN f
      OBVIOUS
    <3> HIDE DEF bad
    <3> QED BY <1>2, <1>3, <3>1, SmallestSubset
  <2>2. T \in SUBSET DOMAIN f /\ T # {} /\ ~HasLast(T)
    BY <2>1
  <2>3. PICK a \in T : TRUE
    BY <2>2
  <2>4. T \ {a} \notin bad
    BY <2>1, <2>3
  <2>5. CASE T \ {a} = {}
    BY <2>2, <2>3, <2>5
  <2>6. CASE HasLast(T \ {a})
    <3>1. PICK b \in T \ {a} : \A j \in (T \ {a}) \ {b} : Prec(f, j, b)
      BY <2>6
    <3>2. a \in DOMAIN f /\ b \in DOMAIN f /\ a # b
      BY <2>2, <2>3, <3>1
    <3>3. CASE Prec(f, a, b)
      <4>1. \A j \in T \ {b} : Prec(f, j, b)
        BY <3>1, <3>3
      <4> QED BY <2>2, <3>1, <4>1
    <3>4. CASE Prec(f, b, a)
      <4>1. ASSUME NEW j \in T \ {a} PROVE Prec(f, j, a)
        <5>1. CASE j = b
          BY <3>4, <5>1
        <5>2. CASE j # b
          <6>1. Prec(f, j, b) /\ j \in DOMAIN f
            BY <2>2, <3>1, <4>1, <5>2
          <6> QED BY <3>2, <3>4, <6>1, PrecIsTransitive
        <5> QED BY <5>1, <5>2
      <4> QED BY <2>2, <2>3, <4>1
    <3> QED BY <3>2, <3>3, <3>4, PrecIsTotal
  <2> QED BY <2>2, <2>4, <2>5, <2>6
<1>4. HasLast(S)
  BY <1>3
<1> HIDE DEF bad
<1> QED BY <1>4 DEF LastIn

(* There is only one.                                                      *)
LEMMA LastIs ==
    ASSUME NEW f \in Seq(JournalRows), NEW S, S \subseteq DOMAIN f,
           NEW i \in S, \A j \in S \ {i} : Prec(f, j, i)
    PROVE  LastIn(f, S) = i
<1>1. LastIn(f, S) \in S /\ \A j \in S \ {LastIn(f, S)} : Prec(f, j, LastIn(f, S))
  BY LastIsIn
<1>2. CASE LastIn(f, S) # i
  <2>1. Prec(f, i, LastIn(f, S)) /\ Prec(f, LastIn(f, S), i)
    BY <1>1, <1>2
  <2> QED BY <1>1, <1>2, <2>1, PrecIsTotal
<1> QED BY <1>2

(* A journal that begins as another one, as far as those rows go.          *)
LEMMA LastStays ==
    ASSUME NEW f \in Seq(JournalRows), NEW g \in Seq(JournalRows),
           NEW S, S \subseteq DOMAIN f, S \subseteq DOMAIN g, \A i \in S : g[i] = f[i], S # {}
    PROVE  LastIn(g, S) = LastIn(f, S)
<1>1. LastIn(f, S) \in S /\ \A j \in S \ {LastIn(f, S)} : Prec(g, j, LastIn(f, S))
  BY LastIsIn DEF Prec
<1> QED BY <1>1, LastIs

(* What is read of a subject is the same in two journals.                  *)
ReadsAlike(f, g, s) ==
    /\ Openings(g, s) = Openings(f, s) /\ Entered(g, s) = Entered(f, s)
    /\ Advances(g, s) = Advances(f, s) /\ Wishes(g, s) = Wishes(f, s)
    /\ Wishes(f, s) # {} =>
         g[LastIn(g, Wishes(g, s))].until = f[LastIn(f, Wishes(f, s))].until
    /\ Advances(f, s) # {} =>
         g[LastIn(g, Advances(g, s))].at = f[LastIn(f, Advances(f, s))].at

(* Nothing but drafts was added to what is true of a subject.              *)
OnlyDrafted(f, g, s) ==
    /\ TrueRows(f, s) \subseteq TrueRows(g, s)
    /\ \A i \in TrueRows(f, s) : g[i] = f[i]
    /\ \A i \in TrueRows(g, s) \ TrueRows(f, s) : g[i].fact = "draft_prepared"

(* Of the rows still true of a subject, drafts count for nothing in where  *)
(* its series stands: a journal with more of them reads the same.          *)
LEMMA SameReading ==
    ASSUME NEW f \in Seq(JournalRows), NEW g \in Seq(JournalRows), NEW s,
           OnlyDrafted(f, g, s)
    PROVE  ReadsAlike(f, g, s)
<1> DEFINE N == TrueRows(g, s) \ TrueRows(f, s)
<1>0. /\ TrueRows(g, s) = TrueRows(f, s) \cup N /\ \A i \in TrueRows(f, s) : g[i] = f[i]
      /\ \A i \in N : g[i].fact = "draft_prepared"
  BY DEF OnlyDrafted
<1> HIDE DEF N
<1> DEFINE T == TrueRows(f, s)
<1>1. T \subseteq DOMAIN f /\ T \subseteq DOMAIN g
  <2>1. T \subseteq DOMAIN f /\ TrueRows(g, s) \subseteq DOMAIN g
    BY DEF TrueRows, RowsOf
  <2> QED BY <1>0, <2>1
<1>2. Openings(g, s) = Openings(f, s)
  BY <1>0 DEF Openings
<1>3. Openings(f, s) \subseteq T
  BY DEF Openings
<1>4. Entered(g, s) = Entered(f, s)
  <2>1. CASE Openings(f, s) = {}
    BY <1>2, <2>1 DEF Entered
  <2>2. CASE Openings(f, s) # {}
    <3>1. LastIn(g, Openings(f, s)) = LastIn(f, Openings(f, s))
      <4> HIDE DEF T
      <4>1. /\ Openings(f, s) \subseteq DOMAIN f /\ Openings(f, s) \subseteq DOMAIN g
            /\ \A i \in Openings(f, s) : g[i] = f[i]
        BY <1>0, <1>1, <1>3 DEF T
      <4> QED BY <2>2, <4>1, LastStays
    <3> QED BY <1>2, <2>2, <3>1 DEF Entered
  <2> QED BY <2>1, <2>2
<1>5. Openings(f, s) # {} => Entered(f, s) \in T
  <2> SUFFICES ASSUME Openings(f, s) # {} PROVE Entered(f, s) \in T
    OBVIOUS
  <2>1. LastIn(f, Openings(f, s)) \in Openings(f, s)
    BY <1>1, <1>3, LastIsIn
  <2> QED BY <1>3, <2>1 DEF Entered
<1>6. ASSUME NEW i \in T PROVE i \in Since(g, s) <=> i \in Since(f, s)
  <2>1. Openings(f, s) # {} => (Prec(g, Entered(f, s), i) <=> Prec(f, Entered(f, s), i))
    BY <1>0, <1>5, <1>6 DEF Prec
  <2> QED BY <1>0, <1>2, <1>4, <1>6, <2>1 DEF Since
<1>7. \A i \in T : g[i].fact = f[i].fact
  BY <1>0
<1>8. Advances(g, s) = Advances(f, s)
  <2>1. ASSUME NEW i \in Advances(g, s) PROVE i \in Advances(f, s)
    <3>1. i \in Since(g, s) /\ g[i].fact \in Advancing /\ i \in TrueRows(g, s)
      BY DEF Advances, Since
    <3>2. i \notin N
      BY <1>0, <3>1 DEF Advancing
    <3>3. i \in T
      BY <1>0, <3>1, <3>2
    <3> QED BY <1>6, <1>7, <3>1, <3>3 DEF Advances
  <2>2. ASSUME NEW i \in Advances(f, s) PROVE i \in Advances(g, s)
    <3>1. i \in Since(f, s) /\ f[i].fact \in Advancing /\ i \in T
      BY DEF Advances, Since
    <3> QED BY <1>6, <1>7, <3>1 DEF Advances
  <2> QED BY <2>1, <2>2
<1>9. Advances(f, s) \subseteq T
  BY DEF Advances, Since
<1>10. Advances(f, s) # {} => /\ LastIn(g, Advances(f, s)) = LastIn(f, Advances(f, s))
                              /\ LastIn(f, Advances(f, s)) \in T
  <2> SUFFICES ASSUME Advances(f, s) # {}
               PROVE  /\ LastIn(g, Advances(f, s)) = LastIn(f, Advances(f, s))
                      /\ LastIn(f, Advances(f, s)) \in T
    OBVIOUS
  <2>1. /\ Advances(f, s) \subseteq DOMAIN f /\ Advances(f, s) \subseteq DOMAIN g
        /\ \A i \in Advances(f, s) : g[i] = f[i]
    BY <1>0, <1>1, <1>9
  <2>2. LastIn(g, Advances(f, s)) = LastIn(f, Advances(f, s))
    BY <2>1, LastStays
  <2>3. LastIn(f, Advances(f, s)) \in Advances(f, s)
    BY <2>1, LastIsIn
  <2> QED BY <1>9, <2>2, <2>3
<1>11. Advances(f, s) # {} => g[LastIn(g, Advances(g, s))].at = f[LastIn(f, Advances(f, s))].at
  BY <1>0, <1>8, <1>10
<1>12. \A i \in T : Stands(g, s, i) <=> Stands(f, s, i)
  BY <1>0, <1>8, <1>11 DEF Stands
<1>13. Wishes(g, s) = Wishes(f, s)
  <2>1. ASSUME NEW i \in Wishes(g, s) PROVE i \in Wishes(f, s)
    <3>1. i \in Since(g, s) /\ g[i].fact \in Overriding /\ i \in TrueRows(g, s) /\ Stands(g, s, i)
      BY DEF Wishes, Since
    <3>2. i \notin N
      BY <1>0, <3>1 DEF Overriding
    <3>3. i \in T
      BY <1>0, <3>1, <3>2
    <3> QED BY <1>6, <1>7, <1>12, <3>1, <3>3 DEF Wishes
  <2>2. ASSUME NEW i \in Wishes(f, s) PROVE i \in Wishes(g, s)
    <3>1. i \in Since(f, s) /\ f[i].fact \in Overriding /\ i \in T /\ Stands(f, s, i)
      BY DEF Wishes, Since
    <3> QED BY <1>6, <1>7, <1>12, <3>1 DEF Wishes
  <2> QED BY <2>1, <2>2
<1>14. Wishes(f, s) # {} => g[LastIn(g, Wishes(g, s))].until = f[LastIn(f, Wishes(f, s))].until
  <2> SUFFICES ASSUME Wishes(f, s) # {}
               PROVE  g[LastIn(g, Wishes(g, s))].until = f[LastIn(f, Wishes(f, s))].until
    OBVIOUS
  <2>1. Wishes(f, s) \subseteq T
    BY DEF Wishes, Since
  <2>2. /\ Wishes(f, s) \subseteq DOMAIN f /\ Wishes(f, s) \subseteq DOMAIN g
        /\ \A i \in Wishes(f, s) : g[i] = f[i]
    BY <1>0, <1>1, <2>1
  <2>3. LastIn(g, Wishes(f, s)) = LastIn(f, Wishes(f, s))
    BY <2>2, LastStays
  <2>4. LastIn(f, Wishes(f, s)) \in Wishes(f, s)
    BY <2>2, LastIsIn
  <2> QED BY <1>13, <2>2, <2>3, <2>4
<1> QED
  BY <1>2, <1>4, <1>8, <1>11, <1>13, <1>14 DEF ReadsAlike

-----------------------------------------------------------------------------
(* A row more.                                                             *)

(* An undoing is of an earlier row of the same subject.                    *)
SoundJournal(f) ==
    /\ f \in Seq(JournalRows)
    /\ \A i \in DOMAIN f :
        /\ f[i].fact = "retracted" <=> f[i].retracts # None
        /\ f[i].fact = "retracted" => /\ f[i].retracts \in DOMAIN f
                                      /\ f[i].retracts < i
                                      /\ f[f[i].retracts].subject = f[i].subject

LEMMA RowMore ==
    ASSUME NEW f \in Seq(JournalRows), NEW r \in JournalRows, NEW g, g = Append(f, r)
    PROVE  /\ g \in Seq(JournalRows) /\ Len(g) = Len(f) + 1
           /\ DOMAIN g = DOMAIN f \cup {Len(f) + 1} /\ Len(f) + 1 \notin DOMAIN f
           /\ g[Len(f) + 1] = r /\ \A i \in DOMAIN f : g[i] = f[i] /\ i < Len(f) + 1
<1> HIDE DEF JournalRows
<1>1. Len(f) \in Nat /\ DOMAIN f = 1..Len(f)
  OBVIOUS
<1>2. g \in Seq(JournalRows) /\ Len(g) = Len(f) + 1
  OBVIOUS
<1>3. DOMAIN g = 1..(Len(f) + 1)
  BY <1>2
<1>4. g[Len(f) + 1] = r
  BY <1>1
<1>5. \A i \in 1..Len(f) : g[i] = f[i]
  BY <1>1
<1> QED BY <1>1, <1>2, <1>3, <1>4, <1>5

LEMMA SoundRowMore ==
    ASSUME NEW f, SoundJournal(f), NEW r \in JournalRows, NEW g, g = Append(f, r),
           r.fact = "retracted" <=> r.retracts # None,
           r.fact = "retracted" => r.retracts \in RowsOf(f, r.subject)
    PROVE  SoundJournal(g)
<1>1. f \in Seq(JournalRows)
  BY DEF SoundJournal
<1>2. /\ g \in Seq(JournalRows) /\ DOMAIN g = DOMAIN f \cup {Len(f) + 1}
      /\ g[Len(f) + 1] = r /\ \A i \in DOMAIN f : g[i] = f[i] /\ i < Len(f) + 1
  <2> HIDE DEF JournalRows
  <2> QED BY <1>1, RowMore
<1>3. ASSUME NEW i \in DOMAIN g
      PROVE  /\ g[i].fact = "retracted" <=> g[i].retracts # None
             /\ g[i].fact = "retracted" => /\ g[i].retracts \in DOMAIN g
                                           /\ g[i].retracts < i
                                           /\ g[g[i].retracts].subject = g[i].subject
  <2>1. CASE i \in DOMAIN f
    BY <1>2, <2>1 DEF SoundJournal
  <2>2. CASE i = Len(f) + 1
    BY <1>2, <2>2 DEF RowsOf
  <2> QED BY <1>2, <2>1, <2>2
<1> QED BY <1>2, <1>3 DEF SoundJournal

(* What a row more leaves true.                                            *)
TrueAfter(f, r, g) ==
    /\ \A s : s # r.subject => TrueRows(g, s) = TrueRows(f, s)
    /\ r.fact # "retracted" => TrueRows(g, r.subject) = TrueRows(f, r.subject) \cup {Len(f) + 1}
    /\ r.fact = "retracted" => TrueRows(g, r.subject) = TrueRows(f, r.subject) \ {r.retracts}

(* The rows still true: those of others stay, and a row that undoes        *)
(* nothing is one more.                                                    *)
LEMMA TrueRowMore ==
    ASSUME NEW f, SoundJournal(f), NEW r \in JournalRows, NEW g, g = Append(f, r),
           r.fact = "retracted" <=> r.retracts # None,
           r.fact = "retracted" => r.retracts \in RowsOf(f, r.subject)
    PROVE  TrueAfter(f, r, g)
<1> DEFINE n == Len(f) + 1
<1>1. f \in Seq(JournalRows)
  BY DEF SoundJournal
<1>2. /\ DOMAIN g = DOMAIN f \cup {n} /\ n \notin DOMAIN f
      /\ g[n] = r /\ \A i \in DOMAIN f : g[i] = f[i]
  <2> HIDE DEF JournalRows
  <2> QED BY <1>1, RowMore
<1> HIDE DEF n
<1>3. {g[j].retracts : j \in DOMAIN g} = {f[j].retracts : j \in DOMAIN f} \cup {r.retracts}
  <2>1. ASSUME NEW j \in DOMAIN g
        PROVE  g[j].retracts \in {f[k].retracts : k \in DOMAIN f} \cup {r.retracts}
    BY <1>2
  <2>2. ASSUME NEW j \in DOMAIN f PROVE f[j].retracts \in {g[k].retracts : k \in DOMAIN g}
    BY <1>2
  <2>3. r.retracts \in {g[k].retracts : k \in DOMAIN g}
    BY <1>2
  <2> QED BY <2>1, <2>2, <2>3
<1>4. n \notin {f[j].retracts : j \in DOMAIN f}
  <2> SUFFICES ASSUME NEW j \in DOMAIN f, f[j].retracts = n PROVE FALSE
    OBVIOUS
  <2>1. f[j].retracts \in DOMAIN f \/ f[j].retracts = None
    BY DEF SoundJournal
  <2>2. n # None
    BY <1>1, JournalShape, FollowUpAssumption DEF n
  <2> QED BY <1>2, <2>1, <2>2
<1>5. \A i \in DOMAIN f : i # None
  BY <1>1, JournalShape, FollowUpAssumption
<1>6. r.retracts # n
  <2>1. CASE r.fact = "retracted"
    BY <1>2, <2>1 DEF RowsOf
  <2>2. CASE r.fact # "retracted"
    <3>1. n # None
      BY <1>1, JournalShape, FollowUpAssumption DEF n
    <3> QED BY <2>2, <3>1
  <2> QED BY <2>1, <2>2
<1>7. \A s : RowsOf(g, s) = IF s = r.subject THEN RowsOf(f, s) \cup {n} ELSE RowsOf(f, s)
  BY <1>2 DEF RowsOf
<1>8. ASSUME NEW s, NEW i \in DOMAIN f
      PROVE  i \in TrueRows(g, s) <=> i \in TrueRows(f, s) /\ i # r.retracts
  <2>1. i \in RowsOf(g, s) <=> i \in RowsOf(f, s)
    BY <1>2, <1>7, <1>8
  <2>2. g[i].fact = f[i].fact
    BY <1>2, <1>8
  <2> QED BY <1>3, <2>1, <2>2 DEF TrueRows
<1>9. ASSUME NEW s PROVE n \in TrueRows(g, s) <=> s = r.subject /\ r.fact # "retracted"
  <2>1. n \in RowsOf(g, s) <=> s = r.subject
    BY <1>2, <1>7 DEF RowsOf
  <2>2. n \notin {g[j].retracts : j \in DOMAIN g}
    BY <1>3, <1>4, <1>6
  <2> QED BY <1>2, <2>1, <2>2 DEF TrueRows
<1>10. \A s : TrueRows(g, s) \subseteq DOMAIN f \cup {n} /\ TrueRows(f, s) \subseteq DOMAIN f
  BY <1>2 DEF TrueRows, RowsOf
<1>11. ASSUME NEW s, s # r.subject PROVE TrueRows(g, s) = TrueRows(f, s)
  <2>1. n \notin TrueRows(g, s)
    BY <1>9, <1>11
  <2>2. ASSUME NEW i \in TrueRows(f, s) PROVE i # r.retracts
    <3>1. f[i].subject = s /\ i \in DOMAIN f
      BY <2>2 DEF TrueRows, RowsOf
    <3>2. CASE r.fact = "retracted"
      BY <1>11, <3>1, <3>2 DEF RowsOf
    <3>3. CASE r.fact # "retracted"
      BY <1>5, <3>1, <3>3
    <3> QED BY <3>2, <3>3
  <2>3. \A i \in DOMAIN f : i \in TrueRows(g, s) <=> i \in TrueRows(f, s)
    BY <1>8, <2>2
  <2> QED BY <1>10, <2>1, <2>3
<1>12. ASSUME r.fact # "retracted"
       PROVE  TrueRows(g, r.subject) = TrueRows(f, r.subject) \cup {n}
  <2>1. \A i \in DOMAIN f : i # r.retracts
    BY <1>5, <1>12
  <2>2. \A i \in DOMAIN f : i \in TrueRows(g, r.subject) <=> i \in TrueRows(f, r.subject)
    BY <1>8, <2>1
  <2>3. n \in TrueRows(g, r.subject)
    BY <1>9, <1>12
  <2> QED BY <1>10, <2>2, <2>3
<1>13. ASSUME r.fact = "retracted"
       PROVE  TrueRows(g, r.subject) = TrueRows(f, r.subject) \ {r.retracts}
  <2>1. n \notin TrueRows(g, r.subject)
    BY <1>9, <1>13
  <2>2. \A i \in DOMAIN f : i \in TrueRows(g, r.subject) <=>
                            i \in TrueRows(f, r.subject) \ {r.retracts}
    BY <1>8
  <2> QED BY <1>10, <2>1, <2>2
<1> QED
  BY <1>11, <1>12, <1>13 DEF n, TrueAfter

-----------------------------------------------------------------------------
(* Stamps.                                                                 *)

(* stamp_after: noon of the day asked for, unless the last row of the      *)
(* subject on that day is later.                                           *)
LEMMA StampFrom ==
    ASSUME facts \in Seq(JournalRows), NEW s, NEW d \in Nat
    PROVE  \/ /\ StampAfter(s, d) = d * Span + Noon
              /\ \A i \in Rows(s) : DateOf(i) = d => facts[i].at < d * Span + Noon
           \/ \E z \in Rows(s) :
                /\ DateOf(z) = d /\ facts[z].at >= d * Span + Noon
                /\ \A i \in Rows(s) : DateOf(i) = d => facts[i].at <= facts[z].at
                /\ StampAfter(s, d) = IF (facts[z].at + 1) \div Span = d THEN facts[z].at + 1
                                      ELSE facts[z].at
<1> DEFINE today == {j \in Rows(s) : DateOf(j) = d}
           onDay == {facts[i].at : i \in today}
           last == CHOOSE t \in onDay : \A u \in onDay : u <= t
           noon == d * Span + Noon
           stamp == StampAfter(s, d)
<1>1. today \subseteq DOMAIN facts /\ \A i \in Rows(s) : DateOf(i) = d <=> i \in today
  BY DEF Rows
<1>2. \A i \in DOMAIN facts : facts[i].at \in Nat
  BY JournalShape
<1>3. stamp = IF onDay = {} \/ last < noon THEN noon
              ELSE IF (last + 1) \div Span = d THEN last + 1 ELSE last
  BY DEF StampAfter
<1>4. noon \in Nat
  BY FollowUpAssumption, DayOfInstant
<1> HIDE DEF noon, stamp
<1>5. CASE today = {}
  BY <1>1, <1>3, <1>5 DEF noon, stamp
<1>6. CASE today # {}
  <2> DEFINE z == LastIn(facts, today)
  <2>1. z \in today /\ \A j \in today \ {z} : Prec(facts, j, z)
    <3> HIDE DEF today, JournalRows
    <3> QED BY <1>1, <1>6, LastIsIn
  <2>2. \A j \in today : facts[j].at <= facts[z].at
    <3> SUFFICES ASSUME NEW j \in today PROVE facts[j].at <= facts[z].at
      OBVIOUS
    <3>1. facts[j].at \in Nat /\ facts[z].at \in Nat
      BY <1>1, <1>2, <2>1
    <3> HIDE DEF z, today
    <3> QED BY <2>1, <3>1 DEF Prec
  <2>3. last = facts[z].at /\ onDay # {}
    <3>1. facts[z].at \in onDay /\ \A u \in onDay : u <= facts[z].at
      <4> HIDE DEF z
      <4> QED BY <2>1, <2>2
    <3>2. onDay \subseteq Nat
      BY <1>1, <1>2
    <3>3. last \in onDay /\ \A u \in onDay : u <= last
      <4> HIDE DEF onDay, z
      <4> QED BY <3>1
    <3> HIDE DEF onDay, last, z, today
    <3>4. last \in Nat /\ facts[z].at \in Nat /\ last <= facts[z].at /\ facts[z].at <= last
      BY <3>1, <3>2, <3>3
    <3> QED BY <3>1, <3>4
  <2>4. facts[z].at \in Nat /\ z \in Rows(s) /\ DateOf(z) = d
    BY <1>1, <1>2, <2>1
  <2>5. \A i \in today : facts[i].at \in Nat
    BY <1>1, <1>2
  <2> HIDE DEF last, onDay, today, z
  <2>6. CASE facts[z].at < noon
    <3>1. stamp = noon /\ \A i \in today : facts[i].at < noon
      BY <1>3, <1>4, <2>2, <2>3, <2>4, <2>5, <2>6
    <3> QED BY <1>1, <3>1 DEF noon, stamp
  <2>7. CASE facts[z].at >= noon
    <3>1. stamp = IF (facts[z].at + 1) \div Span = d THEN facts[z].at + 1 ELSE facts[z].at
      BY <1>3, <1>4, <2>3, <2>4, <2>7
    <3> QED BY <1>1, <2>2, <2>4, <2>7, <3>1 DEF noon, stamp
  <2> QED BY <1>4, <2>4, <2>6, <2>7
<1> QED BY <1>5, <1>6

(* So a stamp of the day asked for, that no row of the subject on that day *)
(* is past.                                                                *)
LEMMA StampIs ==
    ASSUME facts \in Seq(JournalRows), NEW s, NEW d \in Nat
    PROVE  /\ StampAfter(s, d) \in Nat /\ StampAfter(s, d) \div Span = d
           /\ \A i \in Rows(s) : DateOf(i) = d => facts[i].at <= StampAfter(s, d)
<1> DEFINE noon == d * Span + Noon
<1>1. noon \in Nat /\ noon \div Span = d
  BY FollowUpAssumption, DayOfInstant
<1>2. \A i \in Rows(s) : facts[i].at \in Nat
  BY JournalShape DEF Rows
<1>3. CASE /\ StampAfter(s, d) = noon
           /\ \A i \in Rows(s) : DateOf(i) = d => facts[i].at < noon
  <2> HIDE DEF noon
  <2> QED BY <1>1, <1>2, <1>3
<1>4. ASSUME NEW z \in Rows(s), DateOf(z) = d,
             \A i \in Rows(s) : DateOf(i) = d => facts[i].at <= facts[z].at,
             StampAfter(s, d) = IF (facts[z].at + 1) \div Span = d THEN facts[z].at + 1
                                ELSE facts[z].at
      PROVE  /\ StampAfter(s, d) \in Nat /\ StampAfter(s, d) \div Span = d
             /\ \A i \in Rows(s) : DateOf(i) = d => facts[i].at <= StampAfter(s, d)
  <2>1. facts[z].at \in Nat /\ facts[z].at \div Span = d
    BY <1>2, <1>4 DEF DateOf
  <2>2. /\ StampAfter(s, d) \in Nat /\ StampAfter(s, d) \div Span = d
        /\ facts[z].at <= StampAfter(s, d)
    BY <1>4, <2>1
  <2> QED BY <1>2, <1>4, <2>1, <2>2
<1> HIDE DEF noon
<1>5. \/ StampAfter(s, d) = noon /\ \A i \in Rows(s) : DateOf(i) = d => facts[i].at < noon
      \/ \E z \in Rows(s) :
           /\ DateOf(z) = d
           /\ \A i \in Rows(s) : DateOf(i) = d => facts[i].at <= facts[z].at
           /\ StampAfter(s, d) = IF (facts[z].at + 1) \div Span = d THEN facts[z].at + 1
                                 ELSE facts[z].at
  BY StampFrom DEF noon
<1> QED BY <1>3, <1>4, <1>5

-----------------------------------------------------------------------------
(* The next day.                                                           *)

DueIn(f, c, steps, anchor) ==
    IF Wishes(f, c) # {} THEN f[LastIn(f, Wishes(f, c))].until
    ELSE IF Cardinality(Advances(f, c)) >= Len(steps) THEN None
    ELSE IF Advances(f, c) # {}
         THEN AddWeekdays(f[LastIn(f, Advances(f, c))].at \div Span,
                          steps[Cardinality(Advances(f, c)) + 1].gap)
         ELSE anchor

NextAnchor(c) == IF fiche'[c].next = None THEN day' ELSE fiche'[c].next

LEMMA DueDayIs ==
    ASSUME NEW c \in Conversations, NEW anchor
    PROVE  /\ DueDay(c, anchor) = DueIn(facts, c, Steps(c), anchor)
           /\ DueDay(c, anchor)' = DueIn(facts', c, Steps(c)', anchor)
           /\ Anchor(c) = IF fiche[c].next = None THEN day ELSE fiche[c].next
           /\ Anchor(c)' = NextAnchor(c)
<1>1. c \notin Invoices
  BY FollowUpAssumption
<1>2. /\ AdvancesOf(c) = Advances(facts, c) /\ Overrides(c) = Wishes(facts, c)
      /\ AdvancesOf(c)' = Advances(facts', c) /\ Overrides(c)' = Wishes(facts', c)
  BY ReadingIs, NextReadingIs
<1>3. DueDay(c, anchor) = DueIn(facts, c, Steps(c), anchor)
  BY <1>1, <1>2 DEF DueDay, DueIn, Exhausted, Moment, Position, DateOf, LastOf, LastIn, Before, Prec
<1>4. DueDay(c, anchor)' = DueIn(facts', c, Steps(c)', anchor)
  BY <1>1, <1>2 DEF DueDay, DueIn, Exhausted, Moment, Position, DateOf, LastOf, LastIn, Before, Prec
<1> QED BY <1>1, <1>3, <1>4 DEF Anchor, NextAnchor

(* The fiche of c holds the day its journal gives.                         *)
DueAt(c) == fiche[c].next = DueDay(c, Anchor(c))

LEMMA DueAtIs ==
    ASSUME NEW c \in Conversations
    PROVE  /\ DueAt(c) <=> fiche[c].next = DueIn(facts, c, Steps(c), Anchor(c))
           /\ DueAt(c)' <=> fiche'[c].next = DueIn(facts', c, Steps(c)', NextAnchor(c))
<1>1. DueDay(c, Anchor(c)) = DueIn(facts, c, Steps(c), Anchor(c))
  BY DueDayIs
<1>2. DueDay(c, Anchor(c))' = DueIn(facts', c, Steps(c)', NextAnchor(c))
  <2>1. c \notin Invoices
    BY FollowUpAssumption
  <2>2. /\ AdvancesOf(c)' = Advances(facts', c) /\ Overrides(c)' = Wishes(facts', c)
    BY NextReadingIs
  <2>3. Anchor(c)' = NextAnchor(c)
    BY DueDayIs
  <2> QED
    BY <2>1, <2>2, <2>3 DEF DueDay, DueIn, Exhausted, Moment, Position, DateOf, LastOf, LastIn, Before, Prec
<1> QED BY <1>1, <1>2 DEF DueAt


(* Once projected, projecting again changes nothing.                       *)
LEMMA DueProjected ==
    ASSUME NEW c \in Conversations, day \in Nat, day' = day,
           fiche'[c].next = DueIn(facts', c, Steps(c)', Anchor(c))
    PROVE  DueAt(c)'
<1>1. Anchor(c) # None
  <2>1. Anchor(c) = IF fiche[c].next = None THEN day ELSE fiche[c].next
    BY DueDayIs
  <2> QED BY <2>1, FollowUpAssumption
<1>2. CASE fiche'[c].next = Anchor(c)
  <2>1. NextAnchor(c) = Anchor(c)
    BY <1>1, <1>2 DEF NextAnchor
  <2> QED BY <2>1, DueAtIs
<1>3. CASE fiche'[c].next # Anchor(c)
  <2>1. DueIn(facts', c, Steps(c)', NextAnchor(c)) = DueIn(facts', c, Steps(c)', Anchor(c))
    BY <1>3 DEF DueIn
  <2> QED BY <2>1, DueAtIs
<1> QED BY <1>2, <1>3

(* What does not touch the journal, the series or the day of a fiche.      *)
LEMMA DueStays ==
    ASSUME facts \in Seq(JournalRows), facts' \in Seq(JournalRows), NEW c \in Conversations,
           DueAt(c), day' = day, fiche'[c].next = fiche[c].next, Steps(c)' = Steps(c),
           OnlyDrafted(facts, facts', c)
    PROVE  DueAt(c)'
<1>1. ReadsAlike(facts, facts', c)
  <2> DEFINE g == facts'
  <2> HIDE DEF g, JournalRows
  <2>1. g \in Seq(JournalRows) /\ OnlyDrafted(facts, g, c)
    BY DEF g
  <2>2. ReadsAlike(facts, g, c)
    BY <2>1, SameReading
  <2> QED BY <2>2 DEF g
<1>2. NextAnchor(c) = Anchor(c)
  BY DueDayIs DEF NextAnchor
<1>3. DueIn(facts', c, Steps(c)', NextAnchor(c)) = DueIn(facts, c, Steps(c), Anchor(c))
  BY <1>1, <1>2 DEF DueIn, ReadsAlike
<1> QED BY <1>3, DueAtIs

(* A cycle that nothing was done in is due on the day the fiche holds.     *)
LEMMA DueUntouched ==
    ASSUME NEW c \in Conversations, Advances(facts', c) = {}, Wishes(facts', c) = {},
           Steps(c)' \in Arrangements, fiche'[c].next # None
    PROVE  DueAt(c)'
<1>1. Cardinality(Advances(facts', c)) = 0
  BY FS_EmptySet
<1>2. Len(Steps(c)') \in Nat \ {0}
  BY FollowUpAssumption
<1>3. NextAnchor(c) = fiche'[c].next
  BY DEF NextAnchor
<1>4. ~(Cardinality(Advances(facts', c)) >= Len(Steps(c)'))
  BY <1>1, <1>2
<1> QED BY <1>3, <1>4, DueAtIs DEF DueIn

-----------------------------------------------------------------------------
(* The invariant.                                                          *)

Hopes == Nat \cup {None} \cup {AddWeekdays(d, n) : d \in Nat, n \in Nat}
Fiches == [stage : {"none", "open", "won", "lost", "gone", "settled"}, archived : BOOLEAN, next : Hopes]
Cycles == 0..Len(facts)

TypeInv ==
    /\ day \in Nat /\ hour \in 0..Span /\ living \in Arrangements
    /\ SoundJournal(facts)
    /\ fiche \in [Subjects -> Fiches]
    /\ copies \subseteq [subject : Conversations, cycle : Cycles, steps : Arrangements]
    /\ promised \subseteq
         [subject : Conversations, cycle : Cycles, steps : Arrangements, kept : BOOLEAN]

(* A cycle that has a copy has one, of the series it is to finish; one     *)
(* that has none is on the living series.                                  *)
SeriesInv ==
    /\ \A x, y \in copies : x.subject = y.subject /\ x.cycle = y.cycle => x = y
    /\ \A x \in promised :
         IF x.kept THEN \E y \in CopyFor(x.subject, x.cycle) : y.steps = x.steps
         ELSE x.steps = living /\ \A y \in CopyFor(x.subject, x.cycle) : y.steps = living

(* Nothing is written of a conversation that does not exist yet.           *)
NoneYet ==
    \A c \in Conversations : fiche[c].stage = "none" =>
        Rows(c) = {} /\ \A y \in copies : y.subject # c

(* Only a resumption is stamped ahead.                                     *)
DatedInv == \A i \in DOMAIN facts : facts[i].fact # "cycle_opened" => DateOf(i) <= day

(* The fiche holds the day due, archived or not.                           *)
DueInv ==
    \A x \in promised :
        /\ fiche[x.subject].stage = "open" /\ EnteredCycle(x.subject) = x.cycle
        /\ x.subject \notin edited
        => DueAt(x.subject)

FiledInv ==
    \A x \in filed : x.subject \in Conversations => x.fact \in Active(x.subject)

Inv == TypeInv /\ SeriesInv /\ NoneYet /\ DatedInv /\ DueInv /\ FiledInv

(* The series of a cycle that is to finish one.                            *)
LEMMA StepsOfCycle ==
    ASSUME SeriesInv, NEW x \in promised, x.subject \in Conversations,
           EnteredCycle(x.subject) = x.cycle
    PROVE  Steps(x.subject) = x.steps
<1> DEFINE mine == CopyFor(x.subject, x.cycle)
<1>1. x.subject \notin Invoices
  BY FollowUpAssumption
<1>2. Steps(x.subject) = IF mine = {} THEN living ELSE (CHOOSE y \in mine : TRUE).steps
  BY <1>1 DEF Steps
<1>3. CASE mine = {}
  BY <1>2, <1>3 DEF SeriesInv
<1>4. CASE mine # {}
  <2>1. (CHOOSE y \in mine : TRUE) \in mine
    BY <1>4
  <2>2. \A y \in mine : y = CHOOSE z \in mine : TRUE
    BY <2>1 DEF SeriesInv, CopyFor
  <2> QED BY <1>2, <1>4, <2>1, <2>2 DEF SeriesInv
<1> QED BY <1>3, <1>4

LEMMA NextStepsOfCycle ==
    ASSUME SeriesInv', NEW x \in promised', x.subject \in Conversations,
           EnteredCycle(x.subject)' = x.cycle
    PROVE  Steps(x.subject)' = x.steps
<1> DEFINE mine == {y \in copies' : y.subject = x.subject /\ y.cycle = x.cycle}
<1>1. x.subject \notin Invoices
  BY FollowUpAssumption
<1>2. Steps(x.subject)' = IF mine = {} THEN living' ELSE (CHOOSE y \in mine : TRUE).steps
  BY <1>1 DEF Steps, CopyFor
<1>3. CASE mine = {}
  BY <1>2, <1>3 DEF SeriesInv, CopyFor
<1>4. CASE mine # {}
  <2>1. (CHOOSE y \in mine : TRUE) \in mine
    BY <1>4
  <2>2. \A y \in mine : y = CHOOSE z \in mine : TRUE
    BY <2>1 DEF SeriesInv
  <2> QED BY <1>2, <1>4, <2>1, <2>2 DEF SeriesInv, CopyFor
<1> QED BY <1>3, <1>4

(* The cycle entered is the one of origin, or that of a row.               *)
LEMMA CycleIs ==
    ASSUME facts \in Seq(JournalRows), NEW s
    PROVE  EnteredCycle(s) \in Cycles /\ Openings(facts, s) \subseteq DOMAIN facts
<1>1. Openings(facts, s) \subseteq DOMAIN facts
  BY DEF Openings, TrueRows, RowsOf
<1>2. DOMAIN facts = 1..Len(facts) /\ Len(facts) \in Nat
  BY JournalShape
<1>3. EnteredCycle(s) = Entered(facts, s)
  BY ReadingIs
<1>4. CASE Openings(facts, s) = {}
  BY <1>2, <1>3, <1>4 DEF Entered, Cycles
<1>5. CASE Openings(facts, s) # {}
  <2>1. LastIn(facts, Openings(facts, s)) \in Openings(facts, s)
    BY <1>1, <1>5, LastIsIn
  <2> QED BY <1>1, <1>2, <1>3, <1>5, <2>1 DEF Entered, Cycles
<1> QED BY <1>1, <1>4, <1>5

(* The steps of a conversation are a series.                               *)
LEMMA StepsAreSeries ==
    ASSUME TypeInv, NEW c \in Conversations
    PROVE  Steps(c) \in Arrangements
<1> DEFINE mine == CopyFor(c, EnteredCycle(c))
<1>1. Steps(c) = IF mine = {} THEN living ELSE (CHOOSE y \in mine : TRUE).steps
  BY FollowUpAssumption DEF Steps
<1>2. mine # {} => (CHOOSE y \in mine : TRUE) \in copies
  BY DEF CopyFor
<1>3. \A y \in copies : y.steps \in Arrangements
  BY DEF TypeInv
<1> QED BY <1>1, <1>2, <1>3 DEF TypeInv

LEMMA NextStepsAreSeries ==
    ASSUME living' \in Arrangements, \A y \in copies' : y.steps \in Arrangements,
           NEW c \in Conversations
    PROVE  Steps(c)' \in Arrangements
<1> DEFINE mine == {y \in copies' : y.subject = c /\ y.cycle = EnteredCycle(c)'}
<1>1. Steps(c)' = IF mine = {} THEN living' ELSE (CHOOSE y \in mine : TRUE).steps
  BY FollowUpAssumption DEF Steps, CopyFor
<1>2. mine # {} => (CHOOSE y \in mine : TRUE) \in copies'
  OBVIOUS
<1> QED BY <1>1, <1>2

LEMMA StepsStay ==
    ASSUME NEW s, EnteredCycle(s)' = EnteredCycle(s), copies' = copies, living' = living
    PROVE  Steps(s)' = Steps(s)
BY DEF Steps, CopyFor

-----------------------------------------------------------------------------
(* Gestures: a row more, and the fiche projected.                          *)

(* The day a journal gives is a day one may write on a fiche.              *)
LEMMA DueIsHoped ==
    ASSUME NEW f \in Seq(JournalRows), NEW c, NEW steps \in Arrangements \cup {InvoiceSeries},
           NEW anchor \in Hopes
    PROVE  DueIn(f, c, steps, anchor) \in Hopes
<1>1. DOMAIN f = 1..Len(f) /\ Len(f) \in Nat /\ \A i \in DOMAIN f : f[i] \in JournalRows
  BY JournalShape
<1>2. Wishes(f, c) \subseteq DOMAIN f /\ Advances(f, c) \subseteq DOMAIN f
  BY DEF Wishes, Advances, Since, TrueRows, RowsOf
<1>3. CASE Wishes(f, c) # {}
  <2>1. LastIn(f, Wishes(f, c)) \in DOMAIN f
    <3> HIDE DEF JournalRows
    <3> QED BY <1>2, <1>3, LastIsIn
  <2>2. f[LastIn(f, Wishes(f, c))].until \in Days \cup {None}
    BY <1>1, <2>1 DEF JournalRows
  <2>3. DueIn(f, c, steps, anchor) = f[LastIn(f, Wishes(f, c))].until
    BY <1>3 DEF DueIn
  <2>4. Days \cup {None} \subseteq Hopes
    <3>1. Days \subseteq Nat
      BY FollowUpAssumption
    <3> DEFINE W == {AddWeekdays(a, n) : a \in Nat, n \in Nat}
    <3>2. Hopes = Nat \cup {None} \cup W
      BY DEF Hopes
    <3> HIDE DEF W
    <3> QED BY <3>1, <3>2
  <2> HIDE DEF Hopes
  <2> QED BY <2>2, <2>3, <2>4
<1>4. CASE Wishes(f, c) = {} /\ Advances(f, c) # {} /\ ~(Cardinality(Advances(f, c)) >= Len(steps))
  <2> DEFINE n == Cardinality(Advances(f, c)) + 1
             t == f[LastIn(f, Advances(f, c))].at
  <2>1. LastIn(f, Advances(f, c)) \in DOMAIN f
    <3> HIDE DEF JournalRows
    <3> QED BY <1>2, <1>4, LastIsIn
  <2>2. t \in Nat
    BY <2>1, JournalShape
  <2>3. t \div Span \in Nat
    BY <2>2, DayIsANumber
  <2>4. IsFiniteSet(Advances(f, c))
    <3>1. IsFiniteSet(DOMAIN f)
      BY <1>1, FS_Interval
    <3> QED BY <1>2, <3>1, FS_Subset
  <2>5. Cardinality(Advances(f, c)) \in Nat
    BY <2>4, FS_CardinalityType
  <2>6. n \in DOMAIN steps
    BY <1>4, <2>5, FollowUpAssumption
  <2>7. steps[n].gap \in Nat
    BY <2>6, FollowUpAssumption
  <2>8. DueIn(f, c, steps, anchor) = AddWeekdays(t \div Span, steps[n].gap)
    BY <1>4 DEF DueIn
  <2> HIDE DEF t, n
  <2> QED BY <2>3, <2>7, <2>8 DEF Hopes
<1>5. CASE Wishes(f, c) = {} /\ (Advances(f, c) = {} \/ Cardinality(Advances(f, c)) >= Len(steps))
  <2>1. DueIn(f, c, steps, anchor) \in {None, anchor}
    BY <1>5 DEF DueIn
  <2> QED BY <2>1 DEF Hopes
<1> QED BY <1>3, <1>4, <1>5

LEMMA GestureKeeps ==
    ASSUME Inv, NEW s \in Subjects, NEW row \in JournalRows, row.subject = s,
           row.fact # "cycle_opened", row.at \div Span <= day,
           row.fact = "retracted" <=> row.retracts # None,
           row.fact = "retracted" => row.retracts \in Active(s),
           facts' = Append(facts, row), day' = day, hour' \in 0..Span,
           living' = living, copies' = copies, promised' = promised,
           Awake(s),
           \/ row.fact = "draft_prepared" /\ fiche' = fiche /\ edited' = edited
           \/ Project(s),
           row.fact # "retracted" =>
             \A x \in filed' \ filed : x.fact = Len(facts) + 1 /\ x.subject = s,
           row.fact = "retracted" => filed' \subseteq filed /\ \A x \in filed' : x.fact # row.retracts
    PROVE  Inv'
<1> DEFINE n == Len(facts) + 1
           g == facts'
<1> HIDE DEF g, n, JournalRows
<1>1. SoundJournal(facts) /\ facts \in Seq(JournalRows)
  BY DEF Inv, TypeInv, SoundJournal
<1>2. row.fact = "retracted" => row.retracts \in RowsOf(facts, row.subject)
  BY ReadingIs DEF TrueRows
<1>3. g = Append(facts, row)
  BY DEF g
<1>4. SoundJournal(g)
  BY <1>1, <1>2, <1>3, SoundRowMore
<1>5. /\ g \in Seq(JournalRows) /\ Len(g) = Len(facts) + 1
      /\ DOMAIN g = DOMAIN facts \cup {n} /\ n \notin DOMAIN facts
      /\ g[n] = row /\ \A i \in DOMAIN facts : g[i] = facts[i]
  BY <1>1, <1>3, RowMore DEF n
<1>6. /\ \A t : t # s => TrueRows(g, t) = TrueRows(facts, t)
      /\ row.fact # "retracted" => TrueRows(g, s) = TrueRows(facts, s) \cup {n}
      /\ row.fact = "retracted" => TrueRows(g, s) = TrueRows(facts, s) \ {row.retracts}
  <2>1. TrueAfter(facts, row, g)
    BY <1>1, <1>2, <1>3, TrueRowMore
  <2> QED BY <2>1 DEF n, TrueAfter
<1>7. \A t : \A i \in TrueRows(facts, t) : i \in DOMAIN facts /\ g[i] = facts[i]
  BY <1>5 DEF TrueRows, RowsOf
<1>8. /\ fiche \in [Subjects -> Fiches] /\ living \in Arrangements /\ day \in Nat
      /\ copies \subseteq [subject : Conversations, cycle : Cycles, steps : Arrangements]
      /\ promised \subseteq
           [subject : Conversations, cycle : Cycles, steps : Arrangements, kept : BOOLEAN]
  BY DEF Inv, TypeInv
<1>9. Cycles \subseteq Cycles' /\ Len(facts) \in Nat
  <2>1. Len(g) = Len(facts) + 1 /\ Len(facts) \in Nat
    BY <1>1, <1>5, JournalShape
  <2> QED BY <2>1 DEF Cycles, g
<1>10. Steps(s)' \in Arrangements \cup {InvoiceSeries}
  <2>1. CASE s \in Invoices
    BY <2>1 DEF Steps
  <2>2. CASE s \in Conversations
    BY <1>8, <2>2, NextStepsAreSeries
  <2> QED BY <2>1, <2>2 DEF Subjects
<1>11. /\ fiche' \in [Subjects -> Fiches]
       /\ \A t \in Subjects : /\ fiche'[t].stage = fiche[t].stage /\ fiche'[t].archived = fiche[t].archived
                              /\ t # s => fiche'[t] = fiche[t]
       /\ edited \ {s} \subseteq edited'
       /\ s \in Conversations =>
            \/ row.fact = "draft_prepared" /\ fiche' = fiche /\ edited' = edited
            \/ fiche'[s].next = DueIn(g, s, Steps(s)', Anchor(s))
  <2>1. CASE row.fact = "draft_prepared" /\ fiche' = fiche /\ edited' = edited
    BY <1>8, <2>1
  <2>2. CASE s \in Invoices /\ Project(s)
    BY <1>8, <2>2, FollowUpAssumption DEF Project
  <2>3. CASE s \in Conversations /\ Project(s)
    <3> DEFINE due == DueIn(g, s, Steps(s)', Anchor(s))
    <3>1. s \notin Invoices
      BY <2>3, FollowUpAssumption
    <3>2. PICK anchor \in {Anchor(s)} :
            fiche' = [fiche EXCEPT ![s].next = DueDay(s, anchor)']
      BY <2>3, <3>1 DEF Project
    <3>3. DueDay(s, anchor)' = DueIn(g, s, Steps(s)', anchor)
      BY <2>3, DueDayIs DEF g
    <3>4. fiche' = [fiche EXCEPT ![s].next = due]
      BY <3>2, <3>3
    <3>5. fiche[s] \in Fiches
      BY <1>8
    <3>6. Anchor(s) \in Hopes
      <4>1. Anchor(s) = IF fiche[s].next = None THEN day ELSE fiche[s].next
        BY <2>3, DueDayIs
      <4>2. fiche[s].next \in Hopes
        BY <3>5 DEF Fiches
      <4>3. day \in Hopes
        BY <1>8 DEF Hopes
      <4> QED BY <4>1, <4>2, <4>3
    <3>7. due \in Hopes
      BY <1>5, <1>10, <3>6, DueIsHoped
    <3> HIDE DEF due
    <3>8. fiche'[s] = [fiche[s] EXCEPT !.next = due]
      BY <1>8, <3>4
    <3>9. /\ fiche'[s] \in Fiches /\ fiche'[s].stage = fiche[s].stage
          /\ fiche'[s].archived = fiche[s].archived /\ fiche'[s].next = due
      BY <3>5, <3>7, <3>8 DEF Fiches
    <3>10. fiche' \in [Subjects -> Fiches] /\ \A t \in Subjects : t # s => fiche'[t] = fiche[t]
      BY <1>8, <3>4, <3>9
    <3>11. edited' = edited \ {s}
      BY <2>3, <3>1 DEF Project
    <3> QED BY <3>9, <3>10, <3>11 DEF due
  <2> QED BY <2>1, <2>2, <2>3 DEF Subjects
<1>12. TypeInv'
  <2>1. copies' \subseteq [subject : Conversations, cycle : Cycles', steps : Arrangements]
    BY <1>8, <1>9
  <2>2. promised' \subseteq
          [subject : Conversations, cycle : Cycles', steps : Arrangements, kept : BOOLEAN]
    BY <1>8, <1>9
  <2>3. SoundJournal(facts')
    BY <1>4 DEF g
  <2> QED BY <1>8, <1>11, <2>1, <2>2, <2>3 DEF TypeInv
<1>13. SeriesInv'
  <2>1. SeriesInv
    BY DEF Inv
  <2> QED BY <2>1 DEF SeriesInv, CopyFor
<1>14. NoneYet'
  <2> SUFFICES ASSUME NEW c \in Conversations, fiche'[c].stage = "none"
               PROVE  Rows(c)' = {} /\ \A y \in copies' : y.subject # c
    BY DEF NoneYet
  <2>1. fiche[c].stage = "none" /\ c \in Subjects
    BY <1>11 DEF Subjects
  <2>2. Rows(c) = {} /\ \A y \in copies : y.subject # c
    BY <2>1 DEF Inv, NoneYet
  <2>3. c # s
    BY <2>1 DEF Awake
  <2>4. Rows(c)' = {i \in DOMAIN g : g[i].subject = c}
    BY DEF Rows, g
  <2>5. \A i \in DOMAIN facts : facts[i].subject # c
    BY <2>2 DEF Rows
  <2> QED BY <1>5, <2>2, <2>3, <2>4, <2>5
<1>15. DatedInv'
  <2> SUFFICES ASSUME NEW i \in DOMAIN g, g[i].fact # "cycle_opened"
               PROVE  g[i].at \div Span <= day
    BY DEF DatedInv, DateOf, g
  <2>1. CASE i = n
    BY <1>5, <2>1
  <2>2. CASE i \in DOMAIN facts
    BY <1>5, <2>2 DEF Inv, DatedInv, DateOf
  <2> QED BY <1>5, <2>1, <2>2
<1>16. DueInv'
  <2> SUFFICES ASSUME NEW x \in promised, fiche'[x.subject].stage = "open",
                      EnteredCycle(x.subject)' = x.cycle, x.subject \notin edited'
               PROVE  DueAt(x.subject)'
    BY DEF DueInv
  <2> DEFINE c == x.subject
  <2>1. c \in Conversations /\ c \in Subjects
    BY <1>8 DEF Subjects
  <2> HIDE DEF c
  <2>2. EnteredCycle(c) = Entered(facts, c) /\ EnteredCycle(c)' = Entered(g, c)
    BY ReadingIs, NextReadingIs DEF g
  <2>3. CASE c # s
    <3>1. OnlyDrafted(facts, g, c)
      BY <1>6, <1>7, <2>3 DEF OnlyDrafted
    <3>2. Entered(g, c) = Entered(facts, c)
      BY <1>1, <1>5, <3>1, SameReading DEF ReadsAlike
    <3>3. fiche[c].stage = "open" /\ fiche'[c].next = fiche[c].next /\ c \notin edited
      BY <1>11, <2>1, <2>3 DEF c
    <3>4. DueAt(c)
      BY <2>2, <3>2, <3>3 DEF Inv, DueInv, c
    <3>5. Steps(c)' = Steps(c)
      BY <2>2, <3>2, StepsStay
    <3> QED BY <1>1, <1>5, <1>8, <2>1, <3>1, <3>3, <3>4, <3>5, DueStays DEF c, g
  <2>4. CASE c = s /\ row.fact = "draft_prepared" /\ fiche' = fiche /\ edited' = edited
    <3>1. OnlyDrafted(facts, g, c)
      BY <1>5, <1>6, <1>7, <2>4 DEF OnlyDrafted
    <3>2. Entered(g, c) = Entered(facts, c)
      BY <1>1, <1>5, <3>1, SameReading DEF ReadsAlike
    <3>3. fiche[c].stage = "open" /\ fiche'[c].next = fiche[c].next /\ c \notin edited
      BY <2>4 DEF c
    <3>4. DueAt(c)
      BY <2>2, <3>2, <3>3 DEF Inv, DueInv, c
    <3>5. Steps(c)' = Steps(c)
      BY <2>2, <3>2, StepsStay
    <3> QED BY <1>1, <1>5, <1>8, <2>1, <3>1, <3>3, <3>4, <3>5, DueStays DEF c, g
  <2>5. CASE c = s /\ fiche'[s].next = DueIn(g, s, Steps(s)', Anchor(s))
    BY <1>8, <2>1, <2>5, DueProjected DEF c, g
  <2> QED BY <1>11, <2>1, <2>3, <2>4, <2>5
<1>17. FiledInv'
  <2> SUFFICES ASSUME NEW x \in filed', x.subject \in Conversations
               PROVE  x.fact \in TrueRows(g, x.subject)
    BY NextReadingIs DEF FiledInv, g
  <2>1. CASE x \in filed
    <3>1. x.fact \in TrueRows(facts, x.subject)
      BY <2>1, ReadingIs DEF Inv, FiledInv
    <3> QED BY <1>6, <2>1, <3>1
  <2>2. CASE x \notin filed
    <3>1. row.fact # "retracted"
      BY <2>2
    <3> QED BY <1>6, <2>2, <3>1 DEF n
  <2> QED BY <2>1, <2>2
<1> QED BY <1>12, <1>13, <1>14, <1>15, <1>16, <1>17 DEF Inv

-----------------------------------------------------------------------------
(* The gestures.                                                           *)

LEMMA RowIs ==
    ASSUME NEW s \in Subjects, NEW k \in Kinds, NEW at \in Nat, NEW u \in Days \cup {None},
           NEW r \in Nat \cup {None}, NEW l \in Keys \cup {None}
    PROVE  [subject |-> s, fact |-> k, at |-> at, until |-> u, retracts |-> r, letter |-> l]
             \in JournalRows
BY DEF JournalRows

LEMMA NowIs ==
    ASSUME Inv, hour < Span
    PROVE  Now \in Nat /\ Now \div Span = day
<1>1. day \in Nat /\ hour \in 0..(Span - 1)
  BY FollowUpAssumption DEF Inv, TypeInv
<1> QED BY <1>1, DayOfInstant DEF Now

LEMMA TodaysStampIs ==
    ASSUME Inv, NEW s
    PROVE  StampAfter(s, day) \in Nat /\ StampAfter(s, day) \div Span = day
<1>1. day \in Nat /\ facts \in Seq(JournalRows)
  BY DEF Inv, TypeInv, SoundJournal
<1> HIDE DEF JournalRows
<1> QED BY <1>1, StampIs

LEMMA ActiveAreRows ==
    ASSUME Inv, NEW s, NEW S, S \subseteq Active(s), S # {}
    PROVE  LastOf(S) \in S /\ LastOf(S) \in Nat /\ facts[LastOf(S)] \in JournalRows
<1>1. facts \in Seq(JournalRows)
  BY DEF Inv, TypeInv, SoundJournal
<1>2. S \subseteq DOMAIN facts
  BY DEF Active, Rows
<1>3. LastOf(S) = LastIn(facts, S)
  BY DEF LastOf, LastIn, Before, Prec
<1> HIDE DEF JournalRows
<1>4. LastIn(facts, S) \in S
  BY <1>1, <1>2, LastIsIn
<1> QED BY <1>1, <1>2, <1>3, <1>4, JournalShape

(* The moment a subject waits for is one of its series.                    *)
LEMMA MomentIs ==
    ASSUME Inv, NEW s \in Subjects, ~Exhausted(s)
    PROVE  Moment(s).key \in Keys
<1>1. Steps(s) \in Arrangements \cup {InvoiceSeries}
  <2>1. CASE s \in Invoices
    BY <2>1 DEF Steps
  <2>2. CASE s \in Conversations
    BY <2>2, StepsAreSeries DEF Inv
  <2> QED BY <2>1, <2>2 DEF Subjects
<1>2. Position(s) \in Nat
  <2>1. AdvancesOf(s) \subseteq DOMAIN facts
    BY DEF AdvancesOf, InCycle, Active, Rows
  <2>2. IsFiniteSet(DOMAIN facts)
    BY JournalShape, FS_Interval DEF Inv, TypeInv, SoundJournal
  <2> QED BY <2>1, <2>2, FS_Subset, FS_CardinalityType DEF Position
<1>3. Position(s) + 1 \in DOMAIN Steps(s)
  <2>1. DOMAIN Steps(s) = 1..Len(Steps(s)) /\ Len(Steps(s)) \in Nat
    BY <1>1, FollowUpAssumption
  <2> QED BY <1>2, <2>1 DEF Exhausted
<1> QED BY <1>1, <1>3 DEF Moment, Keys

LEMMA DraftLetterIs ==
    ASSUME Inv, NEW s
    PROVE  DraftLetter(s) \in Keys \cup {None}
<1>1. CASE Drafted(s)
  <2>1. Drafts(s) \subseteq Active(s) /\ Drafts(s) # {}
    BY <1>1 DEF Drafted, Drafts
  <2>2. facts[LastOf(Drafts(s))] \in JournalRows
    BY <2>1, ActiveAreRows
  <2> QED BY <1>1, <2>2 DEF DraftLetter, JournalRows
<1>2. CASE ~Drafted(s)
  BY <1>2 DEF DraftLetter
<1> QED BY <1>1, <1>2

LEMMA WorksIs ==
    ASSUME Inv, Works
    PROVE  hour < Span /\ hour' \in 0..Span /\ day' = day
BY FollowUpAssumption DEF Inv, TypeInv, Works

LEMMA PrepareKeeps ==
    ASSUME Inv, NEW s \in Subjects, Prepare(s)
    PROVE  Inv'
<1> DEFINE row == [Fact(s, "draft_prepared", Now) EXCEPT !.letter = Moment(s).key]
<1>1. row = [subject |-> s, fact |-> "draft_prepared", at |-> Now, until |-> None,
             retracts |-> None, letter |-> Moment(s).key]
  BY DEF Fact
<1>2. /\ hour < Span /\ hour' \in 0..Span /\ day' = day /\ Awake(s) /\ ~Exhausted(s)
      /\ facts' = Append(facts, row) /\ fiche' = fiche /\ edited' = edited
      /\ living' = living /\ copies' = copies /\ promised' = promised /\ filed' = filed
  BY WorksIs DEF Prepare, Insert, history
<1>3. Now \in Nat /\ Now \div Span = day
  BY <1>2, NowIs
<1>4. Moment(s).key \in Keys
  BY <1>2, MomentIs
<1>5. row \in JournalRows
  BY <1>1, <1>3, <1>4, RowIs DEF Kinds
<1>6. /\ row.subject = s /\ row.fact = "draft_prepared" /\ row.at = Now /\ row.retracts = None
      /\ row.fact # "retracted" /\ row.fact # "cycle_opened"
  BY <1>1
<1> HIDE DEF row, JournalRows
<1>7. day \in Nat
  BY DEF Inv, TypeInv
<1>8. row.at \div Span <= day
  BY <1>3, <1>6, <1>7
<1> QED BY <1>2, <1>5, <1>6, <1>8, GestureKeeps

LEMMA MarkSentKeeps ==
    ASSUME Inv, NEW s \in Subjects, MarkSent(s)
    PROVE  Inv'
<1> DEFINE row == [Fact(s, "marked_sent", StampAfter(s, day)) EXCEPT !.letter = DraftLetter(s)]
<1>1. row = [subject |-> s, fact |-> "marked_sent", at |-> StampAfter(s, day), until |-> None,
             retracts |-> None, letter |-> DraftLetter(s)]
  BY DEF Fact
<1>2. /\ hour' \in 0..Span /\ day' = day /\ Awake(s)
      /\ facts' = Append(facts, row) /\ Project(s)
      /\ living' = living /\ copies' = copies /\ promised' = promised
  BY WorksIs DEF MarkSent, Insert
<1>3. \A x \in filed' \ filed : x.fact = Len(facts) + 1 /\ x.subject = s
  <2>1. filed' = filed \cup (IF s \in Invoices THEN {}
                             ELSE {[fact |-> NewId, subject |-> s, moment |-> Moment(s).key]})
    BY DEF MarkSent
  <2> QED BY <2>1 DEF NewId
<1>4. DraftLetter(s) \in Keys \cup {None}
  BY DraftLetterIs
<1>5. StampAfter(s, day) \in Nat /\ StampAfter(s, day) \div Span = day
  BY TodaysStampIs
<1>6. row \in JournalRows
  BY <1>1, <1>4, <1>5, RowIs DEF Kinds
<1>7. /\ row.subject = s /\ row.at = StampAfter(s, day) /\ row.retracts = None
      /\ row.fact # "retracted" /\ row.fact # "cycle_opened"
  BY <1>1
<1> HIDE DEF row, JournalRows
<1>8. day \in Nat
  BY DEF Inv, TypeInv
<1>9. row.at \div Span <= day
  BY <1>5, <1>7, <1>8
<1> QED BY <1>2, <1>3, <1>6, <1>7, <1>9, GestureKeeps

LEMMA SkipKeeps ==
    ASSUME Inv, NEW s \in Subjects, Skip(s)
    PROVE  Inv'
<1> DEFINE row == Fact(s, "step_skipped", StampAfter(s, day))
<1>1. row = [subject |-> s, fact |-> "step_skipped", at |-> StampAfter(s, day), until |-> None,
             retracts |-> None, letter |-> None]
  BY DEF Fact
<1>2. /\ hour' \in 0..Span /\ day' = day /\ Awake(s)
      /\ facts' = Append(facts, row) /\ Project(s)
      /\ living' = living /\ copies' = copies /\ promised' = promised /\ filed' = filed
  BY WorksIs DEF Skip, Insert
<1>3. StampAfter(s, day) \in Nat /\ StampAfter(s, day) \div Span = day
  BY TodaysStampIs
<1>4. row \in JournalRows
  BY <1>1, <1>3, RowIs DEF Kinds
<1>5. /\ row.subject = s /\ row.at = StampAfter(s, day) /\ row.retracts = None
      /\ row.fact # "retracted" /\ row.fact # "cycle_opened"
  BY <1>1
<1> HIDE DEF row, JournalRows
<1>6. day \in Nat
  BY DEF Inv, TypeInv
<1>7. row.at \div Span <= day
  BY <1>3, <1>5, <1>6
<1> QED BY <1>2, <1>4, <1>5, <1>7, GestureKeeps

LEMMA PutDateKeeps ==
    ASSUME Inv, NEW s \in Subjects, NEW fact \in Overriding, NEW d \in Days, PutDate(s, fact, d)
    PROVE  Inv'
<1> DEFINE row == [Fact(s, fact, Now) EXCEPT !.until = d]
<1>1. row = [subject |-> s, fact |-> fact, at |-> Now, until |-> d,
             retracts |-> None, letter |-> None]
  BY DEF Fact
<1>2. /\ hour < Span /\ hour' \in 0..Span /\ day' = day /\ Awake(s)
      /\ facts' = Append(facts, row) /\ Project(s)
      /\ living' = living /\ copies' = copies /\ promised' = promised /\ filed' = filed
  BY WorksIs DEF PutDate, Insert
<1>3. Now \in Nat /\ Now \div Span = day
  BY <1>2, NowIs
<1>4. row \in JournalRows
  BY <1>1, <1>3, RowIs DEF Kinds, Overriding
<1>5. /\ row.subject = s /\ row.at = Now /\ row.retracts = None
      /\ row.fact # "retracted" /\ row.fact # "cycle_opened"
  BY <1>1 DEF Overriding
<1> HIDE DEF row, JournalRows
<1>6. day \in Nat
  BY DEF Inv, TypeInv
<1>7. row.at \div Span <= day
  BY <1>3, <1>5, <1>6
<1> QED BY <1>2, <1>4, <1>5, <1>7, GestureKeeps

LEMMA RetractLastKeeps ==
    ASSUME Inv, NEW s \in Subjects, RetractLast(s)
    PROVE  Inv'
<1> DEFINE z == LastOf(Active(s))
           row == [Fact(s, "retracted", Now) EXCEPT !.retracts = z]
<1>1. row = [subject |-> s, fact |-> "retracted", at |-> Now, until |-> None,
             retracts |-> z, letter |-> None]
  BY DEF Fact
<1>2. /\ hour < Span /\ hour' \in 0..Span /\ day' = day /\ Awake(s) /\ Active(s) # {}
      /\ facts' = Append(facts, row) /\ Project(s)
      /\ living' = living /\ copies' = copies /\ promised' = promised
      /\ filed' = {x \in filed : x.fact # z}
  BY WorksIs DEF RetractLast, Insert
<1>3. Now \in Nat /\ Now \div Span = day
  BY <1>2, NowIs
<1>4. z \in Active(s) /\ z \in Nat
  BY <1>2, ActiveAreRows
<1> HIDE DEF z
<1>5. row \in JournalRows
  BY <1>1, <1>3, <1>4, RowIs DEF Kinds
<1>6. /\ row.subject = s /\ row.at = Now /\ row.retracts = z
      /\ row.fact = "retracted" /\ row.fact # "cycle_opened"
  BY <1>1
<1> HIDE DEF row, JournalRows
<1>7. day \in Nat /\ row.retracts # None
  BY <1>4, <1>6, FollowUpAssumption DEF Inv, TypeInv
<1>8. row.at \div Span <= day
  BY <1>3, <1>6, <1>7
<1>9. filed' \subseteq filed /\ \A x \in filed' : x.fact # row.retracts
  BY <1>2, <1>6
<1>10. row.retracts \in Active(s)
  BY <1>4, <1>6
<1> QED BY <1>2, <1>5, <1>6, <1>7, <1>8, <1>9, <1>10, GestureKeeps

-----------------------------------------------------------------------------
(* What leaves the journal, the series and the days of the fiches that     *)
(* nobody dates by hand alone.                                             *)
LEMMA FicheKeeps ==
    ASSUME Inv, facts' = facts, day' = day, hour' = hour, living' = living, copies' = copies,
           promised' = promised, filed' \subseteq filed, edited \subseteq edited',
           fiche' \in [Subjects -> Fiches],
           \A c \in Conversations : fiche'[c].stage = "none" => fiche[c].stage = "none",
           \A c \in Conversations : fiche'[c].stage = "open" /\ c \notin edited' =>
             fiche[c].stage = "open" /\ fiche'[c].next = fiche[c].next
    PROVE  Inv'
<1> HIDE DEF JournalRows, Fiches
<1>1. TypeInv /\ SeriesInv /\ NoneYet /\ DatedInv /\ DueInv /\ FiledInv
  BY DEF Inv
<1>2. TypeInv'
  BY <1>1 DEF TypeInv, Cycles
<1>3. SeriesInv'
  BY <1>1 DEF SeriesInv, CopyFor
<1>4. NoneYet'
  BY <1>1 DEF NoneYet, Rows
<1>5. DatedInv'
  BY <1>1 DEF DatedInv, DateOf
<1>6. DueInv'
  <2> SUFFICES ASSUME NEW x \in promised, fiche'[x.subject].stage = "open",
                      EnteredCycle(x.subject)' = x.cycle, x.subject \notin edited'
               PROVE  DueAt(x.subject)'
    BY DEF DueInv
  <2> DEFINE c == x.subject
  <2>1. c \in Conversations
    BY <1>1 DEF TypeInv
  <2> HIDE DEF c
  <2>2. EnteredCycle(c)' = EnteredCycle(c)
    BY ReadingIs, NextReadingIs
  <2>3. fiche[c].stage = "open" /\ fiche'[c].next = fiche[c].next /\ c \notin edited
    BY <2>1 DEF c
  <2>4. DueAt(c)
    BY <1>1, <2>2, <2>3 DEF DueInv, c
  <2>5. Steps(c)' = Steps(c)
    BY <2>2, StepsStay
  <2>6. OnlyDrafted(facts, facts', c) /\ facts \in Seq(JournalRows) /\ facts' \in Seq(JournalRows)
    BY <1>1 DEF OnlyDrafted, TypeInv, SoundJournal
  <2> QED BY <2>1, <2>3, <2>4, <2>5, <2>6, DueStays DEF c
<1>7. FiledInv'
  BY <1>1 DEF FiledInv, Active, Rows, Retracted
<1> QED BY <1>2, <1>3, <1>4, <1>5, <1>6, <1>7 DEF Inv

LEMMA EditFicheKeeps ==
    ASSUME Inv, NEW c \in Conversations, NEW next \in Days \cup {None}, EditFiche(c, next)
    PROVE  Inv'
<1>1. fiche \in [Subjects -> Fiches] /\ c \in Subjects /\ next \in Hopes
  <2>1. next \in Nat \cup {None}
    BY FollowUpAssumption
  <2> QED BY <2>1 DEF Inv, TypeInv, Subjects, Hopes
<1>2. [fiche[c] EXCEPT !.next = next] \in Fiches
  <2> HIDE DEF Hopes
  <2> QED BY <1>1 DEF Fiches
<1>3. fiche' = [fiche EXCEPT ![c].next = next] /\ edited' = edited \cup {c}
  BY DEF EditFiche
<1>4. /\ facts' = facts /\ day' = day /\ hour' = hour /\ living' = living /\ copies' = copies
      /\ promised' = promised /\ filed' = filed
  BY DEF EditFiche, clock
<1>5. fiche'[c].stage = fiche[c].stage /\ \A t \in Subjects : t # c => fiche'[t] = fiche[t]
  <2> HIDE DEF Hopes
  <2> QED BY <1>1, <1>3 DEF Fiches
<1>6. fiche' \in [Subjects -> Fiches]
  BY <1>1, <1>2, <1>3
<1>7. \A k \in Conversations : fiche'[k].stage = "none" => fiche[k].stage = "none"
  BY <1>5 DEF Subjects
<1>8. \A k \in Conversations : fiche'[k].stage = "open" /\ k \notin edited' =>
        fiche[k].stage = "open" /\ fiche'[k].next = fiche[k].next
  BY <1>3, <1>5 DEF Subjects
<1> QED BY <1>3, <1>4, <1>6, <1>7, <1>8, FicheKeeps

LEMMA CloseKeeps ==
    ASSUME Inv, NEW c \in Conversations, NEW stage \in {"won", "lost"}, CloseOpportunity(c, stage)
    PROVE  Inv'
<1>1. fiche \in [Subjects -> Fiches] /\ c \in Subjects /\ None \in Hopes
  BY DEF Inv, TypeInv, Subjects, Hopes
<1> DEFINE new == [fiche[c] EXCEPT !.stage = stage, !.next = None]
<1>2. new \in Fiches /\ new.stage = stage
  <2> HIDE DEF Hopes
  <2> QED BY <1>1, ZenonT(60) DEF Fiches
<1>3. fiche' = [fiche EXCEPT ![c] = new]
  BY <1>1 DEF CloseOpportunity
<1> HIDE DEF new
<1>4. /\ facts' = facts /\ day' = day /\ hour' = hour /\ living' = living /\ copies' = copies
      /\ promised' = promised /\ filed' = filed /\ edited' = edited
  BY DEF CloseOpportunity, clock, history
<1>5. fiche'[c].stage = stage /\ \A t \in Subjects : t # c => fiche'[t] = fiche[t]
  BY <1>1, <1>2, <1>3
<1>6. fiche' \in [Subjects -> Fiches]
  BY <1>1, <1>2, <1>3
<1>7. \A k \in Conversations : fiche'[k].stage = "none" => fiche[k].stage = "none"
  BY <1>5 DEF Subjects
<1>8. \A k \in Conversations : fiche'[k].stage = "open" /\ k \notin edited' =>
        fiche[k].stage = "open" /\ fiche'[k].next = fiche[k].next
  BY <1>5 DEF Subjects
<1> QED BY <1>4, <1>6, <1>7, <1>8, FicheKeeps

LEMMA ArchiveKeeps ==
    ASSUME Inv, NEW c \in Conversations, NEW archived \in BOOLEAN, ArchiveOpportunity(c, archived)
    PROVE  Inv'
<1>1. fiche \in [Subjects -> Fiches] /\ c \in Subjects
  BY DEF Inv, TypeInv, Subjects
<1> DEFINE new == [fiche[c] EXCEPT !.archived = archived]
<1>2. new \in Fiches /\ new.stage = fiche[c].stage /\ new.next = fiche[c].next
  <2> HIDE DEF Hopes
  <2> QED BY <1>1 DEF Fiches
<1>3. fiche' = [fiche EXCEPT ![c] = new]
  BY <1>1 DEF ArchiveOpportunity
<1> HIDE DEF new
<1>4. /\ facts' = facts /\ day' = day /\ hour' = hour /\ living' = living /\ copies' = copies
      /\ promised' = promised /\ filed' = filed /\ edited' = edited
  BY DEF ArchiveOpportunity, clock, history
<1>5. \A t \in Subjects : fiche'[t].stage = fiche[t].stage /\ fiche'[t].next = fiche[t].next
  BY <1>1, <1>2, <1>3
<1>6. fiche' \in [Subjects -> Fiches]
  BY <1>1, <1>2, <1>3
<1> QED BY <1>4, <1>5, <1>6, FicheKeeps DEF Subjects

LEMMA DeleteKeeps ==
    ASSUME Inv, NEW c \in Conversations, DeleteOpportunity(c)
    PROVE  Inv'
<1>1. fiche \in [Subjects -> Fiches] /\ c \in Subjects /\ None \in Hopes
  BY DEF Inv, TypeInv, Subjects, Hopes
<1> DEFINE new == [stage |-> "gone", archived |-> FALSE, next |-> None]
<1>2. new \in Fiches /\ new.stage = "gone"
  <2> HIDE DEF Hopes
  <2> QED BY <1>1 DEF Fiches
<1>3. fiche' = [fiche EXCEPT ![c] = new] /\ filed' \subseteq filed
  BY <1>1 DEF DeleteOpportunity
<1> HIDE DEF new
<1>4. /\ facts' = facts /\ day' = day /\ hour' = hour /\ living' = living /\ copies' = copies
      /\ promised' = promised /\ edited' = edited
  BY DEF DeleteOpportunity, clock, history
<1>5. fiche'[c].stage = "gone" /\ \A t \in Subjects : t # c => fiche'[t] = fiche[t]
  BY <1>1, <1>2, <1>3
<1>6. fiche' \in [Subjects -> Fiches]
  BY <1>1, <1>2, <1>3
<1>7. \A k \in Conversations : fiche'[k].stage = "none" => fiche[k].stage = "none"
  BY <1>5 DEF Subjects
<1>8. \A k \in Conversations : fiche'[k].stage = "open" /\ k \notin edited' =>
        fiche[k].stage = "open" /\ fiche'[k].next = fiche[k].next
  BY <1>5 DEF Subjects
<1> QED BY <1>3, <1>4, <1>6, <1>7, <1>8, FicheKeeps

LEMMA DeleteInteractionKeeps ==
    ASSUME Inv, NEW x \in filed, DeleteInteraction(x)
    PROVE  Inv'
<1>1. /\ facts' = facts /\ day' = day /\ hour' = hour /\ living' = living /\ copies' = copies
      /\ promised' = promised /\ edited' = edited /\ fiche' = fiche /\ filed' \subseteq filed
  BY DEF DeleteInteraction, clock, history
<1>2. fiche' \in [Subjects -> Fiches]
  BY <1>1 DEF Inv, TypeInv
<1> QED BY <1>1, <1>2, FicheKeeps

LEMMA SettleKeeps ==
    ASSUME Inv, NEW i \in Invoices, Settle(i)
    PROVE  Inv'
<1>1. fiche \in [Subjects -> Fiches] /\ i \in Subjects
  BY DEF Inv, TypeInv, Subjects
<1> DEFINE new == [fiche[i] EXCEPT !.stage = IF @ = "open" THEN "settled" ELSE "open"]
<1>2. new \in Fiches
  <2> HIDE DEF Hopes
  <2> QED BY <1>1 DEF Fiches
<1>3. fiche' = [fiche EXCEPT ![i] = new]
  BY <1>1 DEF Settle
<1> HIDE DEF new
<1>4. /\ facts' = facts /\ day' = day /\ hour' = hour /\ living' = living /\ copies' = copies
      /\ promised' = promised /\ filed' = filed /\ edited' = edited
  BY DEF Settle, clock, history
<1>5. \A t \in Subjects : t # i => fiche'[t] = fiche[t]
  BY <1>1, <1>3
<1>6. fiche' \in [Subjects -> Fiches]
  BY <1>1, <1>2, <1>3
<1>7. \A c \in Conversations : c # i /\ c \in Subjects
  BY FollowUpAssumption DEF Subjects
<1> QED BY <1>4, <1>5, <1>6, <1>7, FicheKeeps

LEMMA NothingKeeps ==
    ASSUME Inv, UNCHANGED vars
    PROVE  Inv'
<1>1. /\ facts' = facts /\ day' = day /\ hour' = hour /\ living' = living /\ copies' = copies
      /\ promised' = promised /\ edited' = edited /\ fiche' = fiche /\ filed' \subseteq filed
  BY DEF vars
<1>2. fiche' \in [Subjects -> Fiches]
  BY <1>1 DEF Inv, TypeInv
<1> QED BY <1>1, <1>2, FicheKeeps

-----------------------------------------------------------------------------
(* The other commands.                                                     *)

(* A subject without rows has none that count.                             *)
LEMMA NothingOf ==
    ASSUME NEW f, NEW s, TrueRows(f, s) = {}
    PROVE  Advances(f, s) = {} /\ Wishes(f, s) = {} /\ Openings(f, s) = {}
BY DEF Advances, Wishes, Openings, Since

LEMMA CreateKeeps ==
    ASSUME Inv, NEW c \in Conversations, NEW d \in Days, Create(c, d)
    PROVE  Inv'
<1> HIDE DEF JournalRows, Fiches
<1>1. TypeInv /\ SeriesInv /\ NoneYet /\ DatedInv /\ DueInv /\ FiledInv
  BY DEF Inv
<1>2. fiche \in [Subjects -> Fiches] /\ c \in Subjects /\ d \in Hopes /\ d # None
  <2>1. d \in Nat /\ d # None
    BY FollowUpAssumption
  <2> QED BY <2>1 DEF Inv, TypeInv, Subjects, Hopes
<1> DEFINE new == [stage |-> "open", archived |-> FALSE, next |-> d]
<1>3. new \in Fiches /\ new.stage = "open" /\ new.next = d
  <2> HIDE DEF Hopes
  <2> QED BY <1>2 DEF Fiches
<1>4. fiche' = [fiche EXCEPT ![c] = new] /\ fiche[c].stage = "none"
  BY DEF Create
<1> HIDE DEF new
<1> DEFINE entry == Entering(c, 0)
<1>5. /\ facts' = facts /\ day' = day /\ hour' = hour /\ living' = living /\ copies' = copies
      /\ promised' = promised \cup {entry} /\ filed' = filed /\ edited' = edited
  BY DEF Create, clock
<1>6. entry.subject = c /\ entry.cycle = 0 /\ entry.steps = living /\ entry.kept = FALSE
  BY DEF Entering
<1>7. entry \in [subject : Conversations, cycle : Cycles, steps : Arrangements, kept : BOOLEAN]
  <2>1. 0 \in Cycles
    <3>1. Len(facts) \in Nat
      BY <1>1, JournalShape DEF TypeInv, SoundJournal
    <3> QED BY <3>1 DEF Cycles
  <2> QED BY <1>1, <2>1 DEF Entering, TypeInv
<1> HIDE DEF entry
<1>8. fiche'[c] = new /\ \A t \in Subjects : t # c => fiche'[t] = fiche[t]
  BY <1>2, <1>4
<1>9. Rows(c) = {} /\ \A y \in copies : y.subject # c
  BY <1>1, <1>4 DEF NoneYet
<1>10. TypeInv'
  <2>1. fiche' \in [Subjects -> Fiches]
    BY <1>2, <1>3, <1>4
  <2>2. Cycles' = Cycles
    BY <1>5 DEF Cycles
  <2>3. promised' \subseteq
          [subject : Conversations, cycle : Cycles, steps : Arrangements, kept : BOOLEAN]
    BY <1>1, <1>5, <1>7 DEF TypeInv
  <2> QED BY <1>1, <1>5, <2>1, <2>2, <2>3 DEF TypeInv
<1>11. SeriesInv'
  <2>1. CopyFor(c, 0) = {}
    BY <1>9 DEF CopyFor
  <2>2. \A s, k : CopyFor(s, k)' = CopyFor(s, k)
    BY <1>5 DEF CopyFor
  <2> QED BY <1>1, <1>5, <1>6, <2>1, <2>2 DEF SeriesInv
<1>12. NoneYet'
  <2> SUFFICES ASSUME NEW k \in Conversations, fiche'[k].stage = "none"
               PROVE  Rows(k)' = {} /\ \A y \in copies' : y.subject # k
    BY DEF NoneYet
  <2>1. k # c /\ k \in Subjects
    BY <1>3, <1>8 DEF Subjects
  <2>2. fiche[k].stage = "none"
    BY <1>8, <2>1
  <2>3. Rows(k)' = Rows(k)
    BY <1>5 DEF Rows
  <2> QED BY <1>1, <1>5, <2>2, <2>3 DEF NoneYet
<1>13. DatedInv'
  BY <1>1, <1>5 DEF DatedInv, DateOf
<1>14. facts \in Seq(JournalRows) /\ facts' \in Seq(JournalRows)
  BY <1>1, <1>5 DEF TypeInv, SoundJournal
<1>15. DueInv'
  <2> SUFFICES ASSUME NEW x \in promised', fiche'[x.subject].stage = "open",
                      EnteredCycle(x.subject)' = x.cycle, x.subject \notin edited'
               PROVE  DueAt(x.subject)'
    BY DEF DueInv
  <2>1. CASE x.subject = c
    <3>1. TrueRows(facts', c) = {}
      BY <1>5, <1>9, ReadingIs DEF TrueRows
    <3>2. Advances(facts', c) = {} /\ Wishes(facts', c) = {}
      BY <3>1, NothingOf
    <3>3. Steps(c)' \in Arrangements
      <4>1. living' \in Arrangements /\ \A y \in copies' : y.steps \in Arrangements
        BY <1>1, <1>5 DEF TypeInv
      <4> QED BY <4>1, NextStepsAreSeries
    <3>4. fiche'[c].next # None
      BY <1>2, <1>3, <1>8
    <3> QED BY <2>1, <3>2, <3>3, <3>4, DueUntouched
  <2>2. CASE x.subject # c
    <3> DEFINE k == x.subject
    <3>1. x \in promised
      BY <1>5, <1>6, <2>2
    <3>2. k \in Conversations /\ k \in Subjects
      BY <1>1, <3>1 DEF TypeInv, Subjects
    <3> HIDE DEF k
    <3>3. EnteredCycle(k)' = EnteredCycle(k)
      BY <1>5, ReadingIs, NextReadingIs
    <3>4. fiche'[k] = fiche[k]
      BY <1>8, <2>2, <3>2 DEF k
    <3>5. DueAt(k)
      BY <1>1, <1>5, <3>1, <3>3, <3>4 DEF DueInv, k
    <3>6. Steps(k)' = Steps(k)
      BY <1>5, <3>3, StepsStay
    <3>7. OnlyDrafted(facts, facts', k)
      BY <1>5 DEF OnlyDrafted
    <3> QED BY <1>5, <1>14, <3>2, <3>4, <3>5, <3>6, <3>7, DueStays DEF k
  <2> QED BY <2>1, <2>2
<1>16. FiledInv'
  BY <1>1, <1>5 DEF FiledInv, Active, Rows, Retracted
<1> QED BY <1>10, <1>11, <1>12, <1>13, <1>15, <1>16 DEF Inv

LEMMA ArrangeKeeps ==
    ASSUME Inv, NEW series \in Arrangements, Arrange(series)
    PROVE  Inv'
<1> HIDE DEF JournalRows, Fiches
<1> DEFINE pinned == {c \in Conversations : Awake(c) /\ CopyFor(c, EnteredCycle(c)) = {}}
           more == {Copy(c, EnteredCycle(c), living) : c \in pinned}
           kept == {y \in promised : y.kept \/ UnderWay(y)}
<1>1. TypeInv /\ SeriesInv /\ NoneYet /\ DatedInv /\ DueInv /\ FiledInv
  BY DEF Inv
<1>2. /\ copies' = copies \cup more /\ living' = series
      /\ promised' = {[x EXCEPT !.kept = TRUE] : x \in kept}
      /\ facts' = facts /\ day' = day /\ hour' = hour
      /\ fiche' = fiche /\ filed' = filed /\ edited' = edited
  BY DEF Arrange, clock
<1>3. facts \in Seq(JournalRows) /\ facts' \in Seq(JournalRows)
  BY <1>1, <1>2 DEF TypeInv, SoundJournal
<1>4. ASSUME NEW y \in more
      PROVE  /\ y \in [subject : Conversations, cycle : Cycles, steps : Arrangements]
             /\ y.subject \in pinned /\ y.cycle = EnteredCycle(y.subject) /\ y.steps = living
             /\ y = Copy(y.subject, EnteredCycle(y.subject), living)
  <2>1. PICK c \in pinned : y = Copy(c, EnteredCycle(c), living)
    OBVIOUS
  <2>2. EnteredCycle(c) \in Cycles
    BY <1>3, CycleIs
  <2>3. y.subject = c /\ y.cycle = EnteredCycle(c) /\ y.steps = living
    BY <2>1 DEF Copy
  <2>4. y \in [subject : Conversations, cycle : Cycles, steps : Arrangements]
    BY <1>1, <2>1, <2>2 DEF Copy, TypeInv
  <2> QED BY <2>1, <2>3, <2>4
<1>5. ASSUME NEW x \in promised'
      PROVE  \E w \in kept : /\ x.subject = w.subject /\ x.cycle = w.cycle /\ x.steps = w.steps
                             /\ x.kept = TRUE
                             /\ x \in [subject : Conversations, cycle : Cycles,
                                       steps : Arrangements, kept : BOOLEAN]
  <2>1. PICK w \in kept : x = [w EXCEPT !.kept = TRUE]
    BY <1>2
  <2>2. w \in [subject : Conversations, cycle : Cycles, steps : Arrangements, kept : BOOLEAN]
    BY <1>1 DEF TypeInv
  <2> HIDE DEF Cycles
  <2>3. /\ x.subject = w.subject /\ x.cycle = w.cycle /\ x.steps = w.steps /\ x.kept = TRUE
        /\ x \in [subject : Conversations, cycle : Cycles, steps : Arrangements, kept : BOOLEAN]
    BY <2>1, <2>2
  <2> QED BY <2>3
<1>6. \A s : EnteredCycle(s)' = EnteredCycle(s)
  BY <1>2, ReadingIs, NextReadingIs
<1> HIDE DEF more, pinned
<1>7. TypeInv'
  <2>1. Cycles' = Cycles
    BY <1>2 DEF Cycles
  <2>2. copies' \subseteq [subject : Conversations, cycle : Cycles, steps : Arrangements]
    BY <1>1, <1>2, <1>4 DEF TypeInv
  <2>3. promised' \subseteq
          [subject : Conversations, cycle : Cycles, steps : Arrangements, kept : BOOLEAN]
    BY <1>5
  <2> QED BY <1>1, <1>2, <2>1, <2>2, <2>3 DEF TypeInv
<1>8. \A y \in more : \A z \in copies : ~(z.subject = y.subject /\ z.cycle = y.cycle)
  BY <1>4 DEF pinned, CopyFor
<1>9. SeriesInv'
  <2>1. ASSUME NEW x \in copies', NEW y \in copies', x.subject = y.subject, x.cycle = y.cycle
        PROVE  x = y
    <3>1. CASE x \in copies /\ y \in copies
      BY <1>1, <2>1, <3>1 DEF SeriesInv
    <3>2. CASE x \in more /\ y \in more
      BY <1>4, <2>1, <3>2
    <3> QED BY <1>2, <1>8, <2>1, <3>1, <3>2
  <2>2. ASSUME NEW x \in promised'
        PROVE  x.kept = TRUE /\ \E y \in CopyFor(x.subject, x.cycle)' : y.steps = x.steps
    <3>1. PICK w \in kept : /\ x.subject = w.subject /\ x.cycle = w.cycle /\ x.steps = w.steps
                            /\ x.kept = TRUE
      BY <1>5
    <3>2. w.subject \in Conversations
      BY <1>1 DEF TypeInv
    <3>3. CopyFor(w.subject, w.cycle) \subseteq CopyFor(w.subject, w.cycle)'
      BY <1>2 DEF CopyFor
    <3>4. CASE w.kept
      <4>1. \E y \in CopyFor(w.subject, w.cycle) : y.steps = w.steps
        BY <1>1, <3>4 DEF SeriesInv
      <4> QED BY <3>1, <3>3, <4>1
    <3>5. CASE ~w.kept
      <4>1. w.steps = living /\ \A y \in CopyFor(w.subject, w.cycle) : y.steps = living
        BY <1>1, <3>5 DEF SeriesInv
      <4>2. Awake(w.subject) /\ EnteredCycle(w.subject) = w.cycle
        BY <3>5 DEF UnderWay
      <4>3. CASE CopyFor(w.subject, w.cycle) # {}
        BY <3>1, <3>3, <4>1, <4>3
      <4>4. CASE CopyFor(w.subject, w.cycle) = {}
        <5> DEFINE z == Copy(w.subject, w.cycle, living)
        <5>1. z \in more
          BY <3>2, <4>2, <4>4 DEF more, pinned
        <5>2. z.subject = w.subject /\ z.cycle = w.cycle /\ z.steps = living
          BY DEF Copy
        <5> HIDE DEF z
        <5>3. z \in CopyFor(w.subject, w.cycle)'
          BY <1>2, <5>1, <5>2 DEF CopyFor
        <5> QED BY <3>1, <4>1, <5>2, <5>3
      <4> QED BY <4>3, <4>4
    <3> QED BY <3>4, <3>5
  <2> QED BY <2>1, <2>2 DEF SeriesInv
<1>10. NoneYet'
  <2> SUFFICES ASSUME NEW k \in Conversations, fiche[k].stage = "none"
               PROVE  Rows(k)' = {} /\ \A y \in copies' : y.subject # k
    BY <1>2 DEF NoneYet
  <2>1. Rows(k)' = Rows(k)
    BY <1>2 DEF Rows
  <2>2. k \notin pinned
    BY DEF pinned, Awake
  <2> QED BY <1>1, <1>2, <1>4, <2>1, <2>2 DEF NoneYet
<1>11. DatedInv'
  BY <1>1, <1>2 DEF DatedInv, DateOf
<1>12. DueInv'
  <2> SUFFICES ASSUME NEW x \in promised', fiche'[x.subject].stage = "open",
                      EnteredCycle(x.subject)' = x.cycle, x.subject \notin edited'
               PROVE  DueAt(x.subject)'
    BY DEF DueInv
  <2>1. PICK w \in kept : x.subject = w.subject /\ x.cycle = w.cycle /\ x.steps = w.steps
    BY <1>5
  <2> DEFINE k == w.subject
  <2>2. k \in Conversations
    BY <1>1 DEF TypeInv
  <2>3. EnteredCycle(k) = w.cycle
    BY <1>6, <2>1
  <2>4. Steps(k) = w.steps
    BY <1>1, <2>2, <2>3, StepsOfCycle
  <2>5. Steps(k)' = x.steps
    <3>1. x.subject \in Conversations /\ EnteredCycle(x.subject)' = x.cycle
      BY <2>1, <2>2
    <3>2. Steps(x.subject)' = x.steps
      BY <1>9, <3>1, NextStepsOfCycle
    <3> QED BY <2>1, <3>2
  <2>6. DueAt(k)
    BY <1>1, <1>2, <2>1, <2>3 DEF DueInv
  <2>7. OnlyDrafted(facts, facts', k)
    BY <1>2 DEF OnlyDrafted
  <2> HIDE DEF k
  <2>8. DueAt(k)'
    BY <1>2, <1>3, <2>1, <2>2, <2>4, <2>5, <2>6, <2>7, DueStays
  <2> QED BY <2>1, <2>8 DEF k
<1>13. FiledInv'
  BY <1>1, <1>2 DEF FiledInv, Active, Rows, Retracted
<1> QED BY <1>7, <1>9, <1>10, <1>11, <1>12, <1>13 DEF Inv

(* A resumption is dated no sooner than today, and stamped after all that  *)
(* was done to the conversation: nothing counts in the cycle it enters,    *)
(* that of its own row or of another resumption dated later.               *)
LEMMA ResumedAfresh ==
    ASSUME Inv, NEW c, NEW d \in Nat, day <= d, NEW row \in JournalRows,
           row.subject = c, row.fact = "cycle_opened", row.at = StampAfter(c, d),
           NEW g, g = Append(facts, row), g \in Seq(JournalRows),
           TrueRows(g, c) = TrueRows(facts, c) \cup {Len(facts) + 1}
    PROVE  Advances(g, c) = {} /\ Wishes(g, c) = {}
<1> HIDE DEF JournalRows
<1> DEFINE n == Len(facts) + 1
           e == Entered(g, c)
<1>1. facts \in Seq(JournalRows) /\ DatedInv /\ day \in Nat
  BY DEF Inv, TypeInv, SoundJournal
<1>2. /\ DOMAIN g = DOMAIN facts \cup {n} /\ n \notin DOMAIN facts /\ g[n] = row
      /\ \A i \in DOMAIN facts : g[i] = facts[i] /\ i < n
  BY <1>1, RowMore
<1>3. /\ row.at \in Nat /\ row.at \div Span = d
      /\ \A i \in Rows(c) : DateOf(i) = d => facts[i].at <= row.at
  BY <1>1, StampIs
<1>4. \A i \in DOMAIN facts : facts[i].at \in Nat /\ i \in Nat /\ facts[i].at \div Span \in Nat
  BY <1>1, JournalShape, DayIsANumber
<1>5. Len(facts) \in Nat /\ n \in Nat
  BY <1>1, JournalShape
<1>6. TrueRows(g, c) = TrueRows(facts, c) \cup {n} /\ TrueRows(facts, c) \subseteq DOMAIN facts
  BY DEF TrueRows, RowsOf
<1> HIDE DEF n
<1>7. n \in Openings(g, c)
  BY <1>2, <1>6 DEF Openings
<1>8. Openings(g, c) \subseteq DOMAIN g
  BY <1>2, <1>6 DEF Openings
<1>9. e \in Openings(g, c) /\ (e = n \/ Prec(g, n, e))
  <2>1. e = LastIn(g, Openings(g, c))
    BY <1>7 DEF Entered
  <2>2. LastIn(g, Openings(g, c)) \in Openings(g, c) /\
        \A j \in Openings(g, c) \ {LastIn(g, Openings(g, c))} : Prec(g, j, LastIn(g, Openings(g, c)))
    BY <1>7, <1>8, LastIsIn
  <2> QED BY <1>7, <2>1, <2>2
<1> HIDE DEF e
<1>10. ASSUME NEW i \in Since(g, c) PROVE g[i].fact = "cycle_opened"
  <2> SUFFICES ASSUME g[i].fact # "cycle_opened" PROVE FALSE
    OBVIOUS
  <2>1. i \in TrueRows(g, c) /\ Prec(g, e, i)
    BY <1>7 DEF Since, e
  <2>2. i \in TrueRows(facts, c) /\ i \in DOMAIN facts
    BY <1>2, <1>6, <2>1
  <2>3. Prec(g, n, i)
    <3>1. CASE e = n
      BY <2>1, <3>1
    <3>2. CASE Prec(g, n, e)
      BY <1>2, <1>8, <1>9, <2>1, <2>2, <3>2, PrecIsTransitive
    <3> QED BY <1>9, <3>1, <3>2
  <2>4. facts[i].at \div Span <= day
    BY <1>1, <1>2, <2>2 DEF DatedInv, DateOf
  <2>5. i \in Rows(c)
    BY <2>2, ReadingIs DEF TrueRows
  <2>6. facts[i].at \in Nat /\ i \in Nat /\ i < n
    BY <1>2, <1>4, <2>2
  <2>7. facts[i].at <= row.at
    <3>1. CASE facts[i].at \div Span = d
      BY <1>3, <2>5, <3>1 DEF DateOf
    <3>2. CASE facts[i].at \div Span # d
      <4>1. facts[i].at \div Span \in Nat
        BY <1>4, <2>2
      <4>2. facts[i].at \div Span < row.at \div Span
        BY <1>1, <1>3, <2>4, <3>2, <4>1
      <4>3. CASE row.at <= facts[i].at
        <5>1. row.at \div Span <= facts[i].at \div Span
          BY <1>3, <2>6, <4>3, LaterIsNoSoonerDay
        <5> QED BY <1>3, <4>1, <4>2, <5>1
      <4> QED BY <1>3, <2>6, <4>3
    <3> QED BY <3>1, <3>2
  <2>8. g[n].at = row.at /\ g[i].at = facts[i].at
    BY <1>2, <2>2
  <2>9. row.at < facts[i].at \/ (row.at = facts[i].at /\ n < i)
    BY <2>3, <2>8 DEF Prec
  <2> QED BY <1>3, <1>5, <2>6, <2>7, <2>9
<1>11. \A i \in Since(g, c) : g[i].fact \notin Advancing /\ g[i].fact \notin Overriding
  BY <1>10 DEF Advancing, Overriding
<1> QED BY <1>11 DEF Advances, Wishes

LEMMA ReopenKeeps ==
    ASSUME Inv, NEW c \in Conversations, NEW d \in Nat, day <= d, ReopenOpportunity(c, d)
    PROVE  Inv'
<1> DEFINE row == Fact(c, "cycle_opened", StampAfter(c, d))
           n == Len(facts) + 1
           g == facts'
           copy == Copy(c, n, living)
           entry == Entering(c, n)
           new == [fiche[c] EXCEPT !.stage = "open", !.next = d]
<1>1. row = [subject |-> c, fact |-> "cycle_opened", at |-> StampAfter(c, d), until |-> None,
             retracts |-> None, letter |-> None]
  BY DEF Fact
<1>2. TypeInv /\ SeriesInv /\ NoneYet /\ DatedInv /\ DueInv /\ FiledInv
  BY DEF Inv
<1>3. /\ hour' \in 0..Span /\ day' = day /\ fiche[c].stage = "lost"
      /\ g = Append(facts, row) /\ fiche' = [fiche EXCEPT ![c].stage = "open", ![c].next = d]
      /\ copies' = copies \cup (IF copies = {} THEN {} ELSE {copy})
      /\ promised' = promised \cup {entry} /\ edited' = edited \ {c}
      /\ living' = living /\ filed' = filed
  BY WorksIs DEF ReopenOpportunity, Insert, NewId
<1>4. facts \in Seq(JournalRows) /\ SoundJournal(facts) /\ fiche \in [Subjects -> Fiches]
  BY <1>2 DEF TypeInv, SoundJournal
<1>5. c \in Subjects /\ d \in Hopes /\ d # None /\ living \in Arrangements
  BY <1>2, FollowUpAssumption DEF Subjects, Hopes, TypeInv
<1>6. StampAfter(c, d) \in Nat
  <2> HIDE DEF JournalRows
  <2> QED BY <1>4, StampIs
<1>7. row \in JournalRows
  BY <1>1, <1>5, <1>6, RowIs DEF Kinds
<1>8. /\ row.subject = c /\ row.at = StampAfter(c, d) /\ row.retracts = None
      /\ row.fact = "cycle_opened" /\ row.fact # "retracted"
  BY <1>1
<1>9. /\ copy.subject = c /\ copy.cycle = n /\ copy.steps = living
      /\ copy = [subject |-> c, cycle |-> n, steps |-> living]
  BY DEF Copy
<1>10. /\ entry.subject = c /\ entry.cycle = n /\ entry.steps = living /\ entry.kept = FALSE
       /\ entry = [subject |-> c, cycle |-> n, steps |-> living, kept |-> FALSE]
  BY DEF Entering
<1>11. new \in Fiches /\ new.stage = "open" /\ new.next = d
  <2> HIDE DEF Hopes
  <2> QED BY <1>4, <1>5 DEF Fiches
<1>12. fiche' = [fiche EXCEPT ![c] = new]
  BY <1>3, <1>4, <1>5
<1> HIDE DEF row, n, g, copy, entry, new, JournalRows, Fiches
<1>13. SoundJournal(g)
  BY <1>3, <1>4, <1>7, <1>8, SoundRowMore
<1>14. /\ g \in Seq(JournalRows) /\ Len(g) = n /\ DOMAIN g = DOMAIN facts \cup {n}
       /\ n \notin DOMAIN facts /\ g[n] = row /\ \A i \in DOMAIN facts : g[i] = facts[i]
  BY <1>3, <1>4, <1>7, RowMore DEF n
<1>15. Len(facts) \in Nat /\ n \in Nat /\ n \notin Cycles
  BY <1>4, JournalShape DEF n, Cycles
<1>16. Cycles \subseteq Cycles' /\ n \in Cycles'
  BY <1>14, <1>15 DEF Cycles, g, n
<1>17. TrueAfter(facts, row, g)
  BY <1>3, <1>4, <1>7, <1>8, TrueRowMore
<1>18. /\ \A t : t # c => TrueRows(g, t) = TrueRows(facts, t)
       /\ TrueRows(g, c) = TrueRows(facts, c) \cup {n}
  BY <1>8, <1>17 DEF TrueAfter, n
<1>19. \A t : \A i \in TrueRows(facts, t) : i \in DOMAIN facts /\ g[i] = facts[i]
  BY <1>14 DEF TrueRows, RowsOf
<1>20. fiche'[c] = new /\ \A t \in Subjects : t # c => fiche'[t] = fiche[t]
  BY <1>4, <1>5, <1>12
<1>21. /\ copies \subseteq [subject : Conversations, cycle : Cycles, steps : Arrangements]
       /\ promised \subseteq
            [subject : Conversations, cycle : Cycles, steps : Arrangements, kept : BOOLEAN]
  BY <1>2 DEF TypeInv
<1>22. TypeInv'
  <2>1. copies' \subseteq [subject : Conversations, cycle : Cycles', steps : Arrangements]
    BY <1>3, <1>5, <1>9, <1>16, <1>21
  <2>2. promised' \subseteq
          [subject : Conversations, cycle : Cycles', steps : Arrangements, kept : BOOLEAN]
    <3> DEFINE K == Cycles'
    <3>1. n \in K /\ Cycles \subseteq K
      BY <1>16
    <3> HIDE DEF K
    <3>2. entry \in [subject : Conversations, cycle : K, steps : Arrangements, kept : BOOLEAN]
      BY <1>5, <1>10, <3>1
    <3>3. promised \subseteq
            [subject : Conversations, cycle : K, steps : Arrangements, kept : BOOLEAN]
      BY <1>21, <3>1
    <3> QED BY <1>3, <3>2, <3>3 DEF K
  <2>3. fiche' \in [Subjects -> Fiches]
    BY <1>4, <1>5, <1>11, <1>12
  <2>4. SoundJournal(facts') /\ day' \in Nat /\ living' \in Arrangements
    BY <1>2, <1>3, <1>13 DEF g, TypeInv
  <2> QED BY <1>3, <2>1, <2>2, <2>3, <2>4 DEF TypeInv
<1>23. \A y \in copies \cup promised : y.cycle # n
  BY <1>15, <1>21
<1>24. \A y \in copies' : y \in copies \/ y = copy
  BY <1>3
<1>25. SeriesInv'
  <2>1. \A x, y \in copies' : x.subject = y.subject /\ x.cycle = y.cycle => x = y
    BY <1>2, <1>9, <1>23, <1>24 DEF SeriesInv
  <2>2. ASSUME NEW x \in promised, x.kept
        PROVE  \E y \in copies' : y.subject = x.subject /\ y.cycle = x.cycle /\ y.steps = x.steps
    BY <1>2, <1>3, <2>2 DEF SeriesInv, CopyFor
  <2>3. ASSUME NEW x \in promised, ~x.kept
        PROVE  /\ x.steps = living
               /\ \A y \in copies' : y.subject = x.subject /\ y.cycle = x.cycle => y.steps = living
    BY <1>2, <1>9, <1>24, <2>3 DEF SeriesInv, CopyFor
  <2>4. \A y \in copies' : y.subject = entry.subject /\ y.cycle = entry.cycle => y.steps = living
    BY <1>9, <1>10, <1>23, <1>24
  <2>5. \A x \in promised' : x \in promised \/ x = entry
    BY <1>3
  <2> QED BY <1>3, <1>10, <2>1, <2>2, <2>3, <2>4, <2>5, SMTT(60) DEF SeriesInv, CopyFor
<1>26. NoneYet'
  <2> SUFFICES ASSUME NEW k \in Conversations, fiche'[k].stage = "none"
               PROVE  Rows(k)' = {} /\ \A y \in copies' : y.subject # k
    BY DEF NoneYet
  <2>1. k # c /\ k \in Subjects
    BY <1>11, <1>20 DEF Subjects
  <2>2. Rows(k) = {} /\ \A y \in copies : y.subject # k
    BY <1>2, <1>20, <2>1 DEF NoneYet
  <2>3. Rows(k)' = {i \in DOMAIN g : g[i].subject = k}
    BY DEF Rows, g
  <2>4. \A i \in DOMAIN facts : facts[i].subject # k
    BY <2>2 DEF Rows
  <2> QED BY <1>8, <1>9, <1>14, <1>24, <2>1, <2>2, <2>3, <2>4
<1>27. DatedInv'
  <2> SUFFICES ASSUME NEW i \in DOMAIN g, g[i].fact # "cycle_opened"
               PROVE  g[i].at \div Span <= day
    BY <1>3 DEF DatedInv, DateOf, g
  <2>1. i \in DOMAIN facts
    BY <1>8, <1>14
  <2> QED BY <1>2, <1>14, <2>1 DEF DatedInv, DateOf
<1>28. DueInv'
  <2> SUFFICES ASSUME NEW x \in promised', fiche'[x.subject].stage = "open",
                      EnteredCycle(x.subject)' = x.cycle, x.subject \notin edited'
               PROVE  DueAt(x.subject)'
    BY DEF DueInv
  <2>1. CASE x.subject = c
    <3>1. Advances(g, c) = {} /\ Wishes(g, c) = {}
      <4>1. TrueRows(g, c) = TrueRows(facts, c) \cup {Len(facts) + 1}
        BY <1>18 DEF n
      <4> QED BY <1>3, <1>7, <1>8, <1>14, <4>1, ResumedAfresh, ZenonT(60)
    <3>2. Steps(c)' \in Arrangements
      <4>1. living' \in Arrangements /\ \A y \in copies' : y.steps \in Arrangements
        BY <1>3, <1>5, <1>9, <1>21, <1>24
      <4> QED BY <4>1, NextStepsAreSeries
    <3>3. fiche'[c].next # None
      BY <1>5, <1>11, <1>20
    <3> QED BY <2>1, <3>1, <3>2, <3>3, DueUntouched DEF g
  <2>2. CASE x.subject # c
    <3> DEFINE k == x.subject
    <3>1. x \in promised
      BY <1>3, <1>10, <2>2
    <3>2. k \in Conversations /\ k \in Subjects
      BY <1>21, <3>1 DEF Subjects
    <3> HIDE DEF k
    <3>3. OnlyDrafted(facts, g, k)
      BY <1>18, <1>19, <2>2 DEF OnlyDrafted, k
    <3>4. Entered(g, k) = Entered(facts, k)
      BY <1>4, <1>14, <3>3, SameReading DEF ReadsAlike
    <3>5. EnteredCycle(k)' = EnteredCycle(k)
      BY <3>4, ReadingIs, NextReadingIs DEF g
    <3>6. fiche'[k] = fiche[k]
      BY <1>20, <2>2, <3>2 DEF k
    <3>7. DueAt(k)
      BY <1>2, <1>3, <2>2, <3>1, <3>5, <3>6 DEF DueInv, k
    <3>8. CopyFor(k, EnteredCycle(k))' = CopyFor(k, EnteredCycle(k))
      BY <1>3, <1>9, <1>24, <2>2, <3>5 DEF CopyFor, k
    <3>9. Steps(k)' = Steps(k)
      BY <1>3, <3>8 DEF Steps
    <3> QED BY <1>3, <1>4, <1>14, <3>2, <3>3, <3>6, <3>7, <3>9, DueStays DEF g, k
  <2> QED BY <2>1, <2>2
<1>29. FiledInv'
  <2> SUFFICES ASSUME NEW x \in filed, x.subject \in Conversations
               PROVE  x.fact \in TrueRows(g, x.subject)
    BY <1>3, NextReadingIs DEF FiledInv, g
  <2>1. x.fact \in TrueRows(facts, x.subject)
    BY <1>2, ReadingIs DEF FiledInv
  <2> QED BY <1>18, <2>1
<1> QED BY <1>22, <1>25, <1>26, <1>27, <1>28, <1>29 DEF Inv

LEMMA NextDayKeeps ==
    ASSUME Inv, NEW h \in Starts, NextDay(h)
    PROVE  Inv'
<1> HIDE DEF JournalRows, Fiches
<1>1. TypeInv /\ SeriesInv /\ NoneYet /\ DatedInv /\ DueInv /\ FiledInv
  BY DEF Inv
<1>2. /\ day' = day + 1 /\ hour' = h /\ living' = living /\ copies' = copies /\ fiche' = fiche
      /\ facts' = facts /\ filed' = filed /\ promised' = promised /\ edited' = edited
  BY DEF NextDay, history
<1>3. TypeInv'
  <2>1. h \in 0..Span /\ day + 1 \in Nat
    BY <1>1, FollowUpAssumption DEF TypeInv
  <2> QED BY <1>1, <1>2, <2>1 DEF TypeInv, Cycles
<1>4. SeriesInv'
  BY <1>1, <1>2 DEF SeriesInv, CopyFor
<1>5. NoneYet'
  BY <1>1, <1>2 DEF NoneYet, Rows
<1>6. DatedInv'
  <2> SUFFICES ASSUME NEW i \in DOMAIN facts, facts[i].fact # "cycle_opened"
               PROVE  facts[i].at \div Span <= day + 1
    BY <1>2 DEF DatedInv, DateOf
  <2>1. facts[i].at \div Span <= day
    BY <1>1 DEF DatedInv, DateOf
  <2>2. facts[i].at \div Span \in Nat /\ day \in Nat
    BY <1>1, JournalShape, DayIsANumber DEF TypeInv, SoundJournal
  <2> QED BY <2>1, <2>2
<1>7. DueInv'
  <2> SUFFICES ASSUME NEW x \in promised, fiche[x.subject].stage = "open",
                      EnteredCycle(x.subject)' = x.cycle, x.subject \notin edited
               PROVE  DueAt(x.subject)'
    BY <1>2 DEF DueInv
  <2> DEFINE c == x.subject
  <2>1. c \in Conversations
    BY <1>1 DEF TypeInv
  <2>2. EnteredCycle(c)' = EnteredCycle(c)
    BY <1>2, ReadingIs, NextReadingIs
  <2>3. DueAt(c)
    BY <1>1, <2>2 DEF DueInv
  <2> HIDE DEF c
  <2>4. Steps(c)' = Steps(c)
    BY <1>2, <2>2, StepsStay
  <2>5. fiche[c].next = DueIn(facts, c, Steps(c), Anchor(c))
    BY <2>1, <2>3, DueAtIs
  <2>6. DueAt(c)' <=> fiche[c].next = DueIn(facts, c, Steps(c), NextAnchor(c))
    BY <1>2, <2>1, <2>4, DueAtIs
  <2>7. /\ Anchor(c) = IF fiche[c].next = None THEN day ELSE fiche[c].next
        /\ NextAnchor(c) = IF fiche[c].next = None THEN day + 1 ELSE fiche[c].next
    BY <1>2, <2>1, DueDayIs DEF NextAnchor
  <2>8. CASE fiche[c].next # None
    BY <2>5, <2>6, <2>7, <2>8 DEF c
  <2>9. CASE fiche[c].next = None
    <3>1. day # None
      BY <1>1, FollowUpAssumption DEF TypeInv
    <3>2. DueIn(facts, c, Steps(c), NextAnchor(c)) = DueIn(facts, c, Steps(c), Anchor(c))
      BY <2>5, <2>7, <2>9, <3>1 DEF DueIn
    <3> QED BY <2>5, <2>6, <3>2 DEF c
  <2> QED BY <2>8, <2>9
<1>8. FiledInv'
  BY <1>1, <1>2 DEF FiledInv, Active, Rows, Retracted
<1> QED BY <1>3, <1>4, <1>5, <1>6, <1>7, <1>8 DEF Inv

-----------------------------------------------------------------------------
(* The theorems.                                                           *)

LEMMA InitHolds == Init => Inv
<1> SUFFICES ASSUME Init PROVE Inv
  OBVIOUS
<1>1. /\ day = 1 /\ hour \in Starts /\ living \in Arrangements /\ copies = {} /\ facts = <<>>
      /\ filed = {} /\ promised = {}
      /\ fiche = [s \in Subjects |-> [stage |-> IF s \in Invoices THEN "open" ELSE "none",
                                      archived |-> FALSE, next |-> None]]
  BY DEF Init
<1>2. SoundJournal(facts)
  <2>1. facts \in Seq(JournalRows) /\ DOMAIN facts = {}
    <3> HIDE DEF JournalRows
    <3> QED BY <1>1
  <2> QED BY <2>1 DEF SoundJournal
<1>3. fiche \in [Subjects -> Fiches]
  <2>1. None \in Hopes
    BY DEF Hopes
  <2> HIDE DEF Hopes
  <2>2. \A s \in Subjects : [stage |-> IF s \in Invoices THEN "open" ELSE "none",
                             archived |-> FALSE, next |-> None] \in Fiches
    BY <2>1 DEF Fiches
  <2> HIDE DEF Fiches
  <2> QED BY <1>1, <2>2
<1>4. hour \in 0..Span /\ day \in Nat
  BY <1>1, FollowUpAssumption
<1>5. TypeInv
  BY <1>1, <1>2, <1>3, <1>4 DEF TypeInv
<1>6. SeriesInv /\ DueInv /\ FiledInv
  BY <1>1 DEF SeriesInv, DueInv, FiledInv
<1>7. NoneYet /\ DatedInv
  BY <1>1 DEF NoneYet, DatedInv, Rows
<1> QED BY <1>5, <1>6, <1>7 DEF Inv

LEMMA NextKeeps ==
    ASSUME Inv, [Next]_vars
    PROVE  Inv'
<1>1. CASE \E s \in Subjects :
             \/ Prepare(s) \/ MarkSent(s) \/ Skip(s) \/ RetractLast(s)
             \/ \E fact \in Overriding, d \in Days : PutDate(s, fact, d)
  BY <1>1, PrepareKeeps, MarkSentKeeps, SkipKeeps, RetractLastKeeps, PutDateKeeps
<1>2. CASE \E series \in Arrangements : Arrange(series)
  BY <1>2, ArrangeKeeps
<1>3. CASE \E c \in Conversations : \E d \in Days : Create(c, d) \/ AdvanceOpportunity(c, d)
  BY <1>3, CreateKeeps, EditFicheKeeps DEF AdvanceOpportunity
<1>4. CASE \E c \in Conversations : \E next \in Days \cup {None} : UpdateOpportunity(c, next)
  BY <1>4, EditFicheKeeps DEF UpdateOpportunity
<1>5. CASE \E c \in Conversations : \E stage \in {"won", "lost"} : CloseOpportunity(c, stage)
  BY <1>5, CloseKeeps
<1>6. CASE \E c \in Conversations : \E ahead \in Resumptions : ReopenOpportunity(c, day + ahead)
  <2>1. PICK c \in Conversations, ahead \in Resumptions : ReopenOpportunity(c, day + ahead)
    BY <1>6
  <2>2. day \in Nat /\ ahead \in Nat
    BY FollowUpAssumption DEF Inv, TypeInv
  <2>3. day + ahead \in Nat /\ day <= day + ahead
    BY <2>2
  <2> QED BY <2>1, <2>3, ReopenKeeps
<1>7. CASE \E c \in Conversations : \E archived \in BOOLEAN : ArchiveOpportunity(c, archived)
  BY <1>7, ArchiveKeeps
<1>8. CASE \E c \in Conversations : DeleteOpportunity(c)
  BY <1>8, DeleteKeeps
<1>9. CASE \E x \in filed : DeleteInteraction(x)
  BY <1>9, DeleteInteractionKeeps
<1>10. CASE \E i \in Invoices : Settle(i)
  BY <1>10, SettleKeeps
<1>11. CASE \E h \in Starts : NextDay(h)
  BY <1>11, NextDayKeeps
<1>12. CASE UNCHANGED vars
  BY <1>12, NothingKeeps
<1> QED
  BY <1>1, <1>2, <1>3, <1>4, <1>5, <1>6, <1>7, <1>8, <1>9, <1>10, <1>11, <1>12 DEF Next

(* The invariant of follow-up, in every reachable state: the journal is    *)
(* sound, series and copies agree, fiches hold the day due.                *)
THEOREM Invariance == Spec => []Inv
<1>1. Inv /\ [Next]_vars => Inv'
  BY NextKeeps
<1> QED BY <1>1, InitHolds, PTL DEF Spec

(* A conversation under way finishes its series, and a new or resumed one  *)
(* takes the series of the moment, for any living series and any commands, *)
(* whatever was arranged, archived, resumed or undone in between: the      *)
(* copies that prospect_series keeps are those that are needed.            *)
THEOREM FinishTheirSeries == Spec => []FinishesItsSeries
<1>1. Inv => FinishesItsSeries
  <2> SUFFICES ASSUME Inv, NEW x \in promised, UnderWay(x) PROVE Steps(x.subject) = x.steps
    BY DEF FinishesItsSeries
  <2>1. x.subject \in Conversations /\ EnteredCycle(x.subject) = x.cycle
    BY DEF Inv, TypeInv, UnderWay
  <2> QED BY <2>1, StepsOfCycle DEF Inv
<1> QED BY <1>1, Invariance, PTL

(* The day on the fiche of a conversation under way, which the lists and   *)
(* late_actions read, is the one its journal gives, as long as nobody      *)
(* dated the fiche itself: through undoings, resumptions dated ahead,      *)
(* changes of the series and the passing of days.                          *)
THEOREM DayIsDue == Spec => []NextActionIsDue
<1>1. Inv => NextActionIsDue
  <2> SUFFICES ASSUME Inv, NEW x \in promised, UnderWay(x), x.subject \notin edited
               PROVE  fiche[x.subject].next = DueDay(x.subject, Anchor(x.subject))
    BY DEF NextActionIsDue
  <2>1. DueAt(x.subject)
    BY DEF Inv, DueInv, UnderWay, Awake
  <2> QED BY <2>1 DEF DueAt
<1> QED BY <1>1, Invariance, PTL

-----------------------------------------------------------------------------
(* The elements of a finite set of numbers, in their order.                *)

Below(A, i) == {j \in A : j < i}
Rank(A, i) == Cardinality(Below(A, i)) + 1
NthOf(A, n) == CHOOSE i \in A : Cardinality(Below(A, i)) = n - 1

LEMMA BelowIs ==
    ASSUME NEW A, IsFiniteSet(A), NEW i
    PROVE  /\ IsFiniteSet(Below(A, i)) /\ Cardinality(Below(A, i)) \in Nat
           /\ Rank(A, i) \in Nat \ {0}
<1>1. Below(A, i) \subseteq A
  BY DEF Below
<1>2. IsFiniteSet(Below(A, i))
  BY <1>1, FS_Subset
<1> QED BY <1>2, FS_CardinalityType DEF Rank

(* Ranks are in the order of the elements.                                 *)
LEMMA RankGrows ==
    ASSUME NEW A, IsFiniteSet(A), A \subseteq Nat, NEW i \in A, NEW j \in A, i < j
    PROVE  Rank(A, i) < Rank(A, j)
<1>1. Below(A, i) \cup {i} \subseteq Below(A, j) /\ i \notin Below(A, i)
  <2>1. i \in Nat /\ j \in Nat
    OBVIOUS
  <2>2. ASSUME NEW k \in Below(A, i) PROVE k \in Below(A, j)
    <3>1. k \in A /\ k \in Nat /\ k < i
      BY <2>2 DEF Below
    <3> QED BY <2>1, <3>1 DEF Below
  <2>3. i \in Below(A, j) /\ i \notin Below(A, i)
    BY <2>1 DEF Below
  <2> QED BY <2>2, <2>3
<1>2. Cardinality(Below(A, i) \cup {i}) = Cardinality(Below(A, i)) + 1
  BY <1>1, BelowIs, FS_AddElement
<1>3. Cardinality(Below(A, i) \cup {i}) <= Cardinality(Below(A, j))
  BY <1>1, BelowIs, FS_Subset
<1> QED BY <1>2, <1>3, BelowIs DEF Rank

LEMMA RankIs ==
    ASSUME NEW A, IsFiniteSet(A), A \subseteq Nat, NEW i \in A
    PROVE  Rank(A, i) \in 1..Cardinality(A)
<1>1. Below(A, i) \cup {i} \subseteq A /\ i \notin Below(A, i)
  BY DEF Below
<1>2. Cardinality(Below(A, i) \cup {i}) = Cardinality(Below(A, i)) + 1
  BY <1>1, BelowIs, FS_AddElement
<1>3. Cardinality(Below(A, i) \cup {i}) <= Cardinality(A) /\ Cardinality(A) \in Nat
  BY <1>1, FS_Subset, FS_CardinalityType
<1> QED BY <1>2, <1>3, BelowIs DEF Rank

LEMMA RankIsOwn ==
    ASSUME NEW A, IsFiniteSet(A), A \subseteq Nat, NEW i \in A, NEW j \in A
    PROVE  /\ i < j <=> Rank(A, i) < Rank(A, j)
           /\ i = j <=> Rank(A, i) = Rank(A, j)
<1>1. i \in Nat /\ j \in Nat /\ Rank(A, i) \in Nat /\ Rank(A, j) \in Nat
  BY BelowIs
<1>2. i < j => Rank(A, i) < Rank(A, j)
  BY RankGrows
<1>3. j < i => Rank(A, j) < Rank(A, i)
  BY RankGrows
<1> QED BY <1>1, <1>2, <1>3

LEMMA RankIsTaken ==
    ASSUME NEW A, IsFiniteSet(A), A \subseteq Nat, NEW n \in 1..Cardinality(A)
    PROVE  \E i \in A : Rank(A, i) = n
<1> DEFINE T == 1..Cardinality(A)
           r == [i \in A |-> Rank(A, i)]
<1>1. IsFiniteSet(T) /\ Cardinality(T) = Cardinality(A)
  <2>1. Cardinality(A) \in Nat
    BY FS_CardinalityType
  <2> QED BY <2>1, FS_Interval
<1>2. r \in [A -> T]
  BY RankIs
<1>3. \A i, j \in A : r[i] = r[j] => i = j
  BY RankIsOwn
<1> HIDE DEF T, r
<1>4. r \in Injection(A, T)
  BY <1>2, <1>3 DEF Injection, IsInjective
<1>5. r \in Surjection(A, T)
  BY <1>1, <1>4, FS_Injection
<1>6. \E i \in A : r[i] = n
  BY <1>5 DEF Surjection, T
<1> QED BY <1>6 DEF r

(* The element of a rank, and the rank of an element.                      *)
LEMMA NthIs ==
    ASSUME NEW A, IsFiniteSet(A), A \subseteq Nat
    PROVE  /\ \A n \in 1..Cardinality(A) : NthOf(A, n) \in A /\ Rank(A, NthOf(A, n)) = n
           /\ \A i \in A : NthOf(A, Rank(A, i)) = i
<1>1. ASSUME NEW n \in 1..Cardinality(A) PROVE NthOf(A, n) \in A /\ Rank(A, NthOf(A, n)) = n
  <2>1. PICK i \in A : Rank(A, i) = n
    BY RankIsTaken
  <2>2. Cardinality(Below(A, i)) = n - 1
    BY <2>1, BelowIs DEF Rank
  <2>3. NthOf(A, n) \in A /\ Cardinality(Below(A, NthOf(A, n))) = n - 1
    BY <2>2 DEF NthOf
  <2> QED BY <2>3, BelowIs DEF Rank
<1>2. ASSUME NEW i \in A PROVE NthOf(A, Rank(A, i)) = i
  <2>1. Rank(A, i) \in 1..Cardinality(A)
    BY RankIs
  <2>2. NthOf(A, Rank(A, i)) \in A /\ Rank(A, NthOf(A, Rank(A, i))) = Rank(A, i)
    BY <1>1, <2>1
  <2> QED BY <2>2, RankIsOwn
<1> QED BY <1>1, <1>2

-----------------------------------------------------------------------------
(* A journal whose stamps are in the order of its gestures.                *)

InTurnIn(f, s) ==
    \A i, j \in TrueRows(f, s) : i < j =>
        /\ f[i].at <= f[j].at
        /\ f[i].fact \in Overriding \cup {"draft_prepared"} /\ f[j].fact \in Advancing =>
             f[i].at < f[j].at

GestureOf(f, i) == [fact |-> f[i].fact, until |-> f[i].until]
PileOn(f, A) == [n \in 1..Cardinality(A) |-> GestureOf(f, NthOf(A, n))]

LEMMA TrueRowsAre ==
    ASSUME NEW f \in Seq(JournalRows), NEW s
    PROVE  /\ TrueRows(f, s) \subseteq DOMAIN f /\ TrueRows(f, s) \subseteq Nat
           /\ IsFiniteSet(TrueRows(f, s)) /\ Cardinality(TrueRows(f, s)) \in Nat
<1>1. TrueRows(f, s) \subseteq DOMAIN f
  BY DEF TrueRows, RowsOf
<1>2. DOMAIN f = 1..Len(f) /\ Len(f) \in Nat
  BY JournalShape
<1>3. IsFiniteSet(DOMAIN f)
  BY <1>2, FS_Interval
<1> QED BY <1>1, <1>2, <1>3, FS_Subset, FS_CardinalityType

LEMMA PrecIsBefore ==
    ASSUME NEW f \in Seq(JournalRows), NEW s, InTurnIn(f, s),
           NEW i \in TrueRows(f, s), NEW j \in TrueRows(f, s)
    PROVE  Prec(f, i, j) <=> i < j
<1>1. f[i].at \in Nat /\ f[j].at \in Nat /\ i \in Nat /\ j \in Nat
  BY TrueRowsAre, JournalShape
<1>2. (i < j => f[i].at <= f[j].at) /\ (j < i => f[j].at <= f[i].at)
  BY DEF InTurnIn
<1> QED BY <1>1, <1>2 DEF Prec

LEMMA LastIsGreatest ==
    ASSUME NEW f \in Seq(JournalRows), NEW s, InTurnIn(f, s),
           NEW S, S \subseteq TrueRows(f, s), S # {}
    PROVE  LastIn(f, S) \in S /\ \A j \in S : j <= LastIn(f, S)
<1>1. LastIn(f, S) \in S /\ \A j \in S \ {LastIn(f, S)} : Prec(f, j, LastIn(f, S))
  BY TrueRowsAre, LastIsIn
<1>2. \A j \in S : j \in Nat
  BY TrueRowsAre
<1>3. ASSUME NEW j \in S PROVE j <= LastIn(f, S)
  <2>1. CASE j = LastIn(f, S)
    BY <1>1, <1>2, <2>1
  <2>2. CASE j # LastIn(f, S)
    <3>1. j < LastIn(f, S)
      BY <1>1, <2>2, PrecIsBefore
    <3> QED BY <1>1, <1>2, <3>1
  <2> QED BY <2>1, <2>2
<1> QED BY <1>1, <1>3

(* The pile of a subject, as its rows are sorted and as they are filed.    *)
SortedPile(f, A) ==
    LET nth(n) == CHOOSE i \in A : Cardinality({j \in A : Prec(f, j, i)}) = n - 1
    IN  [n \in 1..Cardinality(A) |-> GestureOf(f, nth(n))]

LEMMA SortedIsFiled ==
    ASSUME NEW f \in Seq(JournalRows), NEW s, InTurnIn(f, s)
    PROVE  SortedPile(f, TrueRows(f, s)) = PileOn(f, TrueRows(f, s))
<1> DEFINE A == TrueRows(f, s)
<1>1. ASSUME NEW i \in A PROVE {j \in A : Prec(f, j, i)} = Below(A, i)
  BY PrecIsBefore DEF Below
<1> HIDE DEF A
<1> DEFINE nth(n) == CHOOSE i \in A : Cardinality({j \in A : Prec(f, j, i)}) = n - 1
<1>2. \A n : nth(n) = NthOf(A, n)
  BY <1>1 DEF NthOf
<1>3. SortedPile(f, A) = [n \in 1..Cardinality(A) |-> GestureOf(f, nth(n))]
  BY DEF SortedPile
<1> HIDE DEF nth
<1>4. SortedPile(f, A) = PileOn(f, A)
  BY <1>2, <1>3 DEF PileOn
<1> QED BY <1>4 DEF A

LEMMA PileIsSorted ==
    ASSUME NEW s
    PROVE  /\ Pile(s) = SortedPile(facts, TrueRows(facts, s))
           /\ Pile(s)' = SortedPile(facts', TrueRows(facts', s))
<1>1. Active(s) = TrueRows(facts, s) /\ Active(s)' = TrueRows(facts', s)
  BY ReadingIs, NextReadingIs
<1>2. Pile(s) = SortedPile(facts, Active(s))
  BY DEF Pile, SortedPile, Before, Prec, GestureOf
<1>3. Pile(s)' = SortedPile(facts', Active(s)')
  BY DEF Pile, SortedPile, Before, Prec, GestureOf
<1> QED BY <1>1, <1>2, <1>3

-----------------------------------------------------------------------------
(* What is read off the pile is what is read off the journal.              *)

(* Where the cycle of a subject begins in its pile, and where a row of the *)
(* cycle is in it.                                                         *)
From(f, s) == IF Openings(f, s) = {} THEN 0 ELSE Rank(TrueRows(f, s), Entered(f, s))
Place(f, s, i) == Rank(TrueRows(f, s), i) - From(f, s)

LEMMA PileHas ==
    ASSUME NEW f \in Seq(JournalRows), NEW s
    PROVE  LET A == TrueRows(f, s)  p == PileOn(f, A)
           IN  /\ Len(p) = Cardinality(A) /\ DOMAIN p = 1..Cardinality(A)
               /\ p \in Seq([fact : Kinds, until : Days \cup {None}])
               /\ \A i \in A : Rank(A, i) \in 1..Len(p) /\ p[Rank(A, i)] = GestureOf(f, i)
               /\ \A n \in 1..Len(p) : \E i \in A : Rank(A, i) = n
<1> DEFINE A == TrueRows(f, s)
           p == PileOn(f, A)
<1>1. /\ A \subseteq DOMAIN f /\ A \subseteq Nat /\ IsFiniteSet(A) /\ Cardinality(A) \in Nat
      /\ \A i \in DOMAIN f : f[i] \in JournalRows
  BY TrueRowsAre, JournalShape
<1> HIDE DEF A
<1>2. ASSUME NEW n \in 1..Cardinality(A)
      PROVE  GestureOf(f, NthOf(A, n)) \in [fact : Kinds, until : Days \cup {None}]
  <2>1. NthOf(A, n) \in A
    BY <1>1, NthIs
  <2>2. f[NthOf(A, n)] \in JournalRows
    BY <1>1, <2>1
  <2> QED BY <2>2 DEF JournalRows, GestureOf
<1> DEFINE G == [fact : Kinds, until : Days \cup {None}]
           N == Cardinality(A)
<1>3. p \in Seq(G) /\ Len(p) = N /\ DOMAIN p = 1..N
  <2>1. p \in [1..N -> G] /\ DOMAIN p = 1..N
    BY <1>2 DEF PileOn
  <2> HIDE DEF G, p
  <2> QED BY <1>1, <2>1
<1>4. ASSUME NEW i \in A PROVE Rank(A, i) \in 1..N /\ p[Rank(A, i)] = GestureOf(f, i)
  <2>1. Rank(A, i) \in 1..N /\ NthOf(A, Rank(A, i)) = i
    BY <1>1, RankIs, NthIs
  <2> QED BY <2>1 DEF PileOn
<1>5. \A n \in 1..N : \E i \in A : Rank(A, i) = n
  BY <1>1, RankIsTaken
<1> HIDE DEF p, N, G
<1>6. /\ Len(p) = N /\ DOMAIN p = 1..N /\ p \in Seq(G)
      /\ \A i \in A : Rank(A, i) \in 1..Len(p) /\ p[Rank(A, i)] = GestureOf(f, i)
      /\ \A n \in 1..Len(p) : \E i \in A : Rank(A, i) = n
  BY <1>3, <1>4, <1>5
<1> QED BY <1>6 DEF A, p, N, G

LEMMA GreatestIs ==
    ASSUME NEW S, S \subseteq Nat, NEW m \in S, \A n \in S : n <= m
    PROVE  (CHOOSE k \in S : \A n \in S : n <= k) = m
<1> DEFINE k == CHOOSE k \in S : \A n \in S : n <= k
<1>1. k \in S /\ \A n \in S : n <= k
  OBVIOUS
<1>2. k \in Nat /\ m \in Nat /\ k <= m /\ m <= k
  BY <1>1
<1> QED BY <1>2

(* Where a cycle of a pile begins.                                         *)
Opened(p) == {n \in 1..Len(p) : p[n].fact = "cycle_opened"}

LEMMA FromIs ==
    ASSUME NEW f \in Seq(JournalRows), NEW s, InTurnIn(f, s)
    PROVE  LET p == PileOn(f, TrueRows(f, s))
           IN  /\ From(f, s) \in 0..Len(p)
               /\ From(f, s) = IF Opened(p) = {} THEN 0
                               ELSE CHOOSE n \in Opened(p) : \A m \in Opened(p) : m <= n
<1> DEFINE A == TrueRows(f, s)
           p == PileOn(f, A)
           e == Entered(f, s)
<1>1. /\ \A i \in A : Rank(A, i) \in 1..Len(p) /\ p[Rank(A, i)] = GestureOf(f, i)
      /\ \A n \in 1..Len(p) : \E i \in A : Rank(A, i) = n
      /\ Len(p) \in Nat
  <2>1. Len(p) = Cardinality(A)
    BY PileHas
  <2>2. Cardinality(A) \in Nat
    BY TrueRowsAre
  <2> QED BY PileHas, <2>1, <2>2
<1>2. A \subseteq Nat /\ IsFiniteSet(A)
  BY TrueRowsAre
<1>3. Openings(f, s) = {i \in A : f[i].fact = "cycle_opened"}
  BY DEF Openings
<1> HIDE DEF p
<1>4. ASSUME NEW i \in A PROVE i \in Openings(f, s) <=> Rank(A, i) \in Opened(p)
  <2>1. p[Rank(A, i)] = GestureOf(f, i) /\ Rank(A, i) \in 1..Len(p)
    BY <1>1, <1>4
  <2>2. p[Rank(A, i)].fact = f[i].fact
    BY <2>1 DEF GestureOf
  <2> QED BY <1>3, <1>4, <2>1, <2>2 DEF Opened
<1>5. \A n \in Opened(p) : \E i \in Openings(f, s) : Rank(A, i) = n
  BY <1>1, <1>4 DEF Opened
<1>6. CASE Openings(f, s) = {}
  <2>1. Opened(p) = {}
    BY <1>5, <1>6
  <2> QED BY <1>1, <1>6, <2>1 DEF From, p
<1>7. CASE Openings(f, s) # {}
  <2>1. e \in Openings(f, s) /\ \A j \in Openings(f, s) : j <= e
    BY <1>3, <1>7, LastIsGreatest DEF Entered
  <2>2. e \in A /\ From(f, s) = Rank(A, e) /\ From(f, s) \in Opened(p)
    BY <1>3, <1>4, <1>7, <2>1 DEF From
  <2>3. ASSUME NEW m \in Opened(p) PROVE m <= From(f, s)
    <3>1. PICK j \in Openings(f, s) : Rank(A, j) = m
      BY <1>5
    <3>2. j \in A /\ j \in Nat /\ e \in Nat /\ j <= e
      BY <1>2, <1>3, <2>1, <2>2, <3>1
    <3>3. Rank(A, j) \in Nat /\ Rank(A, e) \in Nat
      BY <1>1, <2>2, <3>2
    <3>4. Rank(A, j) < Rank(A, e) \/ j = e
      BY <1>2, <2>2, <3>2, RankIsOwn
    <3> QED BY <2>2, <3>1, <3>3, <3>4
  <2>4. From(f, s) \in 1..Len(p) /\ \A m \in Opened(p) : m \in Nat
    BY <1>1, <2>2 DEF Opened
  <2>5. (CHOOSE n \in Opened(p) : \A m \in Opened(p) : m <= n) = From(f, s)
    <3>1. Opened(p) \subseteq Nat
      BY <2>4
    <3> QED BY <2>2, <2>3, <3>1, GreatestIs
  <2> QED BY <1>1, <2>2, <2>4, <2>5 DEF p
<1> QED BY <1>6, <1>7

LEMMA SinceIs ==
    ASSUME NEW f \in Seq(JournalRows), NEW s, InTurnIn(f, s), NEW i \in TrueRows(f, s)
    PROVE  i \in Since(f, s) <=> Rank(TrueRows(f, s), i) > From(f, s)
<1> DEFINE A == TrueRows(f, s)
           e == Entered(f, s)
<1>1. A \subseteq Nat /\ IsFiniteSet(A)
  BY TrueRowsAre
<1>2. Rank(A, i) \in Nat \ {0}
  BY <1>1, BelowIs
<1>3. CASE Openings(f, s) = {}
  BY <1>2, <1>3 DEF Since, From
<1>4. CASE Openings(f, s) # {}
  <2>1. e \in A
    <3>1. Openings(f, s) \subseteq A
      BY DEF Openings
    <3> QED BY <1>4, <3>1, LastIsGreatest DEF Entered
  <2>2. From(f, s) = Rank(A, e)
    BY <1>4 DEF From
  <2>3. i \in Since(f, s) <=> e < i
    BY <1>4, <2>1, PrecIsBefore DEF Since
  <2>4. e < i <=> Rank(A, e) < Rank(A, i)
    BY <1>1, <2>1, RankIsOwn
  <2>5. Rank(A, e) \in Nat
    BY <1>1, <2>1, BelowIs
  <2> QED BY <1>2, <2>2, <2>3, <2>4, <2>5
<1> QED BY <1>3, <1>4

LEMMA TailIs ==
    ASSUME NEW G, NEW p \in Seq(G), NEW k \in 0..Len(p)
    PROVE  LET c == SubSeq(p, k + 1, Len(p))
           IN  Len(c) = Len(p) - k /\ Len(c) \in Nat /\ \A n \in 1..Len(c) : c[n] = p[k + n]
<1>1. Len(p) \in Nat /\ k \in Nat /\ k <= Len(p)
  OBVIOUS
<1>2. Len(SubSeq(p, k + 1, Len(p))) = Len(p) - k
  BY <1>1
<1>3. \A n \in 1..(Len(p) - k) : SubSeq(p, k + 1, Len(p))[n] = p[k + n]
  BY <1>1
<1> QED BY <1>1, <1>2, <1>3

LEMMA CycleHas ==
    ASSUME NEW f \in Seq(JournalRows), NEW s, InTurnIn(f, s)
    PROVE  LET c == Promise!CycleOf(PileOn(f, TrueRows(f, s)))
           IN  /\ Len(c) \in Nat
               /\ \A i \in Since(f, s) :
                    Place(f, s, i) \in 1..Len(c) /\ c[Place(f, s, i)] = GestureOf(f, i)
               /\ \A n \in 1..Len(c) : \E i \in Since(f, s) : Place(f, s, i) = n
               /\ \A i, j \in Since(f, s) : /\ i < j <=> Place(f, s, i) < Place(f, s, j)
                                            /\ i = j <=> Place(f, s, i) = Place(f, s, j)
<1> DEFINE A == TrueRows(f, s)
           p == PileOn(f, A)
           c == Promise!CycleOf(p)
           from == From(f, s)
           G == [fact : Kinds, until : Days \cup {None}]
<1>1. /\ Len(p) = Cardinality(A) /\ p \in Seq(G)
      /\ \A i \in A : Rank(A, i) \in 1..Len(p) /\ p[Rank(A, i)] = GestureOf(f, i)
      /\ \A n \in 1..Len(p) : \E i \in A : Rank(A, i) = n
  BY PileHas, ZenonT(60)
<1>2. A \subseteq Nat /\ IsFiniteSet(A) /\ Len(p) \in Nat
  BY <1>1, TrueRowsAre
<1>3. /\ from \in 0..Len(p)
      /\ from = IF Opened(p) = {} THEN 0 ELSE CHOOSE n \in Opened(p) : \A m \in Opened(p) : m <= n
  BY FromIs
<1>4. Since(f, s) \subseteq A /\ \A i \in A : i \in Since(f, s) <=> Rank(A, i) > from
  BY SinceIs DEF Since
<1>5. \A i \in A : Place(f, s, i) = Rank(A, i) - from
  BY DEF Place
<1> HIDE DEF p, from, G, A
<1>6. c = SubSeq(p, from + 1, Len(p))
  BY <1>3 DEF Promise!CycleOf, Opened
<1> HIDE DEF c
<1>7. Len(c) = Len(p) - from /\ Len(c) \in Nat /\ \A n \in 1..Len(c) : c[n] = p[from + n]
  BY <1>1, <1>3, <1>6, TailIs, ZenonT(60)
<1>8. from \in Nat /\ \A i \in A : Rank(A, i) \in Nat
  BY <1>1, <1>2, <1>3
<1>9. ASSUME NEW i \in Since(f, s)
      PROVE  Place(f, s, i) \in 1..Len(c) /\ c[Place(f, s, i)] = GestureOf(f, i)
  <2>1. i \in A /\ Rank(A, i) > from /\ Rank(A, i) \in 1..Len(p) /\ p[Rank(A, i)] = GestureOf(f, i)
    BY <1>1, <1>4
  <2>2. Place(f, s, i) = Rank(A, i) - from
    BY <1>5, <2>1
  <2>3. Place(f, s, i) \in 1..Len(c) /\ from + Place(f, s, i) = Rank(A, i)
    BY <1>2, <1>3, <1>7, <2>1, <2>2, SMTT(60)
  <2> QED BY <1>7, <2>1, <2>3
<1>10. ASSUME NEW n \in 1..Len(c) PROVE \E i \in Since(f, s) : Place(f, s, i) = n
  <2>1. from + n \in 1..Len(p) /\ from + n > from
    BY <1>2, <1>3, <1>7
  <2>2. PICK i \in A : Rank(A, i) = from + n
    BY <1>1, <2>1
  <2>3. i \in Since(f, s)
    BY <1>4, <2>1, <2>2
  <2>4. Place(f, s, i) = n
    <3>1. Rank(A, i) - from = n
      BY <1>8, <2>2
    <3> QED BY <1>5, <3>1
  <2> QED BY <2>3, <2>4
<1>11. ASSUME NEW i \in Since(f, s), NEW j \in Since(f, s)
       PROVE  /\ i < j <=> Place(f, s, i) < Place(f, s, j)
              /\ i = j <=> Place(f, s, i) = Place(f, s, j)
  <2>1. i \in A /\ j \in A
    BY <1>4
  <2>2. Rank(A, i) \in Nat /\ Rank(A, j) \in Nat
    BY <1>2, <2>1, BelowIs
  <2>3. (i < j <=> Rank(A, i) < Rank(A, j)) /\ (i = j <=> Rank(A, i) = Rank(A, j))
    BY <1>2, <2>1, RankIsOwn
  <2>4. Place(f, s, i) = Rank(A, i) - from /\ Place(f, s, j) = Rank(A, j) - from
    BY <1>5, <2>1
  <2> QED BY <1>8, <2>2, <2>3, <2>4
<1>12. /\ Len(c) \in Nat
       /\ \A i \in Since(f, s) : Place(f, s, i) \in 1..Len(c) /\ c[Place(f, s, i)] = GestureOf(f, i)
       /\ \A n \in 1..Len(c) : \E i \in Since(f, s) : Place(f, s, i) = n
       /\ \A i, j \in Since(f, s) : /\ i < j <=> Place(f, s, i) < Place(f, s, j)
                                    /\ i = j <=> Place(f, s, i) = Place(f, s, j)
  BY <1>7, <1>9, <1>10, <1>11
<1> QED BY <1>12 DEF c, p, A

LEMMA SameCount ==
    ASSUME NEW S
    PROVE  Promise!Cardinality(S) = Cardinality(S)
BY DEF Promise!Cardinality, Cardinality

(* The position read off the pile is the one read off the journal.         *)
LEMMA PassedIs ==
    ASSUME NEW f \in Seq(JournalRows), NEW s, InTurnIn(f, s)
    PROVE  Promise!Passed(PileOn(f, TrueRows(f, s))) = Cardinality(Advances(f, s))
<1> DEFINE c == Promise!CycleOf(PileOn(f, TrueRows(f, s)))
           M == {n \in 1..Len(c) : c[n].fact \in Promise!Advances}
           S == Advances(f, s)
           r == [i \in S |-> Place(f, s, i)]
<1>1. /\ \A i \in Since(f, s) : Place(f, s, i) \in 1..Len(c) /\ c[Place(f, s, i)] = GestureOf(f, i)
      /\ \A n \in 1..Len(c) : \E i \in Since(f, s) : Place(f, s, i) = n
      /\ \A i, j \in Since(f, s) : i = j <=> Place(f, s, i) = Place(f, s, j)
  BY CycleHas
<1>2. S \subseteq Since(f, s) /\ \A i \in Since(f, s) : i \in S <=> f[i].fact \in Promise!Advances
  BY DEF Advances, Advancing, Promise!Advances
<1>3. IsFiniteSet(S)
  <2>1. S \subseteq TrueRows(f, s)
    BY DEF Advances, Since
  <2> QED BY <2>1, TrueRowsAre, FS_Subset
<1> HIDE DEF c, S
<1>4. ASSUME NEW i \in Since(f, s) PROVE i \in S <=> Place(f, s, i) \in M
  <2>1. c[Place(f, s, i)].fact = f[i].fact /\ Place(f, s, i) \in 1..Len(c)
    <3>1. c[Place(f, s, i)] = GestureOf(f, i) /\ Place(f, s, i) \in 1..Len(c)
      BY <1>1, <1>4
    <3> QED BY <3>1 DEF GestureOf
  <2> QED BY <1>2, <1>4, <2>1
<1>5. \A n \in M : \E i \in S : Place(f, s, i) = n
  BY <1>1, <1>4
<1> HIDE DEF M
<1>6. r \in Bijection(S, M)
  <2>1. r \in [S -> M]
    BY <1>2, <1>4
  <2>2. \A i, j \in S : r[i] = r[j] => i = j
    BY <1>1, <1>2
  <2>3. \A n \in M : \E i \in S : r[i] = n
    BY <1>5
  <2> HIDE DEF r
  <2> QED BY <2>1, <2>2, <2>3 DEF Bijection, Injection, Surjection, IsInjective
<1>7. Cardinality(M) = Cardinality(S)
  BY <1>3, <1>6, FS_Bijection DEF ExistsBijection
<1>8. Promise!Passed(PileOn(f, TrueRows(f, s))) = Cardinality(M)
  BY SameCount DEF Promise!Passed, M, c
<1> QED BY <1>7, <1>8 DEF S

(* So is the day put by hand: stamps in order make the rows that the last  *)
(* advance does not cover those that are above it in the pile.             *)
LEMMA WishIs ==
    ASSUME NEW f \in Seq(JournalRows), NEW s, InTurnIn(f, s)
    PROVE  Promise!Wish(PileOn(f, TrueRows(f, s)))
             = IF Wishes(f, s) = {} THEN None ELSE f[LastIn(f, Wishes(f, s))].until
<1> DEFINE A == TrueRows(f, s)
           c == Promise!CycleOf(PileOn(f, A))
           put == {n \in 1..Len(c) : /\ c[n].fact \in Promise!Wishes
                                     /\ \A m \in n..Len(c) : c[m].fact \notin Promise!Advances}
           at(i) == Place(f, s, i)
<1>1. /\ \A i \in Since(f, s) : at(i) \in 1..Len(c) /\ c[at(i)] = GestureOf(f, i)
      /\ \A n \in 1..Len(c) : \E i \in Since(f, s) : at(i) = n
      /\ \A i, j \in Since(f, s) : (i < j <=> at(i) < at(j)) /\ (i = j <=> at(i) = at(j))
      /\ Len(c) \in Nat
  BY CycleHas
<1>2. Since(f, s) \subseteq A /\ A \subseteq Nat /\ \A i \in A : f[i].at \in Nat
  BY TrueRowsAre, JournalShape DEF Since
<1> HIDE DEF c, at
<1>3. ASSUME NEW i \in Since(f, s) PROVE c[at(i)].fact = f[i].fact /\ c[at(i)].until = f[i].until
  <2>1. c[at(i)] = GestureOf(f, i)
    BY <1>1, <1>3
  <2> QED BY <2>1 DEF GestureOf
<1> DEFINE L == LastIn(f, Advances(f, s))
<1>4. Advances(f, s) # {} => L \in Advances(f, s) /\ \A j \in Advances(f, s) : j <= L
  <2>1. Advances(f, s) \subseteq A
    BY <1>2 DEF Advances
  <2> QED BY <2>1, LastIsGreatest
<1> HIDE DEF L
<1>5. ASSUME NEW i \in Since(f, s), f[i].fact \in Overriding
      PROVE  Stands(f, s, i) <=> \A m \in at(i)..Len(c) : c[m].fact \notin Promise!Advances
  <2>1. ASSUME Stands(f, s, i), NEW m \in at(i)..Len(c), c[m].fact \in Promise!Advances PROVE FALSE
    <3>1. at(i) \in 1..Len(c) /\ m \in 1..Len(c) /\ m >= at(i)
      BY <1>1, <1>5, <2>1
    <3>2. PICK j \in Since(f, s) : at(j) = m
      BY <1>1, <3>1
    <3>3. j \in Advances(f, s)
      BY <1>3, <2>1, <3>2 DEF Advances, Advancing, Promise!Advances
    <3>4. L \in Advances(f, s) /\ j <= L /\ L \in A /\ L \in Since(f, s) /\ f[L].fact \in Advancing
      BY <1>2, <1>4, <3>3 DEF Advances
    <3>5. i # j
      BY <1>5, <3>3 DEF Advances, Advancing, Overriding
    <3>6. i < j
      BY <1>1, <1>2, <1>5, <3>1, <3>2, <3>5
    <3>7. i \in A /\ i < L
      BY <1>2, <1>5, <3>2, <3>4, <3>6
    <3>8. f[i].at < f[L].at
      BY <1>5, <3>4, <3>7 DEF InTurnIn
    <3>9. f[i].at >= f[L].at
      BY <2>1, <3>3 DEF Stands, L
    <3> QED BY <1>2, <3>4, <3>7, <3>8, <3>9
  <2>2. ASSUME \A m \in at(i)..Len(c) : c[m].fact \notin Promise!Advances,
               Advances(f, s) # {}
        PROVE  f[i].at >= f[L].at
    <3>1. L \in Since(f, s) /\ f[L].fact \in Promise!Advances /\ L \in A /\ i \in A
      BY <1>2, <1>4, <1>5, <2>2 DEF Advances, Advancing, Promise!Advances
    <3>2. c[at(L)].fact \in Promise!Advances /\ at(L) \in 1..Len(c) /\ at(i) \in 1..Len(c)
      BY <1>1, <1>3, <1>5, <3>1
    <3>3. at(L) < at(i)
      BY <1>1, <2>2, <3>2
    <3>4. L < i
      BY <1>1, <1>5, <3>1, <3>3
    <3> QED BY <1>2, <3>1, <3>4 DEF InTurnIn
  <2> QED BY <2>1, <2>2 DEF Stands, L
<1>6. ASSUME NEW i \in Since(f, s) PROVE i \in Wishes(f, s) <=> at(i) \in put
  <2>1. c[at(i)].fact \in Promise!Wishes <=> f[i].fact \in Overriding
    BY <1>3, <1>6 DEF Promise!Wishes, Overriding
  <2>2. at(i) \in 1..Len(c)
    BY <1>1, <1>6
  <2> QED BY <1>5, <1>6, <2>1, <2>2 DEF Wishes
<1>7. Wishes(f, s) \subseteq Since(f, s)
  BY DEF Wishes
<1>8. \A n \in put : \E i \in Wishes(f, s) : at(i) = n
  <2> SUFFICES ASSUME NEW n \in put PROVE \E i \in Wishes(f, s) : at(i) = n
    OBVIOUS
  <2>1. PICK i \in Since(f, s) : at(i) = n
    BY <1>1
  <2> QED BY <1>6, <2>1
<1>9. put \subseteq Nat
  BY <1>1
<1>10. Promise!Wish(PileOn(f, A))
         = IF put = {} THEN None ELSE c[CHOOSE k \in put : \A n \in put : n <= k].until
  BY DEF Promise!Wish, c
<1> HIDE DEF put
<1>11. CASE Wishes(f, s) = {}
  BY <1>8, <1>10, <1>11
<1>12. CASE Wishes(f, s) # {}
  <2> DEFINE w == LastIn(f, Wishes(f, s))
  <2>1. w \in Wishes(f, s) /\ \A j \in Wishes(f, s) : j <= w
    BY <1>2, <1>7, <1>12, LastIsGreatest
  <2> HIDE DEF w
  <2>2. at(w) \in put /\ w \in Since(f, s)
    BY <1>6, <1>7, <2>1
  <2>3. ASSUME NEW n \in put PROVE n <= at(w)
    <3>1. PICK j \in Wishes(f, s) : at(j) = n
      BY <1>8, <2>3
    <3>2. j \in Since(f, s) /\ j <= w /\ j \in Nat /\ w \in Nat
      BY <1>2, <1>7, <2>1, <2>2, <3>1
    <3>3. at(j) \in Nat /\ at(w) \in Nat
      BY <1>9, <2>2, <2>3, <3>1
    <3> QED BY <1>1, <2>2, <3>1, <3>2, <3>3
  <2>4. (CHOOSE k \in put : \A n \in put : n <= k) = at(w)
    BY <1>9, <2>2, <2>3, GreatestIs
  <2>5. c[at(w)].until = f[w].until
    BY <1>3, <2>2
  <2> QED BY <1>10, <1>12, <2>2, <2>4, <2>5 DEF w
<1> QED BY <1>11, <1>12

-----------------------------------------------------------------------------
(* What a row does to a pile.                                              *)

LEMMA PileOfIs ==
    ASSUME NEW f, NEW A, A \subseteq Nat, IsFiniteSet(A), NEW G, \A i \in A : GestureOf(f, i) \in G
    PROVE  /\ Cardinality(A) \in Nat
           /\ PileOn(f, A) \in Seq(G) /\ Len(PileOn(f, A)) = Cardinality(A)
           /\ PileOn(f, A) = [k \in 1..Cardinality(A) |-> GestureOf(f, NthOf(A, k))]
<1> DEFINE N == Cardinality(A)
           p == PileOn(f, A)
<1>1. N \in Nat
  BY FS_CardinalityType
<1>2. \A k \in 1..N : GestureOf(f, NthOf(A, k)) \in G
  BY NthIs
<1>3. p = [k \in 1..N |-> GestureOf(f, NthOf(A, k))]
  BY DEF PileOn
<1>4. p \in [1..N -> G]
  BY <1>2, <1>3
<1> HIDE DEF p, N
<1>5. p \in Seq(G) /\ Len(p) = N
  BY <1>1, <1>4
<1> QED BY <1>1, <1>3, <1>5 DEF p, N

LEMMA PileOfTwo ==
    ASSUME NEW f, NEW g, NEW A, \A i \in A : g[i] = f[i], A \subseteq Nat, IsFiniteSet(A)
    PROVE  PileOn(g, A) = PileOn(f, A)
<1>1. \A k \in 1..Cardinality(A) : GestureOf(g, NthOf(A, k)) = GestureOf(f, NthOf(A, k))
  BY NthIs DEF GestureOf
<1> QED BY <1>1 DEF PileOn

(* A gesture later than the others goes on top.                            *)
RowsAgree(f, g, A) == A \subseteq Nat /\ IsFiniteSet(A) /\ \A i \in A : g[i] = f[i]
LaterThan(A, n) == n \in Nat /\ \A i \in A : i < n

LEMMA PileOfMore ==
    ASSUME NEW f, NEW g, NEW A, RowsAgree(f, g, A), NEW n, LaterThan(A, n)
    PROVE  PileOn(g, A \cup {n}) = Append(PileOn(f, A), GestureOf(g, n))
<1>0. /\ A \subseteq Nat /\ IsFiniteSet(A) /\ n \in Nat
      /\ \A i \in A : i < n /\ g[i] = f[i]
  BY DEF RowsAgree, LaterThan
<1> DEFINE B == A \cup {n}
           N == Cardinality(A)
           G == {GestureOf(g, i) : i \in B}
           p == PileOn(f, A)
           q == PileOn(g, B)
<1>1. n \notin A /\ \A i \in A : i \in Nat
  BY <1>0
<1>2. IsFiniteSet(B) /\ Cardinality(B) = N + 1 /\ N \in Nat /\ B \subseteq Nat
  BY <1>0, <1>1, FS_AddElement, FS_CardinalityType
<1>3. \A i \in A : GestureOf(f, i) \in G /\ GestureOf(g, i) = GestureOf(f, i)
  BY <1>0 DEF GestureOf
<1>4. \A i \in B : GestureOf(g, i) \in G
  OBVIOUS
<1> HIDE DEF G
<1>5. p \in Seq(G) /\ Len(p) = N /\ p = [k \in 1..N |-> GestureOf(f, NthOf(A, k))]
  BY <1>0, <1>3, PileOfIs, ZenonT(60)
<1>6. q \in Seq(G) /\ Len(q) = N + 1 /\ q = [k \in 1..(N + 1) |-> GestureOf(g, NthOf(B, k))]
  <2>1. /\ q \in Seq(G) /\ Len(q) = Cardinality(B)
        /\ q = [k \in 1..Cardinality(B) |-> GestureOf(g, NthOf(B, k))]
    <3> HIDE DEF B
    <3> QED BY <1>2, <1>4, PileOfIs, ZenonT(60)
  <2> QED BY <1>2, <2>1
<1>7. ASSUME NEW i \in A PROVE Rank(B, i) = Rank(A, i)
  <2>1. Below(B, i) = Below(A, i)
    <3>1. i \in Nat /\ ~(n < i)
      BY <1>0, <1>1, <1>7
    <3> QED BY <3>1 DEF Below
  <2> QED BY <2>1 DEF Rank
<1>8. Rank(B, n) = N + 1
  <2>1. ~(n < n) /\ \A i \in A : i < n
    BY <1>0
  <2>2. Below(B, n) = A
    BY ONLY <2>1 DEF Below, B
  <2> QED BY <2>2 DEF Rank
<1> HIDE DEF B, N
<1>9. n \in B /\ A \subseteq B /\ n \in Nat
  BY <1>0 DEF B
<1>10. ASSUME NEW k \in 1..N PROVE q[k] = p[k]
  <2>1. NthOf(A, k) \in A /\ Rank(A, NthOf(A, k)) = k
    BY <1>0, <1>10, NthIs DEF N
  <2>2. Rank(B, NthOf(A, k)) = k /\ NthOf(A, k) \in B
    BY <1>7, <1>9, <2>1
  <2>3. NthOf(B, k) = NthOf(A, k)
    BY <1>2, <2>2, NthIs
  <2>4. q[k] = GestureOf(g, NthOf(B, k)) /\ p[k] = GestureOf(f, NthOf(A, k))
    BY <1>2, <1>5, <1>6, <1>10
  <2> QED BY <1>3, <2>1, <2>3, <2>4
<1>11. q[N + 1] = GestureOf(g, n) /\ GestureOf(g, n) \in G
  <2>1. NthOf(B, N + 1) = n
    BY <1>2, <1>8, <1>9, NthIs
  <2> QED BY <1>2, <1>4, <1>6, <1>9, <2>1
<1> HIDE DEF p, q
<1>12. q = Append(p, GestureOf(g, n))
  <2> DEFINE e == GestureOf(g, n)
  <2> HIDE DEF e
  <2>1. Append(p, e) \in Seq(G) /\ Len(Append(p, e)) = N + 1
    BY <1>2, <1>5, <1>11 DEF e
  <2>2. \A k \in 1..(N + 1) : Append(p, e)[k] = IF k = N + 1 THEN e ELSE p[k]
    BY <1>2, <1>5, <1>11 DEF e
  <2>3. \A k \in 1..(N + 1) : k = N + 1 \/ k \in 1..N
    BY <1>2
  <2>4. \A k \in 1..(N + 1) : q[k] = Append(p, e)[k]
    BY <1>10, <1>11, <2>2, <2>3 DEF e
  <2> DEFINE a == Append(p, e)
  <2> HIDE DEF a
  <2>5. a \in Seq(G) /\ Len(a) = Len(q) /\ \A k \in 1..Len(q) : q[k] = a[k]
    BY <1>6, <2>1, <2>4 DEF a
  <2>6. q = a
    BY <1>6, <2>5
  <2> QED BY <2>6 DEF a, e
<1> QED BY <1>12 DEF p, q, B

(* Undoing the last gesture takes the one on top.                          *)
LEMMA PileOfLess ==
    ASSUME NEW f, NEW g, NEW A, RowsAgree(f, g, A), NEW z, z \in A, LaterThan(A \ {z}, z)
    PROVE  /\ PileOn(g, A \ {z}) = SubSeq(PileOn(f, A), 1, Len(PileOn(f, A)) - 1)
           /\ PileOn(f, A) # <<>>
<1> DEFINE B == A \ {z}
           G == {GestureOf(f, i) : i \in A}
           p == PileOn(f, B)
           q == PileOn(f, A)
           e == GestureOf(f, z)
<1>1. B \subseteq Nat /\ IsFiniteSet(B) /\ A = B \cup {z} /\ \A i \in B : g[i] = f[i]
  BY FS_Subset DEF RowsAgree
<1>2. RowsAgree(f, f, B) /\ LaterThan(B, z)
  BY <1>1 DEF RowsAgree
<1>3. \A i \in B : GestureOf(f, i) \in G
  OBVIOUS
<1>4. e \in G
  OBVIOUS
<1>5. PileOn(g, B) = p
  BY <1>1, PileOfTwo
<1> HIDE DEF B, G, e
<1>6. q = Append(p, e)
  BY <1>1, <1>2, PileOfMore DEF e
<1>7. p \in Seq(G)
  BY <1>1, <1>3, PileOfIs
<1> HIDE DEF p, q
<1>8. p = SubSeq(q, 1, Len(q) - 1) /\ q # <<>>
  <2>1. Len(p) \in Nat /\ Len(q) = Len(p) + 1 /\ q \in Seq(G)
    BY <1>4, <1>6, <1>7
  <2>2. \A k \in 1..Len(p) : q[k] = p[k]
    BY <1>4, <1>6, <1>7
  <2>3. Len(q) - 1 = Len(p)
    BY <2>1
  <2>4. SubSeq(q, 1, Len(p)) \in Seq(G) /\ Len(SubSeq(q, 1, Len(p))) = Len(p)
    BY <2>1
  <2>5. \A k \in 1..Len(p) : SubSeq(q, 1, Len(p))[k] = q[k]
    BY <2>1
  <2>6. p = SubSeq(q, 1, Len(p))
    BY <1>7, <2>1, <2>2, <2>4, <2>5
  <2> QED BY <2>1, <2>3, <2>6
<1> QED BY <1>5, <1>8 DEF p, q, B


-----------------------------------------------------------------------------
(* What a step writes in the journal: one row, or nothing.                 *)

Written(row) ==
    \/ row.fact \in Overriding /\ row.at = Now /\ row.until \in Days
    \/ /\ row.fact = "draft_prepared" /\ row.at = Now /\ row.until = None
       /\ ~Exhausted(row.subject) /\ row.letter = Moment(row.subject).key
    \/ /\ row.fact \in Advancing /\ row.at = StampAfter(row.subject, day) /\ row.until = None
       /\ ~Exhausted(row.subject) /\ row.letter \in {None, DraftLetter(row.subject)}
    \/ /\ row.fact = "cycle_opened" /\ row.subject \in Conversations /\ row.until = None
       /\ \E ahead \in Resumptions : row.at = StampAfter(row.subject, day + ahead)
    \/ /\ row.fact = "retracted" /\ row.at = Now
       /\ Active(row.subject) # {} /\ row.retracts = LastOf(Active(row.subject))

Writes(row) ==
    /\ row \in JournalRows /\ Written(row)
    /\ row.fact = "retracted" <=> row.retracts # None
    /\ hour < Span /\ hour' = hour + 1 /\ day' = day
    /\ facts' = Append(facts, row)

LEMMA PrepareWrites ==
    ASSUME Inv, NEW s \in Subjects, Prepare(s)
    PROVE  \E row : Writes(row)
<1> DEFINE row == [Fact(s, "draft_prepared", Now) EXCEPT !.letter = Moment(s).key]
<1>1. row = [subject |-> s, fact |-> "draft_prepared", at |-> Now, until |-> None,
             retracts |-> None, letter |-> Moment(s).key]
  BY DEF Fact
<1>2. /\ hour < Span /\ hour' = hour + 1 /\ day' = day /\ ~Exhausted(s)
      /\ facts' = Append(facts, row)
  BY DEF Prepare, Insert, Works
<1>3. Now \in Nat /\ Moment(s).key \in Keys
  BY <1>2, NowIs, MomentIs
<1>4. row \in JournalRows
  BY <1>1, <1>3, RowIs DEF Kinds
<1>5. /\ row.subject = s /\ row.fact = "draft_prepared" /\ row.at = Now /\ row.retracts = None
      /\ row.until = None /\ row.letter = Moment(s).key
  BY <1>1
<1> HIDE DEF row, JournalRows
<1>6. Written(row)
  BY <1>2, <1>5 DEF Written
<1> QED BY <1>2, <1>4, <1>5, <1>6 DEF Writes

LEMMA MarkSentWrites ==
    ASSUME Inv, NEW s \in Subjects, MarkSent(s)
    PROVE  \E row : Writes(row) /\ row.subject = s /\ row.fact = "marked_sent"
<1> DEFINE row == [Fact(s, "marked_sent", StampAfter(s, day)) EXCEPT !.letter = DraftLetter(s)]
<1>1. row = [subject |-> s, fact |-> "marked_sent", at |-> StampAfter(s, day), until |-> None,
             retracts |-> None, letter |-> DraftLetter(s)]
  BY DEF Fact
<1>2. /\ hour < Span /\ hour' = hour + 1 /\ day' = day /\ ~Exhausted(s)
      /\ facts' = Append(facts, row)
  BY DEF MarkSent, Insert, Works
<1>3. StampAfter(s, day) \in Nat /\ DraftLetter(s) \in Keys \cup {None}
  BY TodaysStampIs, DraftLetterIs
<1>4. row \in JournalRows
  BY <1>1, <1>3, RowIs DEF Kinds
<1>5. /\ row.subject = s /\ row.fact = "marked_sent" /\ row.at = StampAfter(s, day)
      /\ row.retracts = None /\ row.until = None /\ row.letter = DraftLetter(s)
  BY <1>1
<1> HIDE DEF row, JournalRows
<1>6. Written(row)
  BY <1>2, <1>5 DEF Written, Advancing
<1> QED BY <1>2, <1>4, <1>5, <1>6 DEF Writes

LEMMA SkipWrites ==
    ASSUME Inv, NEW s \in Subjects, Skip(s)
    PROVE  \E row : Writes(row)
<1> DEFINE row == Fact(s, "step_skipped", StampAfter(s, day))
<1>1. row = [subject |-> s, fact |-> "step_skipped", at |-> StampAfter(s, day), until |-> None,
             retracts |-> None, letter |-> None]
  BY DEF Fact
<1>2. /\ hour < Span /\ hour' = hour + 1 /\ day' = day /\ ~Exhausted(s)
      /\ facts' = Append(facts, row)
  BY DEF Skip, Insert, Works
<1>3. StampAfter(s, day) \in Nat
  BY TodaysStampIs
<1>4. row \in JournalRows
  BY <1>1, <1>3, RowIs DEF Kinds
<1>5. /\ row.subject = s /\ row.fact = "step_skipped" /\ row.at = StampAfter(s, day)
      /\ row.retracts = None /\ row.until = None /\ row.letter = None
  BY <1>1
<1> HIDE DEF row, JournalRows
<1>6. Written(row)
  BY <1>2, <1>5 DEF Written, Advancing
<1> QED BY <1>2, <1>4, <1>5, <1>6 DEF Writes

LEMMA PutDateWrites ==
    ASSUME Inv, NEW s \in Subjects, NEW fact \in Overriding, NEW d \in Days, PutDate(s, fact, d)
    PROVE  \E row : Writes(row)
<1> DEFINE row == [Fact(s, fact, Now) EXCEPT !.until = d]
<1>1. row = [subject |-> s, fact |-> fact, at |-> Now, until |-> d,
             retracts |-> None, letter |-> None]
  BY DEF Fact
<1>2. hour < Span /\ hour' = hour + 1 /\ day' = day /\ facts' = Append(facts, row)
  BY DEF PutDate, Insert, Works
<1>3. Now \in Nat
  BY <1>2, NowIs
<1>4. row \in JournalRows
  BY <1>1, <1>3, RowIs DEF Kinds, Overriding
<1>5. /\ row.subject = s /\ row.fact = fact /\ row.at = Now
      /\ row.retracts = None /\ row.until = d
  BY <1>1
<1> HIDE DEF row, JournalRows
<1>6. Written(row)
  BY <1>5 DEF Written
<1>7. row.fact # "retracted"
  BY <1>5 DEF Overriding
<1> QED BY <1>2, <1>4, <1>5, <1>6, <1>7 DEF Writes

LEMMA RetractLastWrites ==
    ASSUME Inv, NEW s \in Subjects, RetractLast(s)
    PROVE  \E row : Writes(row)
<1> DEFINE z == LastOf(Active(s))
           row == [Fact(s, "retracted", Now) EXCEPT !.retracts = z]
<1>1. row = [subject |-> s, fact |-> "retracted", at |-> Now, until |-> None,
             retracts |-> z, letter |-> None]
  BY DEF Fact
<1>2. /\ hour < Span /\ hour' = hour + 1 /\ day' = day /\ Active(s) # {}
      /\ facts' = Append(facts, row)
  BY DEF RetractLast, Insert, Works
<1>3. Now \in Nat /\ z \in Nat /\ z # None
  BY <1>2, NowIs, ActiveAreRows, FollowUpAssumption
<1> HIDE DEF z
<1>4. row \in JournalRows
  BY <1>1, <1>3, RowIs DEF Kinds
<1>5. /\ row.subject = s /\ row.fact = "retracted" /\ row.at = Now /\ row.retracts = z
  BY <1>1
<1> HIDE DEF row, JournalRows
<1>6. Written(row)
  BY <1>2, <1>5 DEF Written, z
<1> QED BY <1>2, <1>3, <1>4, <1>5, <1>6 DEF Writes

LEMMA ReopenWrites ==
    ASSUME Inv, NEW c \in Conversations, NEW ahead \in Resumptions,
           ReopenOpportunity(c, day + ahead)
    PROVE  \E row : Writes(row) /\ row.subject = c /\ row.fact = "cycle_opened"
<1> DEFINE row == Fact(c, "cycle_opened", StampAfter(c, day + ahead))
<1>1. row = [subject |-> c, fact |-> "cycle_opened", at |-> StampAfter(c, day + ahead),
             until |-> None, retracts |-> None, letter |-> None]
  BY DEF Fact
<1>2. hour < Span /\ hour' = hour + 1 /\ day' = day /\ facts' = Append(facts, row)
  BY DEF ReopenOpportunity, Insert, Works
<1>3. StampAfter(c, day + ahead) \in Nat
  <2>1. day + ahead \in Nat /\ facts \in Seq(JournalRows)
    BY FollowUpAssumption DEF Inv, TypeInv, SoundJournal
  <2> HIDE DEF JournalRows
  <2> QED BY <2>1, StampIs
<1>4. row \in JournalRows
  BY <1>1, <1>3, RowIs DEF Kinds, Subjects
<1>5. /\ row.subject = c /\ row.fact = "cycle_opened" /\ row.retracts = None
      /\ row.at = StampAfter(c, day + ahead) /\ row.until = None
  BY <1>1
<1> HIDE DEF row, JournalRows
<1>6. Written(row)
  BY <1>5 DEF Written
<1> QED BY <1>2, <1>4, <1>5, <1>6 DEF Writes

(* The clock goes forward; a new day begins at an instant of Starts.       *)
Passes ==
    /\ facts' = facts
    /\ \/ day' = day /\ hour' = hour
       \/ day' = day + 1 /\ hour' \in Starts

LEMMA StepWrites ==
    ASSUME Inv, [Next]_vars
    PROVE  Passes \/ \E row : Writes(row)
<1>1. CASE \E s \in Subjects :
             \/ Prepare(s) \/ MarkSent(s) \/ Skip(s) \/ RetractLast(s)
             \/ \E fact \in Overriding, d \in Days : PutDate(s, fact, d)
  BY <1>1, PrepareWrites, MarkSentWrites, SkipWrites, RetractLastWrites, PutDateWrites
<1>2. CASE \E c \in Conversations : \E ahead \in Resumptions : ReopenOpportunity(c, day + ahead)
  BY <1>2, ReopenWrites
<1>3. CASE \E series \in Arrangements : Arrange(series)
  BY <1>3 DEF Arrange, clock, Passes
<1>4. CASE \E c \in Conversations : \E d \in Days : Create(c, d) \/ AdvanceOpportunity(c, d)
  BY <1>4 DEF Create, AdvanceOpportunity, EditFiche, clock, Passes
<1>5. CASE \E c \in Conversations : \E next \in Days \cup {None} : UpdateOpportunity(c, next)
  BY <1>5 DEF UpdateOpportunity, EditFiche, clock, Passes
<1>6. CASE \E c \in Conversations : \E stage \in {"won", "lost"} : CloseOpportunity(c, stage)
  BY <1>6 DEF CloseOpportunity, clock, Passes
<1>7. CASE \E c \in Conversations : \E archived \in BOOLEAN : ArchiveOpportunity(c, archived)
  BY <1>7 DEF ArchiveOpportunity, clock, Passes
<1>8. CASE \E c \in Conversations : DeleteOpportunity(c)
  BY <1>8 DEF DeleteOpportunity, clock, Passes
<1>9. CASE \E x \in filed : DeleteInteraction(x)
  BY <1>9 DEF DeleteInteraction, clock, Passes
<1>10. CASE \E i \in Invoices : Settle(i)
  BY <1>10 DEF Settle, clock, Passes
<1>11. CASE \E h \in Starts : NextDay(h)
  BY <1>11 DEF NextDay, Passes
<1>12. CASE UNCHANGED vars
  BY <1>12 DEF vars, Passes
<1> QED
  BY <1>1, <1>2, <1>3, <1>4, <1>5, <1>6, <1>7, <1>8, <1>9, <1>10, <1>11, <1>12 DEF Next

-----------------------------------------------------------------------------
(* The journal as a pile: each step moves one pile, by one gesture.        *)

PileIn(f, s) == PileOn(f, TrueRows(f, s))
InTurn == \A s \in Subjects : InTurnIn(facts, s)

LEMMA WriteIs ==
    ASSUME Inv, NEW row, Writes(row)
    PROVE  /\ SoundJournal(facts) /\ facts \in Seq(JournalRows) /\ facts' \in Seq(JournalRows)
           /\ TrueAfter(facts, row, facts') /\ row.subject \in Subjects
           /\ DOMAIN facts' = DOMAIN facts \cup {Len(facts) + 1} /\ Len(facts) + 1 \in Nat
           /\ facts'[Len(facts) + 1] = row
           /\ \A i \in DOMAIN facts : facts'[i] = facts[i] /\ i < Len(facts) + 1
           /\ row.fact = "retracted" =>
                /\ TrueRows(facts, row.subject) # {}
                /\ row.retracts = LastIn(facts, TrueRows(facts, row.subject))
<1>1. SoundJournal(facts) /\ facts \in Seq(JournalRows)
  BY DEF Inv, TypeInv, SoundJournal
<1>2. /\ row \in JournalRows /\ facts' = Append(facts, row)
      /\ row.fact = "retracted" <=> row.retracts # None
  BY DEF Writes
<1>3. row.subject \in Subjects
  BY <1>2 DEF JournalRows
<1>4. row.fact = "retracted" => Active(row.subject) # {} /\ row.retracts = LastOf(Active(row.subject))
  BY DEF Writes, Written, Overriding, Advancing
<1> HIDE DEF JournalRows
<1>5. row.fact = "retracted" => row.retracts \in Active(row.subject)
  BY <1>4, ActiveAreRows
<1>6. row.fact = "retracted" => row.retracts \in RowsOf(facts, row.subject)
  BY <1>5, ReadingIs DEF TrueRows
<1>7. TrueAfter(facts, row, facts')
  BY <1>1, <1>2, <1>6, TrueRowMore
<1>8. row.fact = "retracted" =>
        /\ TrueRows(facts, row.subject) # {}
        /\ row.retracts = LastIn(facts, TrueRows(facts, row.subject))
  <2>1. Active(row.subject) = TrueRows(facts, row.subject)
    BY ReadingIs
  <2> QED BY <1>4, <2>1 DEF LastOf, LastIn, Before, Prec
<1>9. Len(facts) + 1 \in Nat
  BY <1>1, JournalShape
<1> QED BY <1>1, <1>2, <1>3, <1>7, <1>8, <1>9, RowMore

LEMMA OtherPilesStay ==
    ASSUME Inv, NEW row, Writes(row), NEW t, t # row.subject
    PROVE  PileIn(facts', t) = PileIn(facts, t)
<1> DEFINE A == TrueRows(facts, t)
           f == facts
           g == facts'
<1>1. /\ TrueRows(g, t) = A /\ A \subseteq Nat /\ IsFiniteSet(A)
      /\ \A i \in A : g[i] = f[i]
  <2>1. /\ facts \in Seq(JournalRows) /\ TrueAfter(facts, row, facts')
        /\ \A i \in DOMAIN facts : facts'[i] = facts[i]
    BY WriteIs
  <2> QED BY <2>1, TrueRowsAre DEF TrueAfter
<1> HIDE DEF A, f, g
<1>2. PileOn(g, A) = PileOn(f, A)
  BY <1>1, PileOfTwo
<1> QED BY <1>1, <1>2 DEF PileIn, A, f, g

LEMMA GestureGoesOnTop ==
    ASSUME Inv, NEW row, Writes(row), row.fact # "retracted"
    PROVE  PileIn(facts', row.subject)
             = Append(PileIn(facts, row.subject), [fact |-> row.fact, until |-> row.until])
<1> DEFINE A == TrueRows(facts, row.subject)
           f == facts
           g == facts'
           n == Len(facts) + 1
<1>1. /\ TrueRows(g, row.subject) = A \cup {n} /\ A \subseteq Nat /\ IsFiniteSet(A)
      /\ \A i \in A : i < n /\ g[i] = f[i]
      /\ n \in Nat /\ g[n] = row
  <2>1. /\ facts \in Seq(JournalRows) /\ TrueAfter(facts, row, facts')
        /\ \A i \in DOMAIN facts : facts'[i] = facts[i] /\ i < n
        /\ n \in Nat /\ facts'[n] = row
    BY WriteIs
  <2> QED BY <2>1, TrueRowsAre DEF TrueAfter
<1> HIDE DEF A, f, g, n
<1>2. PileOn(g, A \cup {n}) = Append(PileOn(f, A), GestureOf(g, n))
  <2>1. RowsAgree(f, g, A) /\ LaterThan(A, n)
    BY <1>1 DEF RowsAgree, LaterThan
  <2> QED BY <2>1, PileOfMore
<1>3. GestureOf(g, n) = [fact |-> row.fact, until |-> row.until]
  BY <1>1 DEF GestureOf
<1> QED BY <1>1, <1>2, <1>3 DEF PileIn, A, f, g

LEMMA GestureOnTopGoes ==
    ASSUME Inv, InTurn, NEW row, Writes(row), row.fact = "retracted"
    PROVE  LET p == PileIn(facts, row.subject)
           IN  p # <<>> /\ PileIn(facts', row.subject) = SubSeq(p, 1, Len(p) - 1)
<1> DEFINE A == TrueRows(facts, row.subject)
           f == facts
           g == facts'
           z == LastIn(facts, A)
<1>1. /\ facts \in Seq(JournalRows) /\ TrueAfter(facts, row, facts') /\ row.subject \in Subjects
      /\ \A i \in DOMAIN facts : facts'[i] = facts[i]
      /\ A # {} /\ row.retracts = z
  BY WriteIs
<1>2. z \in A /\ \A i \in A : i <= z
  BY <1>1, LastIsGreatest DEF InTurn
<1>3. /\ TrueRows(g, row.subject) = A \ {z} /\ A \subseteq Nat /\ IsFiniteSet(A)
      /\ \A i \in A : g[i] = f[i]
  BY <1>1, TrueRowsAre DEF TrueAfter
<1> HIDE DEF A, f, g, z
<1>4. /\ PileOn(g, A \ {z}) = SubSeq(PileOn(f, A), 1, Len(PileOn(f, A)) - 1)
      /\ PileOn(f, A) # <<>>
  <2>1. RowsAgree(f, g, A)
    BY <1>3 DEF RowsAgree
  <2>2. LaterThan(A \ {z}, z)
    BY <1>2, <1>3 DEF LaterThan
  <2> QED BY <1>2, <2>1, <2>2, PileOfLess
<1> QED BY <1>3, <1>4 DEF PileIn, A, f, g

-----------------------------------------------------------------------------
(* The journal shows the piles, where they stand and the days they wish.   *)

JournalPiles == [s \in Subjects |-> Pile(s)]
JournalPositions == [s \in Subjects |-> Position(s)]
JournalWishes == [s \in Subjects |->
                    IF Overrides(s) = {} THEN None ELSE facts[LastOf(Overrides(s))].until]

LEMMA JournalShows ==
    ASSUME facts \in Seq(JournalRows), InTurn
    PROVE  /\ JournalPiles = [s \in Subjects |-> PileIn(facts, s)]
           /\ JournalPositions = [s \in Subjects |-> Promise!Passed(PileIn(facts, s))]
           /\ JournalWishes = [s \in Subjects |-> Promise!Wish(PileIn(facts, s))]
<1> HIDE DEF JournalRows
<1>1. ASSUME NEW s \in Subjects
      PROVE  /\ Pile(s) = PileIn(facts, s) /\ Position(s) = Promise!Passed(PileIn(facts, s))
             /\ (IF Overrides(s) = {} THEN None ELSE facts[LastOf(Overrides(s))].until)
                  = Promise!Wish(PileIn(facts, s))
  <2>1. InTurnIn(facts, s)
    BY DEF InTurn
  <2>2. Pile(s) = PileIn(facts, s)
    BY <2>1, PileIsSorted, SortedIsFiled DEF PileIn
  <2>3. AdvancesOf(s) = Advances(facts, s) /\ Overrides(s) = Wishes(facts, s)
    BY ReadingIs
  <2>4. Position(s) = Promise!Passed(PileIn(facts, s))
    BY <2>1, <2>3, PassedIs DEF Position, PileIn
  <2>5. LastOf(Overrides(s)) = LastIn(facts, Overrides(s))
    BY DEF LastOf, LastIn, Before, Prec
  <2> QED BY <2>1, <2>2, <2>3, <2>4, <2>5, WishIs DEF PileIn
<1> QED BY <1>1 DEF JournalPiles, JournalPositions, JournalWishes

LEMMA NextJournalShows ==
    ASSUME facts' \in Seq(JournalRows), InTurn'
    PROVE  /\ JournalPiles' = [s \in Subjects |-> PileIn(facts', s)]
           /\ JournalPositions' = [s \in Subjects |-> Promise!Passed(PileIn(facts', s))]
           /\ JournalWishes' = [s \in Subjects |-> Promise!Wish(PileIn(facts', s))]
<1> HIDE DEF JournalRows
<1>1. ASSUME NEW s \in Subjects
      PROVE  /\ Pile(s)' = PileIn(facts', s) /\ Position(s)' = Promise!Passed(PileIn(facts', s))
             /\ (IF Overrides(s) = {} THEN None ELSE facts[LastOf(Overrides(s))].until)'
                  = Promise!Wish(PileIn(facts', s))
  <2> DEFINE g == facts'
  <2>1. InTurnIn(g, s)
    BY DEF InTurn, InTurnIn
  <2>2. Pile(s)' = PileIn(g, s)
    BY <2>1, PileIsSorted, SortedIsFiled DEF PileIn
  <2>3. AdvancesOf(s)' = Advances(g, s) /\ Overrides(s)' = Wishes(g, s)
    BY NextReadingIs
  <2>4. Position(s)' = Promise!Passed(PileIn(g, s))
    BY <2>1, <2>3, PassedIs DEF Position, PileIn
  <2>5. LastOf(Overrides(s))' = LastIn(g, Wishes(g, s))
    BY <2>3 DEF LastOf, LastIn, Before, Prec
  <2>6. (IF Overrides(s) = {} THEN None ELSE facts[LastOf(Overrides(s))].until)'
          = IF Wishes(g, s) = {} THEN None ELSE g[LastIn(g, Wishes(g, s))].until
    BY <2>3, <2>5
  <2>7. Promise!Wish(PileOn(g, TrueRows(g, s)))
          = IF Wishes(g, s) = {} THEN None ELSE g[LastIn(g, Wishes(g, s))].until
    BY <2>1, WishIs
  <2> QED BY <2>2, <2>4, <2>6, <2>7 DEF PileIn
<1> QED BY <1>1 DEF JournalPiles, JournalPositions, JournalWishes

-----------------------------------------------------------------------------
(* Each step of the journal is a gesture done or undone, or none.          *)

PromisedGestures == [fact : Overriding, until : Days]
                    \cup [fact : Advancing \cup {"draft_prepared", "cycle_opened"}, until : {None}]

LEMMA RowIsGesture ==
    ASSUME NEW row, Writes(row), row.fact # "retracted"
    PROVE  [fact |-> row.fact, until |-> row.until] \in PromisedGestures
<1>1. \/ row.fact \in Overriding /\ row.until \in Days
      \/ row.fact \in Advancing \cup {"draft_prepared", "cycle_opened"} /\ row.until = None
  BY DEF Writes, Written
<1> QED BY <1>1 DEF PromisedGestures

LEMMA PilesBecome ==
    ASSUME Inv, Inv', InTurn, InTurn', NEW row, Writes(row)
    PROVE  Promise!Becomes(row.subject, PileIn(facts', row.subject))
<1> DEFINE s == row.subject
           q == PileIn(facts', s)
<1>1. /\ JournalPiles = [t \in Subjects |-> PileIn(facts, t)]
      /\ JournalPositions = [t \in Subjects |-> Promise!Passed(PileIn(facts, t))]
      /\ JournalWishes = [t \in Subjects |-> Promise!Wish(PileIn(facts, t))]
  BY JournalShows DEF Inv, TypeInv, SoundJournal
<1>2. /\ JournalPiles' = [t \in Subjects |-> PileIn(facts', t)]
      /\ JournalPositions' = [t \in Subjects |-> Promise!Passed(PileIn(facts', t))]
      /\ JournalWishes' = [t \in Subjects |-> Promise!Wish(PileIn(facts', t))]
  BY NextJournalShows DEF Inv, TypeInv, SoundJournal
<1>3. \A t \in Subjects : t # s => PileIn(facts', t) = PileIn(facts, t)
  BY OtherPilesStay
<1> HIDE DEF s
<1>4. JournalPiles' = [JournalPiles EXCEPT ![s] = q]
  BY <1>1, <1>2, <1>3
<1>5. JournalPositions' = [JournalPositions EXCEPT ![s] = Promise!Passed(q)]
  BY <1>1, <1>2, <1>3
<1>6. JournalWishes' = [JournalWishes EXCEPT ![s] = Promise!Wish(q)]
  BY <1>1, <1>2, <1>3
<1> HIDE DEF q
<1>7. Promise!Becomes(s, q)
  BY <1>4, <1>5, <1>6
     DEF Promise!Becomes, JournalPiles, JournalPositions, JournalWishes
<1> QED BY <1>7 DEF s, q

LEMMA StepKeepsPromise ==
    ASSUME Inv, Inv', InTurn, InTurn', [Next]_vars
    PROVE  [Promise!Next]_(Promise!promise)
<1>1. /\ JournalPiles = [t \in Subjects |-> PileIn(facts, t)]
      /\ JournalPositions = [t \in Subjects |-> Promise!Passed(PileIn(facts, t))]
      /\ JournalWishes = [t \in Subjects |-> Promise!Wish(PileIn(facts, t))]
  BY JournalShows DEF Inv, TypeInv, SoundJournal
<1>2. /\ JournalPiles' = [t \in Subjects |-> PileIn(facts', t)]
      /\ JournalPositions' = [t \in Subjects |-> Promise!Passed(PileIn(facts', t))]
      /\ JournalWishes' = [t \in Subjects |-> Promise!Wish(PileIn(facts', t))]
  BY NextJournalShows DEF Inv, TypeInv, SoundJournal
<1>3. CASE Passes
  <2>1. facts' = facts
    BY <1>3 DEF Passes
  <2>2. /\ JournalPiles' = JournalPiles /\ JournalPositions' = JournalPositions
        /\ JournalWishes' = JournalWishes
    BY <1>1, <1>2, <2>1
  <2>3. UNCHANGED Promise!promise
    BY <2>2 DEF Promise!promise, JournalPiles, JournalPositions, JournalWishes
  <2> QED BY <2>3
<1>4. CASE \E row : Writes(row)
  <2>1. PICK row : Writes(row)
    BY <1>4
  <2> DEFINE s == row.subject
             p == PileIn(facts, s)
             q == PileIn(facts', s)
             e == [fact |-> row.fact, until |-> row.until]
  <2>2. s \in Subjects /\ facts \in Seq(JournalRows)
    BY <2>1, WriteIs
  <2>3. JournalPiles[s] = p /\ JournalPiles'[s] = q
    BY <1>1, <1>2, <2>2
  <2>4. Promise!Becomes(s, q)
    BY <2>1, PilesBecome
  <2>5. CASE row.fact = "retracted"
    <3>1. p # <<>> /\ q = SubSeq(p, 1, Len(p) - 1)
      BY <2>1, <2>5, GestureOnTopGoes
    <3> HIDE DEF s, p, q
    <3>2. /\ JournalPiles[s] # <<>>
          /\ Promise!Becomes(s, SubSeq(JournalPiles[s], 1, Len(JournalPiles[s]) - 1))
      BY <2>3, <2>4, <3>1
    <3>3. Promise!Undo(s)
      BY <3>2 DEF Promise!Undo, JournalPiles
    <3> QED BY <2>2, <3>3 DEF Promise!Next
  <2>6. CASE row.fact # "retracted"
    <3>1. q = Append(p, e) /\ e \in PromisedGestures
      BY <2>1, <2>6, GestureGoesOnTop, RowIsGesture
    <3>2. p \in Seq([fact : Kinds, until : Days \cup {None}])
      BY <2>2, PileHas DEF PileIn
    <3> HIDE DEF s, p, q, e
    <3>3. Len(q) # 0 /\ q[Len(q)] = e
      BY <3>1, <3>2
    <3>4. e \in {JournalPiles'[s][n] : n \in {Len(JournalPiles'[s])} \ {0}}
      BY <2>3, <3>3
    <3>5. Promise!Becomes(s, Append(JournalPiles[s], e))
      BY <2>3, <2>4, <3>1
    <3>6. Promise!Do(s)
      BY <3>1, <3>4, <3>5 DEF Promise!Do, JournalPiles, PromisedGestures
    <3> QED BY <2>2, <3>6 DEF Promise!Next
  <2> QED BY <2>5, <2>6
<1> QED BY <1>3, <1>4, StepWrites

LEMMA InitKeepsPromise == Init => Promise!Init
<1> SUFFICES ASSUME Init PROVE Promise!Init
  OBVIOUS
<1>1. Inv /\ facts = <<>>
  BY InitHolds DEF Init
<1>2. \A s : TrueRows(facts, s) = {}
  BY <1>1 DEF TrueRows, RowsOf
<1>3. facts \in Seq(JournalRows) /\ InTurn
  BY <1>1, <1>2 DEF Inv, TypeInv, SoundJournal, InTurn, InTurnIn
<1>4. \A s : PileIn(facts, s) = <<>>
  <2>1. Cardinality({}) = 0
    BY FS_EmptySet
  <2>2. \A s : PileIn(facts, s) = [n \in 1..0 |-> GestureOf(facts, NthOf({}, n))]
    BY <1>2, <2>1 DEF PileIn, PileOn
  <2> QED BY <2>2
<1>5. Promise!Passed(<<>>) = 0 /\ Promise!Wish(<<>>) = None
  <2>1. Promise!CycleOf(<<>>) = <<>>
    BY DEF Promise!CycleOf
  <2>2. Promise!Cardinality({}) = 0
    BY SameCount, FS_EmptySet
  <2> DEFINE c == Promise!CycleOf(<<>>)
  <2>3. 1..Len(c) = {}
    BY <2>1
  <2> HIDE DEF c
  <2>4. {i \in 1..Len(c) : c[i].fact \in Promise!Advances} = {}
    BY <2>3
  <2>5. {i \in 1..Len(c) : /\ c[i].fact \in Promise!Wishes
                           /\ \A j \in i..Len(c) : c[j].fact \notin Promise!Advances} = {}
    BY <2>3
  <2> QED BY <2>2, <2>4, <2>5 DEF Promise!Passed, Promise!Wish, c
<1>6. /\ JournalPiles = [s \in Subjects |-> <<>>] /\ JournalPositions = [s \in Subjects |-> 0]
      /\ JournalWishes = [s \in Subjects |-> None]
  BY <1>3, <1>4, <1>5, JournalShows
<1> QED BY <1>6 DEF Promise!Init, JournalPiles, JournalPositions, JournalWishes

-----------------------------------------------------------------------------
(* When stamps are in the order of the gestures: everybody sits down to    *)
(* work just before noon or later, and a conversation is resumed on the    *)
(* day itself.                                                             *)

WorkFromNoon == Starts \subseteq (Noon - 1)..(Span - 1) /\ Resumptions \subseteq {0}

(* What the machine's clock stamps, and not noon.                          *)
ByTheClock == Overriding \cup {"draft_prepared"}

(* No stamp is ahead of the clock; those it put itself are behind it.      *)
Timely ==
    /\ hour >= Noon - 1
    /\ \A i \in DOMAIN facts :
        /\ facts[i].at <= Now
        /\ facts[i].fact \in ByTheClock => facts[i].at < Now

LEMMA InstantsOfDay ==
    ASSUME NEW d \in Nat, NEW a \in Nat
    PROVE  a \div Span = d <=> d * Span <= a /\ a < d * Span + Span
<1>1. Span \in Nat \ {0} /\ d * Span \in Nat
  BY FollowUpAssumption
<1>2. ASSUME d * Span <= a, a < d * Span + Span PROVE a \div Span = d
  <2> DEFINE h == a - d * Span
  <2>1. h \in 0..(Span - 1) /\ d * Span + h = a
    BY <1>1, <1>2
  <2> HIDE DEF h
  <2> QED BY <2>1, DayOfInstant
<1>3. ASSUME a \div Span = d PROVE d * Span <= a /\ a < d * Span + Span
  BY <1>1, <1>3
<1> QED BY <1>2, <1>3

(* A stamp of today is of the next instant at the latest, later than every *)
(* stamp of the clock and no sooner than any.                              *)
LEMMA StampIsTimely ==
    ASSUME Inv, Timely, hour < Span, NEW s
    PROVE  /\ StampAfter(s, day) \in Nat /\ StampAfter(s, day) <= Now + 1
           /\ \A i \in Rows(s) : /\ facts[i].at <= StampAfter(s, day)
                                 /\ facts[i].at < Now => facts[i].at < StampAfter(s, day)
<1> DEFINE base == day * Span
           stamp == StampAfter(s, day)
<1>1. /\ facts \in Seq(JournalRows) /\ day \in Nat /\ hour \in Nat /\ base \in Nat
      /\ Span \in Nat /\ Noon \in 1..(Span - 1) /\ hour < Span /\ hour >= Noon - 1
  BY FollowUpAssumption DEF Inv, TypeInv, SoundJournal, Timely
<1>2. Now = base + hour
  BY DEF Now
<1>3. \A i \in Rows(s) : facts[i].at \in Nat /\ facts[i].at <= Now
  BY <1>1, JournalShape DEF Rows, Timely
<1>4. stamp \in Nat /\ stamp \div Span = day /\ base <= stamp /\ stamp < base + Span
  <2>1. stamp \in Nat /\ stamp \div Span = day
    <3> HIDE DEF JournalRows
    <3> QED BY <1>1, StampIs
  <2> HIDE DEF stamp
  <2> QED BY <1>1, <2>1, InstantsOfDay
<1>5. ASSUME NEW i \in Rows(s)
      PROVE  /\ DateOf(i) = day => base <= facts[i].at /\ facts[i].at < base + Span
             /\ DateOf(i) # day => facts[i].at < base
  <2>1. facts[i].at \in Nat /\ facts[i].at < base + Span
    BY <1>1, <1>2, <1>3, <1>5
  <2>2. DateOf(i) = day <=> base <= facts[i].at /\ facts[i].at < base + Span
    BY <1>1, <2>1, InstantsOfDay DEF DateOf
  <2> QED BY <1>1, <2>1, <2>2
<1>6. ASSUME stamp = base + Noon,
             \A i \in Rows(s) : DateOf(i) = day => facts[i].at < base + Noon
      PROVE  /\ stamp <= Now + 1
             /\ \A i \in Rows(s) : /\ facts[i].at <= stamp
                                   /\ facts[i].at < Now => facts[i].at < stamp
  <2>1. ASSUME NEW i \in Rows(s)
        PROVE  facts[i].at <= stamp /\ facts[i].at < stamp
    <3> DEFINE at == facts[i].at
    <3>1. at \in Nat /\ (at < base + Noon \/ at < base)
      BY <1>3, <1>5, <1>6, <2>1
    <3> HIDE DEF at, base, stamp
    <3>2. at < stamp /\ at <= stamp
      BY <1>1, <1>4, <1>6, <3>1
    <3> QED BY <3>2 DEF at
  <2> HIDE DEF stamp, base
  <2>2. stamp <= Now + 1
    BY <1>1, <1>2, <1>4, <1>6
  <2> QED BY <2>1, <2>2
<1>7. ASSUME NEW z \in Rows(s), DateOf(z) = day,
             \A i \in Rows(s) : DateOf(i) = day => facts[i].at <= facts[z].at,
             stamp = IF (facts[z].at + 1) \div Span = day THEN facts[z].at + 1 ELSE facts[z].at
      PROVE  /\ stamp <= Now + 1
             /\ \A i \in Rows(s) : /\ facts[i].at <= stamp
                                   /\ facts[i].at < Now => facts[i].at < stamp
  <2> DEFINE last == facts[z].at
  <2>1. last \in Nat /\ last <= Now /\ base <= last /\ last < base + Span
    BY <1>3, <1>5, <1>7
  <2>2. last + 1 < base + Span => (last + 1) \div Span = day
    <3>1. last + 1 \in Nat
      BY <2>1
    <3> HIDE DEF last
    <3> QED BY <1>1, <2>1, <3>1, InstantsOfDay
  <2>3. stamp = last + 1 \/ (stamp = last /\ last = base + Span - 1)
    <3>1. stamp = IF (last + 1) \div Span = day THEN last + 1 ELSE last
      BY <1>7
    <3>2. last + 1 < base + Span \/ last = base + Span - 1
      <4> HIDE DEF base, last
      <4> QED BY <1>1, <2>1
    <3> HIDE DEF base, last, stamp
    <3> QED BY <2>2, <3>1, <3>2
  <2>4. ASSUME NEW i \in Rows(s)
        PROVE  facts[i].at <= stamp /\ (facts[i].at < Now => facts[i].at < stamp)
    <3> DEFINE at == facts[i].at
    <3>1. at \in Nat /\ (at <= last \/ at < base)
      BY <1>3, <1>5, <1>7, <2>4
    <3> HIDE DEF last, base, stamp, at
    <3>2. at <= stamp /\ (at < Now => at < stamp)
      BY <1>1, <1>2, <1>4, <2>1, <2>3, <3>1
    <3> QED BY <3>2 DEF at
  <2>5. stamp <= Now + 1
    <3> HIDE DEF last, base, stamp
    <3> QED BY <1>1, <1>2, <1>4, <2>1, <2>3
  <2> QED BY <2>4, <2>5
<1>8. \/ /\ stamp = base + Noon
         /\ \A i \in Rows(s) : DateOf(i) = day => facts[i].at < base + Noon
      \/ \E z \in Rows(s) :
           /\ DateOf(z) = day
           /\ \A i \in Rows(s) : DateOf(i) = day => facts[i].at <= facts[z].at
           /\ stamp = IF (facts[z].at + 1) \div Span = day THEN facts[z].at + 1 ELSE facts[z].at
  <2> HIDE DEF JournalRows
  <2> QED BY <1>1, StampFrom
<1> HIDE DEF stamp, base
<1>9. /\ stamp <= Now + 1
      /\ \A i \in Rows(s) : /\ facts[i].at <= stamp
                            /\ facts[i].at < Now => facts[i].at < stamp
  BY <1>6, <1>7, <1>8
<1> QED BY <1>4, <1>9 DEF stamp

LEMMA RowIsTimely ==
    ASSUME WorkFromNoon, Inv, Timely, NEW row, Writes(row)
    PROVE  /\ row.at \in Nat /\ row.at <= Now + 1
           /\ row.fact \in ByTheClock => row.at = Now
           /\ row.fact # "retracted" =>
                \A i \in Rows(row.subject) :
                    /\ facts[i].at <= row.at
                    /\ facts[i].fact \in ByTheClock /\ row.fact \in Advancing => facts[i].at < row.at
<1> DEFINE s == row.subject
           stamp == StampAfter(s, day)
<1>1. Now \in Nat /\ hour < Span /\ day \in Nat
  BY NowIs DEF Writes, Inv, TypeInv
<1>2. /\ stamp \in Nat /\ stamp <= Now + 1
      /\ \A i \in Rows(s) : /\ facts[i].at <= stamp
                            /\ facts[i].at < Now => facts[i].at < stamp
  BY <1>1, StampIsTimely
<1>3. \A i \in Rows(s) : /\ facts[i].at <= Now
                         /\ facts[i].fact \in ByTheClock => facts[i].at < Now
  BY DEF Timely, Rows
<1>4. CASE row.fact \in ByTheClock \cup {"retracted"}
  <2>1. row.at = Now /\ row.fact \notin Advancing
    BY <1>4 DEF Writes, Written, ByTheClock, Overriding, Advancing
  <2> QED BY <1>1, <1>3, <2>1
<1>5. CASE row.fact \in Advancing \cup {"cycle_opened"}
  <2>1. row.fact \notin ByTheClock
    BY <1>5 DEF ByTheClock, Overriding, Advancing
  <2>2. row.at = stamp
    <3>1. row.at = stamp \/ \E ahead \in Resumptions : row.at = StampAfter(s, day + ahead)
      BY <1>5 DEF Writes, Written, ByTheClock, Overriding, Advancing
    <3>2. \A ahead \in Resumptions : day + ahead = day
      BY <1>1 DEF WorkFromNoon
    <3> QED BY <3>1, <3>2
  <2> HIDE DEF stamp
  <2> QED BY <1>2, <1>3, <2>1, <2>2
<1>6. row.fact \in ByTheClock \cup {"retracted"} \cup Advancing \cup {"cycle_opened"}
  BY DEF Writes, Written, ByTheClock
<1> QED BY <1>4, <1>5, <1>6

LEMMA NextDayIsLater ==
    ASSUME NEW b \in Nat, NEW w \in Nat, NEW h \in Nat, NEW k \in Nat, h <= w
    PROVE  b + w + k >= b + h /\ b + w + k \in Nat /\ b + h \in Nat
OBVIOUS

LEMMA StepIsTimely ==
    ASSUME WorkFromNoon, Inv, Timely, [Next]_vars
    PROVE  Timely'
<1>1. /\ day \in Nat /\ hour \in 0..Span /\ Span \in Nat /\ Noon \in 1..(Span - 1)
      /\ hour >= Noon - 1
  BY FollowUpAssumption DEF Inv, TypeInv, Timely
<1>2. /\ facts \in Seq(JournalRows) /\ \A i \in DOMAIN facts : facts[i].at \in Nat
      /\ day * Span \in Nat
  BY <1>1, JournalShape DEF Inv, TypeInv, SoundJournal
<1>3. CASE Passes
  <2>1. facts' = facts /\ hour' >= Noon - 1 /\ Now' >= Now /\ Now' \in Nat /\ Now \in Nat
    <3>1. CASE day' = day /\ hour' = hour
      BY <1>1, <1>2, <1>3, <3>1 DEF Passes, Now
    <3>2. CASE day' = day + 1 /\ hour' \in Starts
      <4>1. hour' \in (Noon - 1)..(Span - 1)
        BY <3>2 DEF WorkFromNoon
      <4>2. (day + 1) * Span = day * Span + Span
        BY <1>1
      <4>3. hour' \in Nat /\ hour' >= Noon - 1
        BY <1>1, <4>1
      <4>4. Now' = (day + 1) * Span + hour' /\ Now = day * Span + hour
        BY <3>2 DEF Now
      <4>5. /\ day * Span + Span + hour' >= day * Span + hour
            /\ day * Span + Span + hour' \in Nat /\ day * Span + hour \in Nat
        <5>1. hour \in Nat /\ hour <= Span
          BY <1>1
        <5> QED BY <1>1, <1>2, <4>3, <5>1, NextDayIsLater
      <4> QED BY <1>3, <4>2, <4>3, <4>4, <4>5 DEF Passes
    <3> QED BY <1>3, <3>1, <3>2 DEF Passes
  <2>2. ASSUME NEW i \in DOMAIN facts
        PROVE  facts[i].at <= Now' /\ (facts[i].fact \in ByTheClock => facts[i].at < Now')
    <3>1. facts[i].at \in Nat /\ facts[i].at <= Now
          /\ (facts[i].fact \in ByTheClock => facts[i].at < Now)
      BY <1>2, <2>2 DEF Timely
    <3> QED BY <2>1, <3>1
  <2> QED BY <2>1, <2>2 DEF Timely
<1>4. ASSUME NEW row, Writes(row) PROVE Timely'
  <2>1. hour' = hour + 1 /\ Now' = Now + 1 /\ Now \in Nat
    BY <1>1, <1>2, <1>4 DEF Writes, Now
  <2>2. /\ DOMAIN facts' = DOMAIN facts \cup {Len(facts) + 1} /\ facts'[Len(facts) + 1] = row
        /\ \A i \in DOMAIN facts : facts'[i] = facts[i]
    BY <1>4, WriteIs
  <2>3. /\ row.at \in Nat /\ row.at <= Now + 1
        /\ row.fact \in ByTheClock => row.at = Now
    BY <1>4, RowIsTimely
  <2>4. ASSUME NEW i \in DOMAIN facts'
        PROVE  facts'[i].at <= Now' /\ (facts'[i].fact \in ByTheClock => facts'[i].at < Now')
    <3>1. CASE i \in DOMAIN facts
      <4>1. /\ facts'[i] = facts[i] /\ facts[i].at \in Nat /\ facts[i].at <= Now
            /\ (facts[i].fact \in ByTheClock => facts[i].at < Now)
        BY <1>2, <2>2, <3>1 DEF Timely
      <4> QED BY <2>1, <4>1
    <3>2. CASE i = Len(facts) + 1
      BY <2>1, <2>2, <2>3, <3>2
    <3> QED BY <2>2, <3>1, <3>2
  <2>5. hour' >= Noon - 1
    BY <1>1, <2>1
  <2> QED BY <2>4, <2>5 DEF Timely
<1> QED BY <1>3, <1>4, StepWrites

LEMMA StepIsInTurn ==
    ASSUME WorkFromNoon, Inv, Timely, InTurn, [Next]_vars
    PROVE  InTurn'
<1>1. CASE Passes
  <2>1. facts' = facts
    BY <1>1 DEF Passes
  <2> QED BY <2>1 DEF InTurn, InTurnIn, TrueRows, RowsOf
<1>2. ASSUME NEW row, Writes(row), NEW t \in Subjects PROVE InTurnIn(facts', t)
  <2> DEFINE A == TrueRows(facts, t)
             n == Len(facts) + 1
  <2>1. /\ facts \in Seq(JournalRows) /\ TrueAfter(facts, row, facts') /\ n \in Nat
        /\ facts'[n] = row /\ \A i \in DOMAIN facts : facts'[i] = facts[i] /\ i < n
    BY <1>2, WriteIs
  <2>2. A \subseteq DOMAIN facts /\ A \subseteq Rows(t) /\ InTurnIn(facts, t)
    BY <1>2, TrueRowsAre DEF InTurn, TrueRows, RowsOf, Rows
  <2>3. \A i, j \in A : i < j =>
          /\ facts'[i].at <= facts'[j].at
          /\ facts'[i].fact \in ByTheClock /\ facts'[j].fact \in Advancing =>
               facts'[i].at < facts'[j].at
    BY <2>1, <2>2 DEF InTurnIn, ByTheClock
  <2>4. CASE t # row.subject \/ row.fact = "retracted"
    <3>1. TrueRows(facts', t) \subseteq A
      BY <2>1, <2>4 DEF TrueAfter
    <3> QED BY <2>3, <3>1 DEF InTurnIn, ByTheClock
  <2>5. CASE t = row.subject /\ row.fact # "retracted"
    <3>1. TrueRows(facts', t) = A \cup {n}
      BY <2>1, <2>5 DEF TrueAfter
    <3>2. \A i \in A : /\ i < n /\ ~(n < i) /\ ~(n < n)
                       /\ facts'[i].at <= facts'[n].at
                       /\ facts'[i].fact \in ByTheClock /\ facts'[n].fact \in Advancing =>
                            facts'[i].at < facts'[n].at
      <4>1. \A i \in A : /\ facts[i].at <= row.at
                         /\ facts[i].fact \in ByTheClock /\ row.fact \in Advancing =>
                              facts[i].at < row.at
        BY <1>2, <2>2, <2>5, RowIsTimely
      <4>2. \A i \in A : i \in Nat
        BY TrueRowsAre, <2>1
      <4> QED BY <2>1, <2>2, <4>1, <4>2
    <3> DEFINE g == facts'
    <3> HIDE DEF A, n, g
    <3>3. ASSUME NEW i \in A \cup {n}, NEW j \in A \cup {n}, i < j
          PROVE  /\ g[i].at <= g[j].at
                 /\ g[i].fact \in ByTheClock /\ g[j].fact \in Advancing => g[i].at < g[j].at
      <4>1. ~(n < n)
        BY <2>1 DEF n
      <4>2. CASE i \in A /\ j \in A
        BY <2>3, <3>3, <4>2 DEF g
      <4>3. CASE i \in A /\ j = n
        BY <3>2, <4>3 DEF g
      <4>4. CASE i = n
        BY <3>2, <3>3, <4>1, <4>4
      <4> QED BY <4>2, <4>3, <4>4
    <3> QED BY <3>1, <3>3 DEF InTurnIn, ByTheClock, g
  <2> QED BY <2>4, <2>5
<1>3. CASE \E row : Writes(row)
  BY <1>2, <1>3 DEF InTurn, InTurnIn
<1> QED BY <1>1, <1>3, StepWrites

LEMMA TimelyAtFirst ==
    ASSUME WorkFromNoon, Init
    PROVE  Timely /\ InTurn
<1>1. facts = <<>> /\ hour \in (Noon - 1)..(Span - 1)
  BY DEF WorkFromNoon, Init
<1>2. hour >= Noon - 1
  BY <1>1, FollowUpAssumption
<1> QED BY <1>1, <1>2 DEF Timely, InTurn, InTurnIn, TrueRows, RowsOf

-----------------------------------------------------------------------------
(* The journal amounts to a pile of gestures, and where a series stands    *)
(* and the day put by hand are read off the top of it, in every behaviour  *)
(* whose stamps are in the order of the gestures: rows never removed,      *)
(* retractions that are rows, sorting by stamp and the cover of the last   *)
(* advance come to doing and undoing the last gesture.                     *)
THEOREM InTurnIsAPile == Spec /\ []InTurn => ImplementsPromise
<1>1. Inv /\ Inv' /\ InTurn /\ InTurn' /\ [Next]_vars => [Promise!Next]_(Promise!promise)
  BY StepKeepsPromise
<1> QED BY <1>1, InitKeepsPromise, Invariance, PTL DEF Spec, ImplementsPromise, Promise!Spec

LEMMA AlwaysInTurn == ASSUME WorkFromNoon PROVE Spec => []InTurn
<1>1. Init => Timely /\ InTurn
  BY TimelyAtFirst
<1>2. Inv /\ Timely /\ InTurn /\ [Next]_vars => Timely' /\ InTurn'
  BY StepIsTimely, StepIsInTurn
<1> QED BY <1>1, <1>2, Invariance, PTL DEF Spec

(* It is so whoever sits down to work just before noon or later, and       *)
(* resumes conversations on the day itself: the two clocks that put the    *)
(* stamps, noon of the day for what advances and the instant for the rest, *)
(* then agree.                                                             *)
THEOREM JournalIsAPile == ASSUME WorkFromNoon PROVE Spec => ImplementsPromise
BY InTurnIsAPile, AlwaysInTurn, PTL

-----------------------------------------------------------------------------
(* The cycle a row is of, and the moments passed before it in that cycle:  *)
(* read off the rows below it, which stay while it does.                   *)

Under(f, s, i) == {j \in TrueRows(f, s) : j < i}
OpenedUnder(f, s, i) == {j \in Under(f, s, i) : f[j].fact = "cycle_opened"}
CycleAt(f, s, i) == IF OpenedUnder(f, s, i) = {} THEN 0 ELSE LastIn(f, OpenedUnder(f, s, i))
PassedUnder(f, s, i) ==
    {j \in Under(f, s, i) : /\ OpenedUnder(f, s, i) # {} => Prec(f, CycleAt(f, s, i), j)
                            /\ f[j].fact \in Advancing}

(* A row is of the same cycle, with the same moments passed before it.     *)
SamePlace(f, g, s, i) ==
    /\ g[i] = f[i] /\ CycleAt(g, s, i) = CycleAt(f, s, i)
    /\ PassedUnder(g, s, i) = PassedUnder(f, s, i)

LEMMA PlaceOfUnder ==
    ASSUME NEW f \in Seq(JournalRows), NEW g \in Seq(JournalRows), NEW s, NEW i,
           Under(g, s, i) = Under(f, s, i), \A j \in Under(f, s, i) : g[j] = f[j]
    PROVE  /\ CycleAt(g, s, i) = CycleAt(f, s, i)
           /\ PassedUnder(g, s, i) = PassedUnder(f, s, i)
<1> DEFINE O == OpenedUnder(f, s, i)
<1>1. OpenedUnder(g, s, i) = O /\ O \subseteq DOMAIN f /\ O \subseteq DOMAIN g
  BY DEF OpenedUnder, Under, TrueRows, RowsOf
<1>2. O \subseteq Under(f, s, i) /\ \A j \in O : g[j] = f[j]
  BY DEF OpenedUnder
<1> HIDE DEF O, JournalRows
<1>3. O # {} => LastIn(g, O) = LastIn(f, O) /\ LastIn(f, O) \in O
  BY <1>1, <1>2, LastStays, LastIsIn
<1>4. CycleAt(g, s, i) = CycleAt(f, s, i)
  BY <1>1, <1>3 DEF CycleAt, O
<1>5. O # {} => CycleAt(f, s, i) \in O
  BY <1>3 DEF CycleAt, O
<1>6. \A j \in Under(f, s, i) : O # {} =>
        (Prec(g, CycleAt(f, s, i), j) <=> Prec(f, CycleAt(f, s, i), j))
  BY <1>2, <1>5 DEF Prec
<1> QED BY <1>1, <1>4, <1>6 DEF PassedUnder, O

LEMMA CycleIsUnder ==
    ASSUME NEW f \in Seq(JournalRows), NEW s, NEW i
    PROVE  CycleAt(f, s, i) = 0 \/ CycleAt(f, s, i) \in OpenedUnder(f, s, i)
<1>1. OpenedUnder(f, s, i) \subseteq DOMAIN f
  BY DEF OpenedUnder, Under, TrueRows, RowsOf
<1> HIDE DEF JournalRows
<1> QED BY <1>1, LastIsIn DEF CycleAt

(* The row to come is of the cycle entered, at its position.               *)
LEMMA PlaceToCome ==
    ASSUME NEW f \in Seq(JournalRows), NEW s
    PROVE  /\ CycleAt(f, s, Len(f) + 1) = Entered(f, s)
           /\ PassedUnder(f, s, Len(f) + 1) = Advances(f, s)
<1> DEFINE n == Len(f) + 1
<1>1. Under(f, s, n) = TrueRows(f, s)
  <2>1. \A j \in TrueRows(f, s) : j < n
    BY TrueRowsAre, JournalShape
  <2> QED BY <2>1 DEF Under
<1> HIDE DEF n
<1>2. OpenedUnder(f, s, n) = Openings(f, s)
  BY <1>1 DEF OpenedUnder, Openings
<1>3. CycleAt(f, s, n) = Entered(f, s)
  BY <1>2 DEF CycleAt, Entered
<1>4. PassedUnder(f, s, n) = Advances(f, s)
  BY <1>1, <1>2, <1>3 DEF PassedUnder, Advances, Since
<1> QED BY <1>3, <1>4 DEF n

(* A draft that the last advance does not cover, and any later one, are of *)
(* the cycle entered and of its position.                                  *)
LEMMA PlaceOfStanding ==
    ASSUME NEW f \in Seq(JournalRows), NEW s, InTurnIn(f, s),
           NEW i \in Since(f, s), f[i].fact = "draft_prepared", Stands(f, s, i),
           NEW d \in TrueRows(f, s), i <= d
    PROVE  /\ CycleAt(f, s, d) = Entered(f, s)
           /\ PassedUnder(f, s, d) = Advances(f, s)
<1> DEFINE A == TrueRows(f, s)
           L == LastIn(f, Advances(f, s))
<1>1. Since(f, s) \subseteq A /\ Openings(f, s) \subseteq A /\ Advances(f, s) \subseteq A
  BY DEF Since, Openings, Advances
<1>2. \A j \in A : j \in Nat /\ f[j].at \in Nat
  BY TrueRowsAre, JournalShape
<1>3. ASSUME NEW j \in Openings(f, s) PROVE j < d
  <2>1. j <= Entered(f, s) /\ Entered(f, s) \in A
    BY <1>1, <1>3, LastIsGreatest DEF Entered
  <2>2. Entered(f, s) < i
    BY <1>1, <1>3, <2>1, PrecIsBefore DEF Since
  <2>3. j \in Nat /\ Entered(f, s) \in Nat /\ i \in Nat /\ d \in Nat
    BY <1>1, <1>2, <1>3, <2>1
  <2> QED BY <2>1, <2>2, <2>3
<1>4. ASSUME NEW j \in Advances(f, s) PROVE j < d
  <2>1. L \in Advances(f, s) /\ j <= L
    BY <1>1, <1>4, LastIsGreatest
  <2>2. f[i].at >= f[L].at
    BY <1>4 DEF Stands
  <2>3. f[L].fact \in Advancing /\ L \in A /\ i \in A /\ j \in A
    BY <1>1, <1>4, <2>1 DEF Advances
  <2>4. i # L
    BY <2>3 DEF Advancing
  <2>5. i < L => f[i].at < f[L].at
    BY <2>3 DEF InTurnIn
  <2>6. j \in Nat /\ L \in Nat /\ i \in Nat /\ d \in Nat /\ f[i].at \in Nat /\ f[L].at \in Nat
    BY <1>2, <2>3
  <2> HIDE DEF L
  <2> QED BY <2>1, <2>2, <2>4, <2>5, <2>6
<1>5. OpenedUnder(f, s, d) = Openings(f, s)
  BY <1>1, <1>3 DEF OpenedUnder, Openings, Under
<1>6. CycleAt(f, s, d) = Entered(f, s)
  BY <1>5 DEF CycleAt, Entered
<1>7. PassedUnder(f, s, d) = Advances(f, s)
  <2>1. PassedUnder(f, s, d) = {j \in Advances(f, s) : j < d}
    BY <1>5, <1>6 DEF PassedUnder, Under, Advances, Since
  <2> QED BY <1>4, <2>1
<1> QED BY <1>6, <1>7

(* A step leaves the place of the rows that stay true.                     *)
LEMMA PlacesStay ==
    ASSUME Inv, InTurn, NEW row, Writes(row), NEW s \in Subjects,
           NEW i \in TrueRows(facts', s), i # Len(facts) + 1
    PROVE  i \in TrueRows(facts, s) /\ SamePlace(facts, facts', s, i)
<1> DEFINE A == TrueRows(facts, s)
           f == facts
           g == facts'
           n == Len(facts) + 1
<1>1. /\ facts \in Seq(JournalRows) /\ facts' \in Seq(JournalRows)
      /\ TrueAfter(facts, row, facts') /\ n \in Nat
      /\ \A j \in DOMAIN facts : facts'[j] = facts[j] /\ j < n
      /\ row.fact = "retracted" =>
           /\ TrueRows(facts, row.subject) # {}
           /\ row.retracts = LastIn(facts, TrueRows(facts, row.subject))
  BY WriteIs
<1>2. /\ A \subseteq DOMAIN facts /\ \A j \in A : j \in Nat /\ j < n /\ g[j] = f[j]
  BY <1>1, TrueRowsAre
<1>3. i \in A /\ Under(g, s, i) = Under(f, s, i)
  <2>1. CASE s # row.subject
    <3>1. TrueRows(g, s) = A
      BY <1>1, <2>1 DEF TrueAfter
    <3> QED BY <3>1 DEF Under
  <2>2. CASE s = row.subject /\ row.fact # "retracted"
    <3>1. TrueRows(g, s) = A \cup {n}
      BY <1>1, <2>2 DEF TrueAfter
    <3>2. i \in A /\ ~(n < i)
      BY <1>1, <1>2, <3>1
    <3> QED BY <3>1, <3>2 DEF Under
  <2>3. CASE s = row.subject /\ row.fact = "retracted"
    <3> DEFINE z == LastIn(facts, A)
    <3>1. TrueRows(g, s) = A \ {z} /\ A # {}
      BY <1>1, <2>3 DEF TrueAfter
    <3>2. z \in A /\ \A j \in A : j <= z
      BY <1>1, <3>1, LastIsGreatest DEF InTurn
    <3>3. i \in A /\ i <= z /\ z \in Nat /\ i \in Nat
      BY <1>2, <3>1, <3>2
    <3>4. ~(z < i)
      BY <3>3
    <3> HIDE DEF z
    <3> QED BY <3>1, <3>3, <3>4 DEF Under
  <2> QED BY <2>1, <2>2, <2>3
<1>4. \A j \in Under(f, s, i) : g[j] = f[j]
  BY <1>2 DEF Under
<1> HIDE DEF JournalRows
<1>5. CycleAt(g, s, i) = CycleAt(f, s, i) /\ PassedUnder(g, s, i) = PassedUnder(f, s, i)
  BY <1>1, <1>3, <1>4, PlaceOfUnder
<1> QED BY <1>2, <1>3, <1>5 DEF SamePlace

(* The row a step writes is of the cycle entered, at its position.         *)
LEMMA PlaceOfNew ==
    ASSUME Inv, NEW row, Writes(row), row.fact # "retracted"
    PROVE  LET s == row.subject
               n == Len(facts) + 1
           IN  /\ n \in TrueRows(facts', s) /\ facts'[n] = row
               /\ CycleAt(facts', s, n) = Entered(facts, s)
               /\ PassedUnder(facts', s, n) = Advances(facts, s)
<1> DEFINE s == row.subject
           A == TrueRows(facts, s)
           f == facts
           g == facts'
           n == Len(facts) + 1
<1>1. /\ facts \in Seq(JournalRows) /\ facts' \in Seq(JournalRows)
      /\ TrueAfter(facts, row, facts') /\ n \in Nat /\ facts'[n] = row
      /\ \A j \in DOMAIN facts : facts'[j] = facts[j] /\ j < n
  BY WriteIs
<1>2. \A j \in A : j < n /\ g[j] = f[j]
  BY <1>1, TrueRowsAre
<1>3. TrueRows(g, s) = A \cup {n} /\ ~(n < n)
  BY <1>1 DEF TrueAfter
<1>4. Under(g, s, n) = Under(f, s, n) /\ \A j \in Under(f, s, n) : g[j] = f[j]
  BY <1>2, <1>3 DEF Under
<1> HIDE DEF JournalRows
<1>5. CycleAt(g, s, n) = CycleAt(f, s, n) /\ PassedUnder(g, s, n) = PassedUnder(f, s, n)
  BY <1>1, <1>4, PlaceOfUnder
<1>6. CycleAt(f, s, n) = Entered(f, s) /\ PassedUnder(f, s, n) = Advances(f, s)
  BY <1>1, PlaceToCome
<1> QED BY <1>1, <1>3, <1>5, <1>6

-----------------------------------------------------------------------------
(* What a step files, and what cycles it enters.                           *)

LEMMA StepFiles ==
    ASSUME Inv, [Next]_vars, NEW y \in filed' \ filed
    PROVE  /\ promised' = promised
           /\ \E row : /\ Writes(row) /\ row.fact = "marked_sent"
                       /\ y.subject = row.subject /\ y.fact = Len(facts) + 1
                       /\ y.moment = Moment(row.subject).key
<1>1. ASSUME NEW s \in Subjects, MarkSent(s)
      PROVE  /\ promised' = promised
             /\ \E row : /\ Writes(row) /\ row.fact = "marked_sent"
                         /\ y.subject = row.subject /\ y.fact = Len(facts) + 1
                         /\ y.moment = Moment(row.subject).key
  <2>1. PICK row : Writes(row) /\ row.subject = s /\ row.fact = "marked_sent"
    BY <1>1, MarkSentWrites
  <2>2. /\ promised' = promised
        /\ filed' = filed \cup (IF s \in Invoices THEN {}
                                ELSE {[fact |-> NewId, subject |-> s, moment |-> Moment(s).key]})
    BY <1>1 DEF MarkSent
  <2>3. y = [fact |-> NewId, subject |-> s, moment |-> Moment(s).key]
    BY <2>2
  <2> QED BY <2>1, <2>2, <2>3 DEF NewId
<1>2. CASE \E s \in Subjects :
             \/ Prepare(s) \/ MarkSent(s) \/ Skip(s) \/ RetractLast(s)
             \/ \E fact \in Overriding, d \in Days : PutDate(s, fact, d)
  <2>1. PICK s \in Subjects :
             \/ Prepare(s) \/ MarkSent(s) \/ Skip(s) \/ RetractLast(s)
             \/ \E fact \in Overriding, d \in Days : PutDate(s, fact, d)
    BY <1>2
  <2>2. Prepare(s) \/ Skip(s) \/ RetractLast(s) => filed' \subseteq filed
    BY DEF Prepare, Skip, RetractLast
  <2>3. (\E fact \in Overriding, d \in Days : PutDate(s, fact, d)) => filed' \subseteq filed
    BY DEF PutDate
  <2> QED BY <1>1, <2>1, <2>2, <2>3
<1>3. CASE \E c \in Conversations : \E ahead \in Resumptions : ReopenOpportunity(c, day + ahead)
  BY <1>3 DEF ReopenOpportunity
<1>4. CASE \E series \in Arrangements : Arrange(series)
  BY <1>4 DEF Arrange
<1>5. CASE \E c \in Conversations : \E d \in Days : Create(c, d) \/ AdvanceOpportunity(c, d)
  BY <1>5 DEF Create, AdvanceOpportunity, EditFiche
<1>6. CASE \E c \in Conversations : \E next \in Days \cup {None} : UpdateOpportunity(c, next)
  BY <1>6 DEF UpdateOpportunity, EditFiche
<1>7. CASE \E c \in Conversations : \E stage \in {"won", "lost"} : CloseOpportunity(c, stage)
  BY <1>7 DEF CloseOpportunity
<1>8. CASE \E c \in Conversations : \E archived \in BOOLEAN : ArchiveOpportunity(c, archived)
  BY <1>8 DEF ArchiveOpportunity
<1>9. CASE \E c \in Conversations : DeleteOpportunity(c)
  BY <1>9 DEF DeleteOpportunity
<1>10. CASE \E x \in filed : DeleteInteraction(x)
  BY <1>10 DEF DeleteInteraction
<1>11. CASE \E i \in Invoices : Settle(i)
  BY <1>11 DEF Settle
<1>12. CASE \E h \in Starts : NextDay(h)
  BY <1>12 DEF NextDay
<1>13. CASE UNCHANGED vars
  BY <1>13 DEF vars
<1> QED
  BY <1>2, <1>3, <1>4, <1>5, <1>6, <1>7, <1>8, <1>9, <1>10, <1>11, <1>12, <1>13 DEF Next

(* A cycle to be finished was one already, or begins: a conversation       *)
(* created, of which nothing is written, or resumed, by the row written.   *)
Created(x) == facts' = facts /\ Rows(x.subject) = {}
Resumed(x) == \E row : /\ Writes(row) /\ row.subject = x.subject /\ row.fact = "cycle_opened"
                       /\ x.cycle = Len(facts) + 1
WasPromised(x) == \E z \in promised : z.subject = x.subject /\ z.cycle = x.cycle /\ z.steps = x.steps

LEMMA StepPromises ==
    ASSUME Inv, [Next]_vars, NEW x \in promised'
    PROVE  WasPromised(x) \/ Created(x) \/ Resumed(x)
<1>1. promised' = promised => WasPromised(x)
  BY DEF WasPromised
<1>2. CASE \E s \in Subjects :
             \/ Prepare(s) \/ MarkSent(s) \/ Skip(s) \/ RetractLast(s)
             \/ \E fact \in Overriding, d \in Days : PutDate(s, fact, d)
  BY <1>1, <1>2 DEF Prepare, MarkSent, Skip, RetractLast, PutDate, history
<1>3. ASSUME NEW c \in Conversations, NEW ahead \in Resumptions,
             ReopenOpportunity(c, day + ahead)
      PROVE  WasPromised(x) \/ Resumed(x)
  <2>1. PICK row : Writes(row) /\ row.subject = c /\ row.fact = "cycle_opened"
    BY <1>3, ReopenWrites
  <2>2. promised' = promised \cup {Entering(c, NewId)}
    BY <1>3 DEF ReopenOpportunity
  <2>3. CASE x \in promised
    BY <2>3 DEF WasPromised
  <2>4. CASE x = Entering(c, NewId)
    BY <2>1, <2>4 DEF Resumed, Entering, NewId
  <2> QED BY <2>2, <2>3, <2>4
<1>4. CASE \E series \in Arrangements : Arrange(series)
  <2>1. PICK y \in promised : x = [y EXCEPT !.kept = TRUE]
    BY <1>4 DEF Arrange
  <2>2. y \in [subject : Conversations, cycle : Cycles, steps : Arrangements, kept : BOOLEAN]
    BY DEF Inv, TypeInv
  <2> QED BY <2>1, <2>2 DEF WasPromised
<1>5. ASSUME NEW c \in Conversations, NEW d \in Days, Create(c, d)
      PROVE  WasPromised(x) \/ Created(x)
  <2>1. promised' = promised \cup {Entering(c, 0)} /\ fiche[c].stage = "none" /\ facts' = facts
    BY <1>5 DEF Create
  <2>2. Rows(c) = {}
    BY <2>1 DEF Inv, NoneYet
  <2>3. CASE x \in promised
    BY <2>3 DEF WasPromised
  <2>4. CASE x = Entering(c, 0)
    BY <2>1, <2>2, <2>4 DEF Created, Entering
  <2> QED BY <2>1, <2>3, <2>4
<1>6. CASE \E c \in Conversations : \E d \in Days : AdvanceOpportunity(c, d)
  BY <1>1, <1>6 DEF AdvanceOpportunity, EditFiche
<1>7. CASE \E c \in Conversations : \E next \in Days \cup {None} : UpdateOpportunity(c, next)
  BY <1>1, <1>7 DEF UpdateOpportunity, EditFiche
<1>8. CASE \E c \in Conversations : \E stage \in {"won", "lost"} : CloseOpportunity(c, stage)
  BY <1>1, <1>8 DEF CloseOpportunity, history
<1>9. CASE \E c \in Conversations : \E archived \in BOOLEAN : ArchiveOpportunity(c, archived)
  BY <1>1, <1>9 DEF ArchiveOpportunity, history
<1>10. CASE \E c \in Conversations : DeleteOpportunity(c)
  BY <1>1, <1>10 DEF DeleteOpportunity, history
<1>11. CASE \E y \in filed : DeleteInteraction(y)
  BY <1>1, <1>11 DEF DeleteInteraction, history
<1>12. CASE \E i \in Invoices : Settle(i)
  BY <1>1, <1>12 DEF Settle, history
<1>13. CASE \E h \in Starts : NextDay(h)
  BY <1>1, <1>13 DEF NextDay, history
<1>14. CASE UNCHANGED vars
  BY <1>1, <1>14 DEF vars
<1>15. CASE \E c \in Conversations :
              \/ \E d \in Days : Create(c, d)
              \/ \E ahead \in Resumptions : ReopenOpportunity(c, day + ahead)
  BY <1>3, <1>5, <1>15
<1> QED
  BY <1>2, <1>4, <1>6, <1>7, <1>8, <1>9, <1>10, <1>11, <1>12, <1>13, <1>14, <1>15 DEF Next

-----------------------------------------------------------------------------
(* A draft is of the moment of its place in the series its cycle is to     *)
(* finish; a letter filed carries the draft of its moment, or none.        *)

MomentAt(x, f, i) == x.steps[Cardinality(PassedUnder(f, x.subject, i)) + 1]

DraftsAreTheirs ==
    \A x \in promised : \A i \in TrueRows(facts, x.subject) :
        facts[i].fact = "draft_prepared" /\ CycleAt(facts, x.subject, i) = x.cycle
        => facts[i].letter = MomentAt(x, facts, i).key

LettersAreTheirs ==
    \A x \in promised : \A y \in filed :
        y.subject = x.subject /\ CycleAt(facts, x.subject, y.fact) = x.cycle
        => facts[y.fact].letter \in {None, y.moment}

LEMMA MomentNowIs ==
    ASSUME Inv, NEW x \in promised, Entered(facts, x.subject) = x.cycle
    PROVE  Moment(x.subject) = x.steps[Cardinality(Advances(facts, x.subject)) + 1]
<1>1. EnteredCycle(x.subject) = x.cycle /\ AdvancesOf(x.subject) = Advances(facts, x.subject)
  BY ReadingIs
<1>2. x.subject \in Conversations
  BY DEF Inv, TypeInv
<1>3. Steps(x.subject) = x.steps
  BY <1>1, <1>2, StepsOfCycle DEF Inv
<1> QED BY <1>1, <1>3 DEF Moment, Position

(* The text a letter takes is that of the moment it is for.                *)
LEMMA DraftIsOfNow ==
    ASSUME Inv, InTurn, DraftsAreTheirs, NEW x \in promised,
           Entered(facts, x.subject) = x.cycle
    PROVE  DraftLetter(x.subject) \in {None, Moment(x.subject).key}
<1> DEFINE s == x.subject
           d == LastOf(Drafts(s))
<1>1. /\ facts \in Seq(JournalRows) /\ x.subject \in Subjects
  BY DEF Inv, TypeInv, SoundJournal, Subjects
<1>2. InTurnIn(facts, s)
  BY <1>1 DEF InTurn
<1>3. CASE ~Drafted(s)
  BY <1>3 DEF DraftLetter
<1>4. CASE Drafted(s)
  <2>1. PICK i \in Drafts(s) \cap InCycle(s) : Standing(s, i)
    BY <1>4 DEF Drafted
  <2>2. /\ Drafts(s) = {j \in TrueRows(facts, s) : facts[j].fact = "draft_prepared"}
        /\ InCycle(s) = Since(facts, s) /\ AdvancesOf(s) = Advances(facts, s)
    BY ReadingIs DEF Drafts
  <2>3. Stands(facts, s, i)
    <3>1. LastOf(Advances(facts, s)) = LastIn(facts, Advances(facts, s))
      BY DEF LastOf, LastIn, Before, Prec
    <3> QED BY <2>1, <2>2, <3>1 DEF Standing, Stands
  <2>4. d = LastIn(facts, Drafts(s))
    BY DEF LastOf, LastIn, Before, Prec
  <2>5. d \in Drafts(s) /\ i <= d
    BY <1>1, <1>2, <2>1, <2>2, <2>4, LastIsGreatest
  <2> HIDE DEF d
  <2>6. /\ i \in Since(facts, s) /\ facts[i].fact = "draft_prepared"
        /\ d \in TrueRows(facts, s) /\ facts[d].fact = "draft_prepared"
    BY <2>1, <2>2, <2>5
  <2>7. /\ CycleAt(facts, s, d) = Entered(facts, s)
        /\ PassedUnder(facts, s, d) = Advances(facts, s)
    BY <1>1, <1>2, <2>3, <2>5, <2>6, PlaceOfStanding
  <2>8. facts[d].letter = MomentAt(x, facts, d).key
    BY <2>6, <2>7 DEF DraftsAreTheirs
  <2>9. MomentAt(x, facts, d) = Moment(s)
    BY <2>7, MomentNowIs DEF MomentAt
  <2> QED BY <1>4, <2>8, <2>9 DEF DraftLetter, d
<1> QED BY <1>3, <1>4

(* A cycle that begins has no rows yet.                                    *)
LEMMA NothingInNewCycle ==
    ASSUME Inv, NEW x, Created(x) \/ Resumed(x), NEW i \in TrueRows(facts', x.subject)
    PROVE  CycleAt(facts', x.subject, i) # x.cycle
<1> DEFINE s == x.subject
<1>1. CASE Created(x)
  <2>1. Rows(s) = RowsOf(facts, s) /\ TrueRows(facts', s) = TrueRows(facts, s)
    BY <1>1, ReadingIs DEF Created
  <2> QED BY <1>1, <2>1 DEF Created, TrueRows
<1>2. CASE Resumed(x)
  <2> DEFINE n == Len(facts) + 1
  <2>1. PICK row : Writes(row) /\ row.subject = s /\ row.fact = "cycle_opened" /\ x.cycle = n
    BY <1>2 DEF Resumed
  <2>2. /\ facts' \in Seq(JournalRows) /\ n \in Nat /\ facts \in Seq(JournalRows)
        /\ DOMAIN facts' = DOMAIN facts \cup {n}
    BY <2>1, WriteIs
  <2>3. DOMAIN facts = 1..Len(facts) /\ Len(facts) \in Nat
    BY <2>2, JournalShape
  <2>4. i \in DOMAIN facts'
    BY DEF TrueRows, RowsOf
  <2>5. i \in Nat /\ i <= n /\ n # 0
    BY <2>2, <2>3, <2>4
  <2>6. CycleAt(facts', s, i) = 0 \/ CycleAt(facts', s, i) \in OpenedUnder(facts', s, i)
    <3> HIDE DEF JournalRows
    <3> QED BY <2>2, CycleIsUnder
  <2>7. \A j \in OpenedUnder(facts', s, i) : j < i
    BY DEF OpenedUnder, Under
  <2>8. n \notin OpenedUnder(facts', s, i)
    <3>1. ~(n < i)
      BY <2>2, <2>5
    <3> HIDE DEF n
    <3> QED BY <2>7, <3>1
  <2> QED BY <2>1, <2>5, <2>6, <2>8
<1> QED BY <1>1, <1>2

LEMMA StepKeepsDrafts ==
    ASSUME Inv, Inv', InTurn, DraftsAreTheirs, [Next]_vars
    PROVE  DraftsAreTheirs'
<1> SUFFICES ASSUME NEW x \in promised', NEW i \in TrueRows(facts', x.subject),
                    facts'[i].fact = "draft_prepared", CycleAt(facts', x.subject, i) = x.cycle
             PROVE  facts'[i].letter = MomentAt(x, facts', i).key
  BY ZenonT(60) DEF DraftsAreTheirs, TrueRows, RowsOf, CycleAt, OpenedUnder, PassedUnder, Under, LastIn, Prec,
         MomentAt
<1> DEFINE s == x.subject
           n == Len(facts) + 1
<1>1. PICK z \in promised : z.subject = s /\ z.cycle = x.cycle /\ z.steps = x.steps
  BY StepPromises, NothingInNewCycle DEF WasPromised
<1>2. s \in Subjects
  BY DEF Inv, TypeInv, Subjects
<1>3. CASE Passes
  BY <1>1, <1>3 DEF Passes, DraftsAreTheirs, MomentAt
<1>4. ASSUME NEW row, Writes(row) PROVE facts'[i].letter = MomentAt(x, facts', i).key
  <2>1. CASE i # n
    <3>1. i \in TrueRows(facts, s) /\ SamePlace(facts, facts', s, i)
      BY <1>2, <1>4, <2>1, PlacesStay
    <3>2. facts[i].letter = MomentAt(z, facts, i).key
      BY <1>1, <3>1 DEF DraftsAreTheirs, SamePlace
    <3> QED BY <1>1, <3>1, <3>2 DEF SamePlace, MomentAt
  <2>2. CASE i = n
    <3>1. facts'[n] = row
      BY <1>4, WriteIs
    <3>2. row.subject = s /\ row.fact = "draft_prepared"
      BY <2>2, <3>1 DEF TrueRows, RowsOf
    <3>3. row.letter = Moment(s).key
      BY <1>4, <3>2 DEF Writes, Written, Overriding, Advancing
    <3>4. /\ CycleAt(facts', s, n) = Entered(facts, s)
          /\ PassedUnder(facts', s, n) = Advances(facts, s)
      BY <1>4, <3>2, PlaceOfNew
    <3>5. Moment(s) = z.steps[Cardinality(Advances(facts, s)) + 1]
      BY <1>1, <2>2, <3>4, MomentNowIs
    <3> QED BY <1>1, <2>2, <3>1, <3>3, <3>4, <3>5 DEF MomentAt
  <2> QED BY <2>1, <2>2
<1> QED BY <1>3, <1>4, StepWrites

LEMMA StepKeepsLetters ==
    ASSUME Inv, Inv', InTurn, DraftsAreTheirs, LettersAreTheirs, [Next]_vars
    PROVE  LettersAreTheirs'
<1> SUFFICES ASSUME NEW x \in promised', NEW y \in filed',
                    y.subject = x.subject, CycleAt(facts', x.subject, y.fact) = x.cycle
             PROVE  facts'[y.fact].letter \in {None, y.moment}
  BY DEF LettersAreTheirs, TrueRows, RowsOf, CycleAt, OpenedUnder, Under, LastIn, Prec
<1> DEFINE s == x.subject
           n == Len(facts) + 1
<1>1. s \in Conversations /\ s \in Subjects
  BY DEF Inv, TypeInv, Subjects
<1>2. y.fact \in TrueRows(facts', s)
  <2>1. y.fact \in Active(s)'
    BY <1>1 DEF Inv, FiledInv
  <2> QED BY <2>1, NextReadingIs
<1>3. PICK z \in promised : z.subject = s /\ z.cycle = x.cycle /\ z.steps = x.steps
  BY <1>2, StepPromises, NothingInNewCycle DEF WasPromised
<1>4. CASE y \in filed
  <2>1. y.fact \in TrueRows(facts, s)
    <3>1. y.fact \in Active(s)
      BY <1>1, <1>4 DEF Inv, FiledInv
    <3> QED BY <3>1, ReadingIs
  <2>2. CASE Passes
    BY <1>3, <1>4, <2>2 DEF Passes, LettersAreTheirs
  <2>3. ASSUME NEW row, Writes(row) PROVE facts'[y.fact].letter \in {None, y.moment}
    <3>1. facts \in Seq(JournalRows) /\ \A j \in DOMAIN facts : j < n /\ j \in Nat
      BY <2>3, WriteIs, JournalShape
    <3>2. y.fact # n
      BY <2>1, <3>1, TrueRowsAre
    <3>3. SamePlace(facts, facts', s, y.fact)
      BY <1>1, <1>2, <2>3, <3>2, PlacesStay
    <3> QED BY <1>3, <1>4, <3>3 DEF SamePlace, LettersAreTheirs
  <2> QED BY <2>2, <2>3, StepWrites
<1>5. CASE y \notin filed
  <2>1. /\ promised' = promised
        /\ \E row : /\ Writes(row) /\ row.fact = "marked_sent"
                    /\ y.subject = row.subject /\ y.fact = n
                    /\ y.moment = Moment(row.subject).key
    BY <1>5, StepFiles
  <2>2. PICK row : /\ Writes(row) /\ row.fact = "marked_sent" /\ row.subject = s
                   /\ y.fact = n /\ y.moment = Moment(s).key
    BY <2>1
  <2>3. facts'[n] = row /\ CycleAt(facts', s, n) = Entered(facts, s)
    BY <2>2, PlaceOfNew
  <2>4. row.letter \in {None, DraftLetter(s)}
    BY <2>2 DEF Writes, Written, Overriding, Advancing
  <2>5. DraftLetter(s) \in {None, Moment(s).key}
    BY <1>3, <2>2, <2>3, DraftIsOfNow
  <2> QED BY <2>2, <2>3, <2>4, <2>5
<1> QED BY <1>4, <1>5

LEMMA LettersFollow ==
    ASSUME Inv, LettersAreTheirs
    PROVE  LettersAreFiled
<1> SUFFICES ASSUME NEW c \in Conversations
             PROVE  /\ \A y \in filed : y.subject = c => y.fact \in Active(c)
                    /\ (\A k \in {0} \cup Reprises(c) :
                          \E x \in promised : x.subject = c /\ x.cycle = k) =>
                       \A y \in filed : y.subject = c => facts[y.fact].letter \in {None, y.moment}
  BY DEF LettersAreFiled
<1>1. \A y \in filed : y.subject = c => y.fact \in Active(c)
  BY DEF Inv, FiledInv
<1>2. ASSUME \A k \in {0} \cup Reprises(c) : \E x \in promised : x.subject = c /\ x.cycle = k,
             NEW y \in filed, y.subject = c
      PROVE  facts[y.fact].letter \in {None, y.moment}
  <2>1. facts \in Seq(JournalRows)
    BY DEF Inv, TypeInv, SoundJournal
  <2>2. CycleAt(facts, c, y.fact) \in {0} \cup OpenedUnder(facts, c, y.fact)
    <3> HIDE DEF JournalRows
    <3> QED BY <2>1, CycleIsUnder
  <2>3. OpenedUnder(facts, c, y.fact) \subseteq Reprises(c)
    BY ReadingIs DEF OpenedUnder, Under, Openings
  <2>4. PICK x \in promised : x.subject = c /\ x.cycle = CycleAt(facts, c, y.fact)
    BY <1>2, <2>2, <2>3
  <2> QED BY <1>2, <2>4 DEF LettersAreTheirs
<1> QED BY <1>1, <1>2

(* A letter filed with a conversation is one its journal still counts, and *)
(* it carries the draft of its own moment or none, however many letters    *)
(* were drafted, sent, undone and drafted again, in the conversations      *)
(* whose cycles all finish their series and in every behaviour whose       *)
(* stamps are in the order of the gestures.                                *)
THEOREM InTurnFilesLetters == Spec /\ []InTurn => []LettersAreFiled
<1>1. Init => DraftsAreTheirs /\ LettersAreTheirs
  BY DEF Init, DraftsAreTheirs, LettersAreTheirs
<1>2. Inv /\ Inv' /\ InTurn /\ DraftsAreTheirs /\ LettersAreTheirs /\ [Next]_vars
        => DraftsAreTheirs' /\ LettersAreTheirs'
  BY StepKeepsDrafts, StepKeepsLetters
<1>3. Inv /\ LettersAreTheirs => LettersAreFiled
  BY LettersFollow
<1> QED BY <1>1, <1>2, <1>3, Invariance, PTL DEF Spec

(* So it is when work starts just before noon or later.                    *)
THEOREM LettersFiled == ASSUME WorkFromNoon PROVE Spec => []LettersAreFiled
BY InTurnFilesLetters, AlwaysInTurn, PTL
=============================================================================
