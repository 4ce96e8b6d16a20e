---------------------------- MODULE ReleveProofs ----------------------------
(***************************************************************************)
(* Theorems on Releve, for any letters, dossiers, choices, size of the     *)
(* batches and number of faults. The invariant follows a letter from the   *)
(* folder to the mirror: whatever the cursor has passed, or will pass with *)
(* the batches at hand, is in the mirror or on its way there.              *)
(***************************************************************************)
EXTENDS Releve, SumLemmas, TLAPS

-----------------------------------------------------------------------------
(* The shape of the state.                                                 *)

Steps == {"clear", "rewind", "retain", "forget", "unfault", "unhold",
          "hold", "file", "mark", "insert", "body"}
Early == {"clear", "rewind", "retain", "forget", "unfault", "unhold"}
Late == {"hold", "file", "mark", "insert", "body"}

Cursors == [epoch : Nat, last : Nat]
Messages == [uid : Nat, mail : Mails \cup {None}, body : Bodies]
Batches == [epoch : Nat, resync : BOOLEAN, messages : Seq(Messages), examined : Nat,
            sweeps : BOOLEAN, keep : SUBSET Nat]
Rows == [uid : Nat, epoch : Nat, mail : Mails \cup {None}, body : Bodies,
         text : Mails \cup {None}]
Links == [client : Clients \cup {None}, dossier : Dossiers \cup {None}, hold : BOOLEAN]
Filings == [source : {None, "auto", "human"}, dossier : Dossiers \cup {None}]
Pulls == [pc : {"idle", "planned", "rewound", "prepared", "pulling", "pulled"},
          cursor : Cursors, kept : Scopes, gen : Nat, sweep : BOOLEAN, failed : BOOLEAN,
          queue : Seq(Batches)]
Fills == [pc : {"idle", "asked", "fetched"}, uids : Seq(Nat), epoch : Nat, queue : Seq(Batches)]
Jobs(gone, from) ==
    [by : {"pull", "fill"}, batch : Batches, open : SUBSET Dossiers, kept : Scopes, i : Nat,
     gone : {gone}, from : {from}, link : Links, todo : Seq(Steps)]
IsJob(j) == j \in Jobs(j.gone, j.from)

TypeInv ==
    /\ epoch \in Nat /\ box \in Seq(Mails)
    /\ kept \in Scopes /\ gen \in Nat /\ applied \in Nat
    /\ open \subseteq Dossiers /\ exists \subseteq Dossiers
    /\ filing \in [Mails -> Filings] /\ byHand \in Dossiers \cup {None}
    /\ rows \subseteq Rows /\ IsFiniteSet(rows) /\ cursor \in Cursors
    /\ pull \in Pulls /\ fill \in Fills
    /\ job = NoJob \/ IsJob(job)

(* The commits to come of a batch are in their order.                      *)
Ordered(j) ==
    /\ \/ Range(j.todo) \subseteq Early /\ j.i = 0
       \/ Range(j.todo) \subseteq Late /\ j.i \in 1..Len(j.batch.messages)
    /\ \A k \in 1..Len(j.todo) : k > 1 =>
          /\ j.todo[k] \notin {"clear", "hold"}
          /\ j.todo[k] = "rewind" => k = 2 /\ j.todo[1] = "clear"
    /\ "clear" \in Range(j.todo) => "rewind" \in Range(j.todo)
    /\ "rewind" \in Range(j.todo) => j.batch.resync
    /\ "retain" \in Range(j.todo) => j.batch.sweeps

(* A batch of a pull is the first of its queue; a body clears nothing.     *)
Quiet(b) == ~b.resync /\ ~b.sweeps
OfThePull ==
    job # NoJob =>
        IF job.by = "pull" THEN pull.pc = "pulling" /\ pull.queue # <<>> /\ job.batch = Head(pull.queue)
        ELSE Quiet(job.batch)
StageInv ==
    /\ job # NoJob => Ordered(job)
    /\ OfThePull
    /\ pull.pc # "pulling" => pull.queue = <<>> /\ ~pull.failed
    /\ \A k \in 1..Len(fill.queue) : Quiet(fill.queue[k])

Shape == TypeInv /\ StageInv
-----------------------------------------------------------------------------
(* What a batch, a row or a cursor says of the folder is so, as long as    *)
(* the folder keeps its numbers.                                           *)

TrueMessages(b) ==
    \A k \in 1..Len(b.messages) :
        b.messages[k].uid \in Uids /\ b.messages[k].mail = box[b.messages[k].uid]
TrueBatch(b) ==
    /\ b.epoch <= epoch
    /\ b.epoch = epoch => b.examined <= Len(box) /\ TrueMessages(b)
TrueRow(r) ==
    /\ r.epoch <= epoch
    /\ r.epoch = epoch => r.uid \in Uids /\ r.mail = box[r.uid] /\ (r.text # None => r.text = r.mail)
TrueInv ==
    /\ cursor.epoch <= epoch /\ fill.epoch <= epoch
    /\ \A r \in rows : TrueRow(r)
    /\ \A k \in 1..Len(pull.queue) : TrueBatch(pull.queue[k])
    /\ \A k \in 1..Len(fill.queue) : TrueBatch(fill.queue[k])
    /\ job # NoJob => TrueBatch(job.batch)
    /\ fill.epoch = epoch => \A k \in 1..Len(fill.uids) : fill.uids[k] \in Uids

(* A reply being filed held its dossier first.                             *)
Answers(m) == Human(m) /\ ~ToNoDossier(m)
FilesHeld ==
    job # NoJob /\ "file" \in Range(job.todo) /\ Answers(Msg.mail) /\ job.link.dossier # None =>
        "hold" \in Range(job.todo) \/ job.link.dossier \in hold \cup released
                                   \/ job.link.dossier \notin exists
HoldInv == RepliesHold /\ FilesHeld

-----------------------------------------------------------------------------
(* What the pull knows: a choice that is applied or is the one it pulls.   *)

ByPull == job # NoJob /\ job.by = "pull"
ChoiceInv ==
    /\ applied <= gen
    /\ pull.pc # "idle" => pull.gen <= gen /\ applied <= pull.gen /\ (pull.gen = gen => pull.kept = kept)
    /\ pull.pc \in {"prepared", "pulling"} => (pull.sweep <=> applied # pull.gen)
    /\ pull.pc = "rewound" => pull.kept = "all" /\ job = NoJob /\ cursor.last = 0
    /\ ByPull /\ pull.gen = gen => job.kept = kept
    /\ ~moved /\ pull.pc \in {"planned", "rewound", "prepared"} => pull.cursor = cursor

(* The batches of a pull are of one numbering and in order; only the first *)
(* starts the mirror afresh, only the last looked at the whole folder.     *)
Before(b, c) ==
    /\ b.epoch = c.epoch /\ ~c.resync /\ ~b.sweeps /\ b.examined = 0
    /\ \A k \in 1..Len(b.messages), l \in 1..Len(c.messages) : b.messages[k].uid < c.messages[l].uid
InOrder(q) ==
    \A k \in 1..Len(q) : \A l \in 1..Len(q) : k < l => Before(q[k], q[l])
QueueInv ==
    /\ InOrder(pull.queue)
    /\ \A k \in 1..Len(pull.queue) : pull.queue[k].sweeps => pull.sweep
    /\ Undisturbed /\ pull.failed => pull.queue = <<>>

(* Where a batch is: Due are the letters it has yet to show.               *)
Passes(b, u) == u <= b.examined \/ \E k \in 1..Len(b.messages) : u <= b.messages[k].uid
Shows(b, u) == \E k \in 1..Len(b.messages) : b.messages[k].uid = u
Due(b, i, now, u) == \E k \in 1..Len(b.messages) : b.messages[k].uid = u /\ (k > i \/ (k = i /\ now))
At1 == IF ByPull THEN job.i ELSE 0
Inserting == ByPull /\ "insert" \in Range(job.todo)

PassedBy(c, e, u) == c.epoch = e /\ u <= c.last
Known(u) == PassedBy(cursor, epoch, u) \/ \E k \in 1..Len(pull.queue) : Passes(pull.queue[k], u)
Coming(u) == \/ Due(pull.queue[1], At1, Inserting, u)
             \/ \E k \in 2..Len(pull.queue) : Shows(pull.queue[k], u)
InMirror(R, e, u) == \E r \in R : r.uid = u /\ r.epoch = e
Covered(u) == InMirror(rows, epoch, u)
Asked(u) == u \in Uids /\ Admits(kept, box[u])

Runs == Undisturbed /\ pull.queue # <<>>
Resetting == pull.queue[1].resync /\ (ByPull => "rewind" \in Range(job.todo))
Clearing == pull.queue[1].resync /\ (ByPull => "clear" \in Range(job.todo))

CursorInv ==
    /\ Undisturbed /\ cursor.epoch = epoch => cursor.last <= Len(box)
    /\ Runs /\ Resetting => cursor.epoch < pull.queue[1].epoch
    /\ Runs /\ ~Resetting /\ pull.queue[1].epoch = epoch => cursor.epoch = epoch \/ cursor.last = 0

(* A letter of the choice that the pull will have passed is in the mirror, *)
(* or coming, and the sweep keeps it.                                      *)
Followed(u) ==
    /\ Covered(u) \/ Coming(u)
    /\ Clearing => Coming(u)
    /\ \A k \in 1..Len(pull.queue) : pull.queue[k].sweeps => u \in pull.queue[k].keep
CoverInv ==
    Runs /\ pull.queue[1].epoch = epoch /\ pull.gen = gen =>
        \A u \in Nat : Asked(u) /\ Known(u) => Followed(u)
EndInv ==
    Undisturbed /\ pull.pc = "pulling" /\ pull.queue = <<>> /\ ~pull.failed /\ pull.gen = gen =>
        \A u \in Nat : Asked(u) /\ PassedBy(cursor, epoch, u) => Covered(u)
SkipInv ==
    Undisturbed /\ applied = gen =>
        \A u \in Nat : Asked(u) /\ PassedBy(cursor, epoch, u) => Covered(u)

PullInv == ChoiceInv /\ QueueInv /\ CursorInv /\ CoverInv /\ EndInv /\ SkipInv

-----------------------------------------------------------------------------
(* Sequences, finite sets, and letters in their order.                     *)

LEMMA RangeIs ==
    ASSUME NEW S, NEW s \in Seq(S)
    PROVE  /\ Len(s) \in Nat /\ DOMAIN s = 1..Len(s)
           /\ Range(s) = {s[k] : k \in 1..Len(s)} /\ Range(s) \subseteq S
BY DEF Range

LEMMA TailIs ==
    ASSUME NEW S, NEW s \in Seq(S), s # <<>>
    PROVE  /\ Tail(s) \in Seq(S) /\ Len(s) \in Nat \ {0} /\ Len(Tail(s)) = Len(s) - 1
           /\ \A k \in 1..(Len(s) - 1) : Tail(s)[k] = s[k + 1]
           /\ Head(s) = s[1] /\ s[1] \in S
OBVIOUS

LEMMA RangeOfTail ==
    ASSUME NEW S, NEW s \in Seq(S), s # <<>>
    PROVE  \A x : x \in Range(s) <=> x = Head(s) \/ x \in Range(Tail(s))
<1> DEFINE t == Tail(s)
<1>1. /\ t \in Seq(S) /\ Len(s) \in Nat \ {0} /\ Len(t) = Len(s) - 1
      /\ \A k \in 1..(Len(s) - 1) : t[k] = s[k + 1]
      /\ Head(s) = s[1]
  BY TailIs
<1>2. Range(s) = {s[k] : k \in 1..Len(s)} /\ Range(t) = {t[k] : k \in 1..Len(t)}
  BY <1>1, RangeIs
<1> HIDE DEF t
<1>3. ASSUME NEW x, x \in Range(s), x # Head(s) PROVE x \in Range(t)
  <2>1. PICK k \in 1..Len(s) : x = s[k]
    BY <1>2, <1>3
  <2>2. k - 1 \in 1..Len(t) /\ t[k - 1] = s[k]
    BY <1>1, <1>3, <2>1
  <2> QED
    BY <1>2, <2>1, <2>2
<1>4. ASSUME NEW x, x \in Range(t) PROVE x \in Range(s)
  <2>1. PICK k \in 1..Len(t) : x = t[k]
    BY <1>2, <1>4
  <2>2. k + 1 \in 1..Len(s) /\ s[k + 1] = t[k]
    BY <1>1, <2>1
  <2> QED
    BY <1>2, <2>1, <2>2
<1>5. Head(s) \in Range(s)
  BY <1>1, <1>2
<1> QED
  BY <1>3, <1>4, <1>5 DEF t

LEMMA RangeOfJoin ==
    ASSUME NEW S, NEW s \in Seq(S), NEW t \in Seq(S)
    PROVE  s \o t \in Seq(S) /\ \A x : x \in Range(s \o t) <=> x \in Range(s) \/ x \in Range(t)
<1> DEFINE u == s \o t
<1>1. /\ u \in Seq(S) /\ Len(u) = Len(s) + Len(t) /\ Len(s) \in Nat /\ Len(t) \in Nat
      /\ \A k \in 1..Len(s) : u[k] = s[k]
      /\ \A k \in 1..Len(t) : u[Len(s) + k] = t[k]
      /\ \A k \in 1..Len(u) : k > Len(s) => u[k] = t[k - Len(s)]
  OBVIOUS
<1>2. /\ Range(s) = {s[k] : k \in 1..Len(s)} /\ Range(t) = {t[k] : k \in 1..Len(t)}
      /\ Range(u) = {u[k] : k \in 1..Len(u)}
  BY <1>1, RangeIs
<1> HIDE DEF u
<1>3. ASSUME NEW x, x \in Range(u) PROVE x \in Range(s) \/ x \in Range(t)
  <2>1. PICK k \in 1..Len(u) : x = u[k]
    BY <1>2, <1>3
  <2>2. CASE k > Len(s)
    <3>1. k - Len(s) \in 1..Len(t) /\ x = t[k - Len(s)]
      BY <1>1, <2>1, <2>2
    <3> QED
      BY <1>2, <3>1
  <2>3. CASE ~(k > Len(s))
    <3>1. k \in 1..Len(s) /\ x = s[k]
      BY <1>1, <2>1, <2>3
    <3> QED
      BY <1>2, <3>1
  <2> QED
    BY <2>2, <2>3
<1>4. ASSUME NEW x, x \in Range(s) PROVE x \in Range(u)
  <2>1. PICK k \in 1..Len(s) : x = s[k]
    BY <1>2, <1>4
  <2>2. k \in 1..Len(u) /\ u[k] = x
    BY <1>1, <2>1
  <2> QED
    BY <1>2, <2>2
<1>5. ASSUME NEW x, x \in Range(t) PROVE x \in Range(u)
  <2>1. PICK k \in 1..Len(t) : x = t[k]
    BY <1>2, <1>5
  <2>2. Len(s) + k \in 1..Len(u) /\ u[Len(s) + k] = x
    BY <1>1, <2>1
  <2> QED
    BY <1>2, <2>2
<1> QED
  BY <1>1, <1>3, <1>4, <1>5 DEF u

LEMMA FiniteImage ==
    ASSUME NEW S, IsFiniteSet(S), NEW f, DOMAIN f = S, f = [x \in S |-> f[x]]
    PROVE  IsFiniteSet(Range(f))
<1>1. f \in Surjection(S, Range(f))
  BY Zenon DEF Surjection, Range
<1> QED
  BY <1>1, FS_Surjection

LEMMA FiniteRange ==
    ASSUME NEW S, NEW s \in Seq(S)
    PROVE  IsFiniteSet(Range(s))
<1>1. IsFiniteSet(1..Len(s))
  BY FS_Interval
<1>2. DOMAIN s = 1..Len(s) /\ s = [k \in 1..Len(s) |-> s[k]]
  OBVIOUS
<1> QED
  BY <1>1, <1>2, FiniteImage

Numbers(S) == S \subseteq Nat
IsMax(m, S) == m \in S /\ \A x \in S : m >= x

LEMMA MaxExists ==
    ASSUME NEW S, Numbers(S), IsFiniteSet(S), S # {}
    PROVE  \E m : IsMax(m, S)
<1> DEFINE bad == {T \in SUBSET S : T # {} /\ ~\E m : IsMax(m, T)}
<1>1. bad = {}
  <2> SUFFICES ASSUME bad # {} PROVE FALSE
    OBVIOUS
  <2>1. bad \subseteq SUBSET S
    OBVIOUS
  <2>2. PICK T \in bad : \A t \in bad : t \subseteq T => t = T
    <3> HIDE DEF bad
    <3> QED
      BY <2>1, SmallestSubset
  <2>3. T \in SUBSET S /\ T # {} /\ ~\E m : IsMax(m, T)
    BY <2>2
  <2>4. PICK x \in T : TRUE
    BY <2>3
  <2>5. T \ {x} \in SUBSET S /\ T \ {x} # T /\ T \ {x} \subseteq T
    BY <2>3, <2>4
  <2>6. T \ {x} \notin bad
    <3> HIDE DEF bad
    <3> QED
      BY <2>2, <2>5
  <2>7. CASE T \ {x} = {}
    <3>1. T = {x} /\ x \in Nat
      BY <2>3, <2>4, <2>7 DEF Numbers
    <3>2. IsMax(x, T)
      BY <3>1 DEF IsMax
    <3> QED
      BY <2>3, <3>2
  <2>8. CASE T \ {x} # {}
    <3>1. PICK m : IsMax(m, T \ {x})
      BY <2>5, <2>6, <2>8
    <3>2. m \in Nat /\ x \in Nat /\ T \subseteq Nat
      BY <2>3, <2>4, <3>1 DEF Numbers, IsMax
    <3>3. IsMax(m, T) \/ IsMax(x, T)
      BY <2>4, <3>1, <3>2 DEF IsMax
    <3> QED
      BY <2>3, <3>3
  <2> QED
    BY <2>7, <2>8
<1> QED
  BY <1>1

LEMMA MaxIs ==
    ASSUME NEW S \in SUBSET Nat, IsFiniteSet(S), S # {}
    PROVE  Max(S) \in S /\ \A x \in S : x <= Max(S)
<1>2. PICK m : IsMax(m, S)
  BY MaxExists DEF Numbers
<1>3. Max(S) \in S /\ \A y \in S : Max(S) >= y
  BY <1>2 DEF Max, IsMax
<1> QED
  BY <1>3

IsAscending(s, S) ==
    /\ s \in [1..Cardinality(S) -> S]
    /\ \A i, j \in 1..Cardinality(S) : i < j => s[i] < s[j]

LEMMA AscendingExists ==
    ASSUME NEW S, Numbers(S), IsFiniteSet(S)
    PROVE  \E s : IsAscending(s, S)
<1> DEFINE bad == {T \in SUBSET S : ~\E s : IsAscending(s, T)}
<1>1. bad = {}
  <2> SUFFICES ASSUME bad # {} PROVE FALSE
    OBVIOUS
  <2>1. bad \subseteq SUBSET S
    OBVIOUS
  <2>2. PICK T \in bad : \A t \in bad : t \subseteq T => t = T
    <3> HIDE DEF bad
    <3> QED
      BY <2>1, SmallestSubset
  <2>3. T \in SUBSET S /\ ~\E s : IsAscending(s, T)
    BY <2>2
  <2>4. IsFiniteSet(T) /\ T \in SUBSET Nat
    BY <2>3, FS_Subset DEF Numbers
  <2>5. T # {}
    <3> SUFFICES ASSUME T = {} PROVE FALSE
      OBVIOUS
    <3>1. 1..Cardinality(T) = {}
      BY FS_EmptySet
    <3>2. IsAscending([i \in {} |-> 0], T)
      BY <3>1 DEF IsAscending
    <3> QED
      BY <2>3, <3>2
  <2> DEFINE m == Max(T)
             U == T \ {m}
             n == Cardinality(U)
  <2>6. m \in T /\ m \in Nat /\ \A x \in T : x <= m
    BY <2>4, <2>5, MaxIs
  <2>7. n \in Nat /\ Cardinality(T) = n + 1 /\ IsFiniteSet(U)
    <3>1. IsFiniteSet(U) /\ Cardinality(U) = Cardinality(T) - 1
      BY <2>4, <2>6, FS_RemoveElement
    <3>2. Cardinality(T) \in Nat /\ Cardinality(U) \in Nat
      BY <2>4, <3>1, FS_CardinalityType
    <3> QED
      BY <3>1, <3>2
  <2>8. U \in SUBSET S /\ U # T /\ U \subseteq T /\ U \subseteq Nat /\ \A x \in U : x < m
    <3>1. U \in SUBSET S /\ U # T /\ U \subseteq T /\ U \subseteq Nat
      BY <2>3, <2>4, <2>6
    <3>2. ASSUME NEW x \in U PROVE x < m
      <4>1. x \in Nat /\ x # m /\ x <= m
        BY <2>6, <3>1, <3>2
      <4> QED
        BY <2>6, <4>1
    <3> QED
      BY <3>1, <3>2
  <2>9. U \notin bad
    <3> HIDE DEF bad, U
    <3> QED
      BY <2>2, <2>8
  <2>10. PICK s : IsAscending(s, U)
    BY <2>8, <2>9
  <2>11. s \in [1..n -> U] /\ \A i, j \in 1..n : i < j => s[i] < s[j]
    BY <2>10 DEF IsAscending
  <2> DEFINE t == [i \in 1..(n + 1) |-> IF i = n + 1 THEN m ELSE s[i]]
  <2> HIDE DEF m, n
  <2>12. \A i \in 1..(n + 1) : i # n + 1 => i \in 1..n
    BY <2>7
  <2>13. \A i \in 1..n : s[i] \in T /\ s[i] \in Nat /\ s[i] < m
    BY <2>8, <2>11
  <2> HIDE DEF U
  <2>14. t \in [1..(n + 1) -> T]
    BY <2>6, <2>12, <2>13
  <2>15. ASSUME NEW i \in 1..(n + 1), NEW j \in 1..(n + 1), i < j PROVE t[i] < t[j]
    <3>1. i # n + 1 /\ i \in 1..n /\ t[i] = s[i]
      BY <2>7, <2>15
    <3>2. CASE j = n + 1
      BY <3>1, <3>2, <2>13
    <3>3. CASE j # n + 1
      BY <3>1, <3>3, <2>11, <2>12, <2>15
    <3> QED
      BY <3>2, <3>3
  <2> HIDE DEF t
  <2>16. IsAscending(t, T)
    BY <2>7, <2>14, <2>15 DEF IsAscending
  <2> QED
    BY <2>3, <2>16
<1> QED
  BY <1>1

LEMMA AscendingIs ==
    ASSUME NEW S \in SUBSET Nat, IsFiniteSet(S)
    PROVE  /\ Cardinality(S) \in Nat
           /\ Ascending(S) \in [1..Cardinality(S) -> S]
           /\ \A i, j \in 1..Cardinality(S) : i < j => Ascending(S)[i] < Ascending(S)[j]
           /\ \A x \in S : \E i \in 1..Cardinality(S) : Ascending(S)[i] = x
<1> DEFINE n == Cardinality(S)
           a == Ascending(S)
           R == Range(a)
<1>1. n \in Nat
  BY FS_CardinalityType
<1>2. PICK s : IsAscending(s, S)
  BY AscendingExists DEF Numbers
<1>3. s \in [1..n -> S] /\ \A i, j \in DOMAIN s : i < j => s[i] < s[j]
  BY <1>2 DEF IsAscending
<1>4. a \in [1..n -> S] /\ \A i, j \in DOMAIN a : i < j => a[i] < a[j]
  BY <1>3 DEF Ascending
<1> HIDE DEF a, n
<1>5. \A i, j \in 1..n : i # j => a[i] # a[j]
  <2> SUFFICES ASSUME NEW i \in 1..n, NEW j \in 1..n, i # j PROVE a[i] # a[j]
    OBVIOUS
  <2>1. a[i] \in Nat /\ a[j] \in Nat
    BY <1>4
  <2>2. i < j \/ j < i
    BY <1>1
  <2>3. a[i] < a[j] \/ a[j] < a[i]
    BY <1>4, <2>2
  <2> QED
    BY <2>1, <2>3
<1>6. R = {a[i] : i \in 1..n} /\ R \subseteq S
  BY <1>4 DEF Range
<1>7. a \in Surjection(1..n, R) /\ a \in Injection(1..n, R)
  <2>1. a \in [1..n -> R] /\ \A t \in R : \E i \in 1..n : a[i] = t
    BY <1>4, <1>6
  <2>2. \A i, j \in 1..n : a[i] = a[j] => i = j
    BY <1>5
  <2> HIDE DEF R
  <2> QED
    BY <2>1, <2>2 DEF Surjection, Injection, IsInjective
<1>8. IsFiniteSet(1..n) /\ Cardinality(1..n) = n
  BY <1>1, FS_Interval
<1>9. Cardinality(R) = n
  <2> HIDE DEF R
  <2> QED
    BY <1>7, <1>8, FS_Surjection
<1>10. R = S
  <2> HIDE DEF R
  <2> QED
    BY <1>6, <1>9, FS_Subset DEF n
<1> QED
  BY <1>1, <1>4, <1>6, <1>10 DEF a, n

-----------------------------------------------------------------------------
(* Batches being absorbed.                                                 *)

LEMMA JobIsSome ==
    ASSUME NEW j, IsJob(j)
    PROVE  j # NoJob /\ j.by # None
<1>1. j.by \in {"pull", "fill"}
  BY DEF IsJob, Jobs
<1>2. NoJob.by = None /\ None \notin {"pull", "fill"}
  BY ReleveAssumption DEF NoJob
<1> QED
  BY <1>1, <1>2

LEMMA JobAtWork ==
    ASSUME TypeInv, job.by # None
    PROVE  IsJob(job) /\ job # NoJob
<1>1. job # NoJob
  BY DEF NoJob
<1> QED
  BY <1>1 DEF TypeInv

LEMMA JobFields ==
    ASSUME NEW j, IsJob(j)
    PROVE  /\ j.by \in {"pull", "fill"} /\ j.batch \in Batches /\ j.kept \in Scopes
           /\ j.i \in Nat /\ j.link \in Links /\ j.todo \in Seq(Steps) /\ j.open \subseteq Dossiers
           /\ j.batch.epoch \in Nat /\ j.batch.resync \in BOOLEAN /\ j.batch.messages \in Seq(Messages)
           /\ j.batch.examined \in Nat /\ j.batch.sweeps \in BOOLEAN /\ j.batch.keep \subseteq Nat
<1>1. /\ j.by \in {"pull", "fill"} /\ j.batch \in Batches /\ j.kept \in Scopes
      /\ j.i \in Nat /\ j.link \in Links /\ j.todo \in Seq(Steps) /\ j.open \in SUBSET Dossiers
  BY DEF IsJob, Jobs
<1> QED
  BY <1>1 DEF Batches

SameBatch(j, k) == k.by = j.by /\ k.batch = j.batch /\ k.kept = j.kept /\ k.open = j.open
Popped(step, j, k) ==
    /\ IsJob(j) /\ IsJob(k) /\ SameBatch(j, k) /\ k.i = j.i /\ k.link = j.link
    /\ j.todo \in Seq(Steps) /\ j.todo # <<>> /\ Head(j.todo) = step /\ k.todo = Tail(j.todo)

LEMMA NewTodo ==
    ASSUME NEW j, IsJob(j), NEW todo \in Seq(Steps)
    PROVE  LET k == [j EXCEPT !.todo = todo]
           IN  IsJob(k) /\ SameBatch(j, k) /\ k.i = j.i /\ k.link = j.link /\ k.todo = todo
BY DEF IsJob, Jobs, SameBatch

LEMMA DonePops ==
    ASSUME TypeInv, NEW step, Doing(step), Done
    PROVE  Popped(step, job, job')
<1>1. IsJob(job) /\ job.todo # <<>> /\ Head(job.todo) = step
  BY JobAtWork DEF Doing, Working
<1>2. job.todo \in Seq(Steps)
  BY <1>1, JobFields
<1>3. Tail(job.todo) \in Seq(Steps)
  BY <1>1, <1>2, TailIs
<1>4. job' = [job EXCEPT !.todo = Tail(job.todo)]
  BY DEF Done
<1> QED
  BY <1>1, <1>2, <1>3, <1>4, NewTodo DEF Popped

LEMMA OrderedPops ==
    ASSUME NEW step, NEW j, NEW k, Popped(step, j, k), Ordered(j)
    PROVE  Ordered(k)
<1> DEFINE s == j.todo
           t == k.todo
<1>1. /\ s \in Seq(Steps) /\ t \in Seq(Steps) /\ Len(s) \in Nat \ {0} /\ Len(t) = Len(s) - 1
      /\ \A n \in 1..(Len(s) - 1) : t[n] = s[n + 1]
  BY TailIs DEF Popped
<1>2. \A x : x \in Range(s) <=> x = Head(s) \/ x \in Range(t)
  BY RangeOfTail DEF Popped
<1>3. k.i = j.i /\ k.batch = j.batch
  BY DEF Popped, SameBatch
<1>4. /\ \/ Range(s) \subseteq Early /\ j.i = 0
         \/ Range(s) \subseteq Late /\ j.i \in 1..Len(j.batch.messages)
      /\ \A n \in 1..Len(s) : n > 1 =>
            /\ s[n] \notin {"clear", "hold"}
            /\ s[n] = "rewind" => n = 2 /\ s[1] = "clear"
      /\ "rewind" \in Range(s) => j.batch.resync
      /\ "retain" \in Range(s) => j.batch.sweeps
  BY DEF Ordered
<1> HIDE DEF s, t
<1>5. \A n \in 1..Len(t) : t[n] \notin {"clear", "hold"}
  <2> SUFFICES ASSUME NEW n \in 1..Len(t) PROVE t[n] \notin {"clear", "hold"}
    OBVIOUS
  <2>1. n + 1 \in 1..Len(s) /\ n + 1 > 1 /\ t[n] = s[n + 1]
    BY <1>1
  <2> QED
    BY <1>4, <2>1
<1>6. \A n \in 1..Len(t) : n > 1 => t[n] # "rewind"
  <2> SUFFICES ASSUME NEW n \in 1..Len(t), n > 1 PROVE t[n] # "rewind"
    OBVIOUS
  <2>1. n + 1 \in 1..Len(s) /\ n + 1 > 2 /\ t[n] = s[n + 1]
    BY <1>1
  <2> QED
    BY <1>4, <2>1
<1>7. Range(t) = {t[n] : n \in 1..Len(t)}
  BY <1>1, RangeIs
<1>8. "clear" \notin Range(t)
  BY <1>5, <1>7
<1> QED
  BY <1>2, <1>3, <1>4, <1>5, <1>6, <1>8 DEF Ordered, t

(* Where the elements of a sequence are in its concatenation with another. *)
LEMMA PositionsOfJoin ==
    ASSUME NEW S, NEW s \in Seq(S), NEW t \in Seq(S)
    PROVE  /\ Len(s \o t) = Len(s) + Len(t) /\ Len(s) \in Nat /\ Len(t) \in Nat
           /\ \A k \in 1..Len(s) : (s \o t)[k] = s[k]
           /\ \A k \in 1..Len(s \o t) :
                 k > Len(s) => k - Len(s) \in 1..Len(t) /\ (s \o t)[k] = t[k - Len(s)]
OBVIOUS

StartsWith(s, r, w) ==
    /\ s \in Seq(Steps) /\ Range(s) \subseteq Early
    /\ \A x \in {"clear", "rewind"} : x \in Range(s) <=> r
    /\ "retain" \in Range(s) <=> w
    /\ \A k \in 1..Len(s) : k > 1 =>
          s[k] \notin {"clear", "hold"} /\ (s[k] = "rewind" => k = 2 /\ s[1] = "clear")

LEMMA BeginTodo ==
    ASSUME NEW r \in BOOLEAN, NEW w \in BOOLEAN
    PROVE  StartsWith((IF r THEN <<"clear", "rewind">> ELSE <<>>)
                          \o (IF w THEN <<"retain">> ELSE <<>>), r, w)
<1> DEFINE s == (IF r THEN <<"clear", "rewind">> ELSE <<>>) \o (IF w THEN <<"retain">> ELSE <<>>)
<1> HIDE DEF s
<1> DEFINE a == IF r THEN <<"clear", "rewind">> ELSE <<>>
           b == IF w THEN <<"retain">> ELSE <<>>
<1>1. /\ a \in Seq(Steps) /\ (r => Len(a) = 2 /\ a[1] = "clear" /\ a[2] = "rewind")
      /\ (~r => Len(a) = 0)
  <2>1. CASE r
    <3>1. a = <<"clear", "rewind">>
      BY <2>1
    <3> HIDE DEF a
    <3> QED
      BY <2>1, <3>1 DEF Steps
  <2>2. CASE ~r
    BY <2>2
  <2> QED
    BY <2>1, <2>2
<1>2. b \in Seq(Steps) /\ (w => Len(b) = 1 /\ b[1] = "retain") /\ (~w => Len(b) = 0)
  <2>1. CASE w
    <3>1. b = <<"retain">>
      BY <2>1
    <3> HIDE DEF b
    <3> QED
      BY <2>1, <3>1 DEF Steps
  <2>2. CASE ~w
    BY <2>2
  <2> QED
    BY <2>1, <2>2
<1> HIDE DEF a, b
<1>3. s = a \o b
  BY DEF a, b, s
<1>4. s \in Seq(Steps) /\ \A x : x \in Range(s) <=> x \in Range(a) \/ x \in Range(b)
  BY <1>1, <1>2, <1>3, RangeOfJoin
<1>5. Range(a) = {a[k] : k \in 1..Len(a)} /\ Range(b) = {b[k] : k \in 1..Len(b)}
  BY <1>1, <1>2, RangeIs
<1>6. Range(a) = IF r THEN {"clear", "rewind"} ELSE {}
  BY <1>1, <1>5
<1>7. Range(b) = IF w THEN {"retain"} ELSE {}
  BY <1>2, <1>5
<1>8. /\ Len(s) = Len(a) + Len(b)
      /\ \A k \in 1..Len(a) : s[k] = a[k]
      /\ \A k \in 1..Len(s) : k > Len(a) => k - Len(a) \in 1..Len(b) /\ s[k] = b[k - Len(a)]
  BY <1>1, <1>2, <1>3, PositionsOfJoin
<1>9. ASSUME NEW k \in 1..Len(s), k > 1
      PROVE  s[k] \notin {"clear", "hold"} /\ (s[k] = "rewind" => k = 2 /\ s[1] = "clear")
  <2>1. CASE k > Len(a)
    <3>1. s[k] = "retain"
      BY <1>2, <1>8, <2>1
    <3> QED
      BY <3>1
  <2>2. CASE ~(k > Len(a))
    <3>1. r /\ k = 2 /\ s[1] = "clear" /\ s[2] = "rewind"
      BY <1>1, <1>8, <1>9, <2>2
    <3> QED
      BY <3>1
  <2> QED
    BY <2>1, <2>2
<1>10. StartsWith(s, r, w)
  BY <1>4, <1>6, <1>7, <1>9 DEF Early, StartsWith
<1> QED
  BY <1>10 DEF s

LEMMA BeginIs ==
    ASSUME TypeInv, NEW by \in {"pull", "fill"}, NEW b \in Batches, NEW j, j = Begin(by, b)
    PROVE  /\ IsJob(j) /\ j.by = by /\ j.batch = b /\ j.kept = kept /\ j.open = open /\ j.i = 0
           /\ Ordered(j)
           /\ "clear" \in Range(j.todo) <=> b.resync
           /\ "rewind" \in Range(j.todo) <=> b.resync
           /\ Range(j.todo) \subseteq Early
<1>1. b.resync \in BOOLEAN /\ b.sweeps \in BOOLEAN
  BY DEF Batches
<1> DEFINE s == (IF b.resync THEN <<"clear", "rewind">> ELSE <<>>)
                 \o (IF b.sweeps THEN <<"retain">> ELSE <<>>)
<1>2. StartsWith(s, b.resync, b.sweeps)
  BY <1>1, BeginTodo
<1>3. j = [by |-> by, batch |-> b, open |-> open, kept |-> kept, i |-> 0,
           gone |-> <<>>, from |-> None, link |-> Unlinked, todo |-> s]
  BY DEF Begin
<1> HIDE DEF s
<1>4. Unlinked \in Links
  BY DEF Unlinked, Linked, Links
<1>5. open \in SUBSET Dossiers /\ kept \in Scopes
  BY DEF TypeInv
<1>6. IsJob(j)
  BY <1>2, <1>3, <1>4, <1>5 DEF IsJob, Jobs, StartsWith
<1>7. j.by = by /\ j.batch = b /\ j.kept = kept /\ j.open = open /\ j.i = 0 /\ j.todo = s
  BY <1>3
<1>8. Ordered(j)
  BY <1>2, <1>7 DEF Ordered, StartsWith
<1> QED
  BY <1>2, <1>6, <1>7, <1>8 DEF StartsWith

LEMMA ForgettingIs ==
    ASSUME NEW n \in Nat, NEW s, s = [m \in 1..(3 * n) |-> Forgetting[((m - 1) % 3) + 1]]
    PROVE  /\ s \in Seq(Steps)
           /\ Range(s) \subseteq {"forget", "unfault", "unhold"}
           /\ \A k \in 1..Len(s) : s[k] \in {"forget", "unfault", "unhold"}
<1>1. \A k \in 1..3 : Forgetting[k] \in {"forget", "unfault", "unhold"}
  BY DEF Forgetting
<1>2. \A m \in 1..(3 * n) : ((m - 1) % 3) + 1 \in 1..3
  OBVIOUS
<1>3. \A m \in 1..(3 * n) : s[m] \in {"forget", "unfault", "unhold"}
  BY <1>1, <1>2
<1>4. 3 * n \in Nat
  OBVIOUS
<1>5. s = [m \in 1..(3 * n) |-> s[m]] /\ DOMAIN s = 1..(3 * n)
  OBVIOUS
<1> HIDE DEF Forgetting
<1>6. s \in Seq(Steps) /\ Len(s) = 3 * n
  <2>1. s \in [1..(3 * n) -> Steps]
    BY <1>3, <1>5 DEF Steps
  <2> QED
    BY <1>4, <2>1
<1> QED
  BY <1>3, <1>5, <1>6 DEF Range

LEMMA SetToSeqIs ==
    ASSUME NEW S, IsFiniteSet(S)
    PROVE  Len(SetToSeq(S)) \in Nat
<1>1. Cardinality(S) \in Nat /\ ExistsBijection(1..Cardinality(S), S)
  BY FS_CardinalityType
<1>2. PICK f : f \in Bijection(1..Cardinality(S), S)
  BY <1>1, Zenon DEF ExistsBijection
<1>3. f \in [1..Cardinality(S) -> S] /\ IsInjective(f)
  BY <1>2, Zenon DEF Bijection, Injection
<1>4. SetToSeq(S) \in [1..Cardinality(S) -> S]
  BY <1>3, Zenon DEF SetToSeq
<1> QED
  BY <1>1, <1>4

LEMMA RetainTodo ==
    ASSUME TypeInv, NEW out, out \subseteq rows
    PROVE  Len(SetToSeq({r.mail : r \in out} \ {None})) \in Nat
<1> DEFINE f == [r \in out |-> r.mail]
<1>1. IsFiniteSet(out)
  BY FS_Subset DEF TypeInv
<1>2. IsFiniteSet(Range(f))
  BY <1>1, FiniteImage
<1>3. {r.mail : r \in out} = Range(f)
  BY DEF Range
<1>4. IsFiniteSet({r.mail : r \in out} \ {None})
  BY <1>2, <1>3, FS_Subset
<1> QED
  BY <1>4, SetToSeqIs

-----------------------------------------------------------------------------
(* One letter: what is read of it, and the commits it calls for.           *)

LEMMA AboutIs ==
    ASSUME NEW m \in Mails
    PROVE  /\ About[m].ref \in Letters \cup {None} /\ About[m].ours \in Letters \cup {None}
           /\ About[m].fiches \subseteq Clients /\ About[m].human \in BOOLEAN
           /\ About[m].report \in BOOLEAN
<1>1. About[m] \in [ref : Letters \cup {None}, ours : Letters \cup {None},
                    fiches : SUBSET Clients, human : BOOLEAN, listed : BOOLEAN,
                    notice : {None, "certain", "probable"}, report : BOOLEAN]
  BY ReleveAssumption
<1> QED
  BY <1>1

LEMMA LinkedIs ==
    ASSUME NEW c \in Clients \cup {None}, NEW d \in Dossiers \cup {None}, NEW held \in BOOLEAN
    PROVE  /\ Linked(c, d, held) \in Links
           /\ Linked(c, d, held).client = c /\ Linked(c, d, held).dossier = d
           /\ Linked(c, d, held).hold = held
BY DEF Linked, Links

LEMMA UnlinkedIs ==
    Unlinked \in Links /\ Unlinked.client = None /\ Unlinked.dossier = None /\ Unlinked.hold = FALSE
BY LinkedIs, ZenonT(60) DEF Unlinked

(* The hold of a link is that asked for, when it is about one dossier.     *)
LEMMA ToLetterIs ==
    ASSUME NEW l \in Letters, NEW held \in BOOLEAN
    PROVE  /\ ToLetter(l, held) \in Links
           /\ ToLetter(l, held).dossier = LetterOf[l].dossier
           /\ ToLetter(l, held).client = LetterOf[l].client
           /\ ToLetter(l, held).hold <=> held /\ LetterOf[l].dossier # None
<1>1. LetterOf[l] \in [client : Clients, dossier : Dossiers \cup {None}]
  BY ReleveAssumption
<1>2. (held /\ LetterOf[l].dossier # None) \in BOOLEAN
  BY Zenon
<1>3. LetterOf[l].client \in Clients \cup {None} /\ LetterOf[l].dossier \in Dossiers \cup {None}
  BY <1>1
<1> QED
  BY <1>2, <1>3, LinkedIs, ZenonT(60) DEF ToLetter

LEMMA ToClientIs ==
    ASSUME NEW clients \in SUBSET Clients, NEW d \in Dossiers \cup {None}, NEW held \in BOOLEAN
    PROVE  /\ ToClient(clients, d, held) \in Links
           /\ \/ ToClient(clients, d, held) = Unlinked
              \/ /\ ToClient(clients, d, held).client # None
                 /\ ToClient(clients, d, held).dossier = d /\ ToClient(clients, d, held).hold = held
<1>1. CASE Cardinality(clients) = 1
  <2> DEFINE c == CHOOSE c \in clients : TRUE
  <2>1. clients # {}
    BY <1>1, FS_EmptySet
  <2>2. c \in clients
    BY <2>1
  <2>3. c \in Clients /\ c # None
    BY <2>2, ReleveAssumption
  <2>4. ToClient(clients, d, held) = Linked(c, d, held)
    BY <1>1 DEF ToClient
  <2> HIDE DEF c
  <2> QED
    BY <2>3, <2>4, LinkedIs
<1>2. CASE Cardinality(clients) # 1
  BY <1>2, UnlinkedIs DEF ToClient
<1> QED
  BY <1>1, <1>2

LEMMA HumanIs ==
    ASSUME NEW m \in Mails
    PROVE  Human(m) \in BOOLEAN
BY Zenon DEF Human

LEMMA ClassifyIs ==
    ASSUME NEW m \in Mails, NEW body
    PROVE  Classify(m, body) \in Links
<1> DEFINE ref == About[m].ref
           answers == ref # None
           fiches == About[m].fiches
           d == IF answers /\ LetterOf[ref].client \in fiches THEN LetterOf[ref].dossier ELSE None
<1>1. ref \in Letters \cup {None} /\ About[m].ours \in Letters \cup {None} /\ fiches \in SUBSET Clients
  BY AboutIs
<1>2. Human(m) \in BOOLEAN
  BY HumanIs
<1>3. d \in Dossiers \cup {None}
  <2>1. \A l \in Letters : LetterOf[l].dossier \in Dossiers \cup {None}
    BY ReleveAssumption
  <2> QED
    BY <1>1, <2>1
<1>4. /\ answers => ToLetter(ref, FALSE) \in Links /\ ToLetter(ref, Human(m)) \in Links
      /\ About[m].ours # None => ToLetter(About[m].ours, FALSE) \in Links
  BY <1>1, <1>2, ToLetterIs
<1>5. ToClient(fiches, d, FALSE) \in Links /\ ToClient(fiches, None, Human(m)) \in Links
  BY <1>1, <1>2, <1>3, ToClientIs
<1>6. Unlinked \in Links
  BY UnlinkedIs
<1> HIDE DEF d
<1>7. Classify(m, body) =
          IF Certain(m, body)
          THEN IF fiches = {} THEN IF answers THEN ToLetter(ref, FALSE) ELSE Unlinked
               ELSE ToClient(fiches, d, FALSE)
          ELSE IF About[m].ours # None THEN ToLetter(About[m].ours, FALSE)
          ELSE IF answers THEN ToLetter(ref, Human(m))
          ELSE IF About[m].report THEN Unlinked
          ELSE ToClient(fiches, None, Human(m))
  BY Zenon DEF Classify, d
<1> HIDE DEF ref, fiches, answers
<1> QED
  BY <1>4, <1>5, <1>6, <1>7

LEMMA ResolveIs ==
    ASSUME NEW link \in Links, NEW opened \in SUBSET Dossiers
    PROVE  /\ Resolve(link, opened) \in Links
           /\ Resolve(link, opened).dossier # None =>
                 \/ Resolve(link, opened) = link
                 \/ link.dossier = None /\ Resolve(link, opened).hold = link.hold
           /\ link.client = None => Resolve(link, opened) = link
<1> DEFINE of == {d \in opened : Owner[d] = link.client}
<1>1. CASE link.client = None \/ link.dossier # None
  BY <1>1 DEF Resolve
<1>2. CASE ~(link.client = None \/ link.dossier # None)
  <2>1. CASE Cardinality(of) = 1
    <3> DEFINE e == CHOOSE d \in of : TRUE
    <3>1. of # {}
      BY <2>1, FS_EmptySet
    <3>2. e \in of
      BY <3>1
    <3>3. e \in Dossiers
      BY <3>2
    <3>4. Resolve(link, opened) = [link EXCEPT !.dossier = e]
      BY <1>2, <2>1, <3>1 DEF Resolve
    <3> HIDE DEF e
    <3> QED
      BY <1>2, <3>3, <3>4 DEF Links
  <2>2. CASE of = {}
    <3>1. Cardinality(of) # 1
      BY <2>2, FS_EmptySet
    <3>2. Resolve(link, opened) = [link EXCEPT !.hold = FALSE]
      BY <1>2, <2>2, <3>1 DEF Resolve
    <3> QED
      BY <1>2, <3>2 DEF Links
  <2>3. CASE of # {} /\ Cardinality(of) # 1
    <3>1. Resolve(link, opened) = Unlinked
      BY <1>2, <2>3 DEF Resolve
    <3> QED
      BY <1>2, <3>1, UnlinkedIs
  <2> QED
    BY <2>1, <2>2, <2>3
<1> QED
  BY <1>1, <1>2

LEMMA ReadIs ==
    ASSUME NEW m \in Mails, NEW body, NEW opened \in SUBSET Dossiers
    PROVE  Read(m, body, opened) \in Links
BY ClassifyIs, ResolveIs DEF Read

(* A reply that is filed on a dossier holds it, unless it answers a letter *)
(* of ours that has none.                                                  *)
LEMMA AnswersAreHeld ==
    ASSUME NEW m \in Mails, NEW body, NEW opened \in SUBSET Dossiers,
           Answers(m), About[m].ours = None, Read(m, body, opened).dossier # None
    PROVE  Read(m, body, opened).hold
<1> DEFINE link == Classify(m, body)
           ref == About[m].ref
<1>1. Human(m) = TRUE /\ ~ToNoDossier(m)
  BY HumanIs DEF Answers
<1>2. ~Certain(m, body)
  BY <1>1, ReleveAssumption DEF Human, Certain
<1>3. ref \in Letters \cup {None} /\ About[m].fiches \in SUBSET Clients
  BY AboutIs
<1>4. link \in Links
  BY ClassifyIs
<1>5. link = IF ref # None THEN ToLetter(ref, TRUE)
             ELSE IF About[m].report THEN Unlinked
             ELSE ToClient(About[m].fiches, None, TRUE)
  BY <1>1, <1>2, Zenon DEF Classify
<1>6. ref # None => link.hold
  <2> SUFFICES ASSUME ref # None PROVE link.hold
    OBVIOUS
  <2>1. LetterOf[ref].dossier # None
    BY <1>1 DEF ToNoDossier
  <2> QED
    BY <1>3, <1>5, <2>1, ToLetterIs
<1>7. ref = None => link = Unlinked \/ link.hold = TRUE
  BY <1>3, <1>5, ToClientIs, ZenonT(60)
<1>8. Read(m, body, opened) = Resolve(link, opened)
  BY DEF Read
<1> HIDE DEF link
<1>9. \/ Resolve(link, opened) = link
      \/ link.dossier = None /\ Resolve(link, opened).hold = link.hold
  BY <1>4, <1>8, ResolveIs
<1>10. link # Unlinked
  BY <1>8, ResolveIs, UnlinkedIs
<1> QED
  BY <1>6, <1>7, <1>8, <1>9, <1>10

NotLater(x, s) == \A k \in 1..Len(s) : k > 1 => s[k] # x

LEMMA IfIs ==
    ASSUME NEW step \in Steps, NEW w
    PROVE  /\ If(w, step) \in Seq(Steps) /\ Range(If(w, step)) \subseteq {step}
           /\ w => step \in Range(If(w, step))
           /\ step \in Range(If(w, step)) => w
           /\ NotLater(step, If(w, step))
<1>1. CASE w
  <2> DEFINE s == <<step>>
  <2>1. If(w, step) = s
    BY <1>1 DEF If
  <2>2. s \in Seq(Steps) /\ Len(s) = 1 /\ s[1] = step /\ DOMAIN s = {1}
    OBVIOUS
  <2> HIDE DEF s
  <2>3. Range(s) = {step} /\ NotLater(step, s)
    BY <2>2 DEF Range, NotLater
  <2> QED
    BY <1>1, <2>1, <2>2, <2>3
<1>2. CASE ~w
  <2>1. If(w, step) = <<>>
    BY <1>2 DEF If
  <2>2. Range(<<>>) = {} /\ <<>> \in Seq(Steps) /\ NotLater(step, <<>>)
    BY DEF Range, NotLater
  <2> QED
    BY <1>2, <2>1, <2>2
<1> QED
  BY <1>1, <1>2

LEMMA JoinNotLater ==
    ASSUME NEW x, NEW s \in Seq(Steps), NEW t \in Seq(Steps), NotLater(x, s), x \notin Range(t)
    PROVE  NotLater(x, s \o t)
<1> DEFINE u == s \o t
<1>1. /\ Len(s) \in Nat /\ Len(t) \in Nat /\ Len(u) = Len(s) + Len(t)
      /\ \A k \in 1..Len(s) : u[k] = s[k]
      /\ \A k \in 1..Len(u) : k > Len(s) => k - Len(s) \in 1..Len(t) /\ u[k] = t[k - Len(s)]
  BY PositionsOfJoin
<1>2. Range(t) = {t[k] : k \in 1..Len(t)}
  BY RangeIs
<1> HIDE DEF u
<1>3. ASSUME NEW k \in 1..Len(u), k > 1 PROVE u[k] # x
  <2>1. CASE k > Len(s)
    BY <1>1, <1>2, <2>1
  <2>2. CASE ~(k > Len(s))
    <3>1. k \in 1..Len(s)
      BY <1>1, <2>2
    <3> QED
      BY <1>1, <1>3, <3>1 DEF NotLater
  <2> QED
    BY <2>1, <2>2
<1> QED
  BY <1>3 DEF NotLater, u

ShowSteps(h, c, mark) == If(h, "hold") \o If(c, "file") \o mark \o <<"insert">>

LEMMA OneStep ==
    ASSUME NEW step \in Steps
    PROVE  <<step>> \in Seq(Steps) /\ Range(<<step>>) = {step}
<1> DEFINE s == <<step>>
<1>1. s \in Seq(Steps) /\ DOMAIN s = {1} /\ s[1] = step
  OBVIOUS
<1> HIDE DEF s
<1>2. Range(s) = {step}
  BY <1>1 DEF Range
<1> QED
  BY <1>1, <1>2 DEF s

LEMMA ShowStepsAre ==
    ASSUME NEW h, NEW c, NEW mark \in Seq(Steps), Range(mark) \subseteq {"mark"}
    PROVE  /\ ShowSteps(h, c, mark) \in Seq(Steps) /\ Range(ShowSteps(h, c, mark)) \subseteq Late
           /\ "insert" \in Range(ShowSteps(h, c, mark))
           /\ h => "hold" \in Range(ShowSteps(h, c, mark))
           /\ "file" \in Range(ShowSteps(h, c, mark)) => c
           /\ NotLater("hold", ShowSteps(h, c, mark))
<1> DEFINE s1 == If(h, "hold")
           s2 == If(c, "file")
           s3 == <<"insert">>
<1>1. {"hold", "file", "insert"} \subseteq Steps
  BY DEF Steps
<1>2. /\ s1 \in Seq(Steps) /\ Range(s1) \subseteq {"hold"} /\ (h => "hold" \in Range(s1))
      /\ NotLater("hold", s1)
  BY <1>1, IfIs
<1>3. s2 \in Seq(Steps) /\ Range(s2) \subseteq {"file"} /\ ("file" \in Range(s2) => c)
  BY <1>1, IfIs
<1>4. s3 \in Seq(Steps) /\ Range(s3) = {"insert"}
  BY <1>1, OneStep
<1> HIDE DEF s1, s2, s3
<1> DEFINE a == s1 \o s2
           b == a \o mark
           d == b \o s3
<1>5. a \in Seq(Steps) /\ \A x : x \in Range(a) <=> x \in Range(s1) \/ x \in Range(s2)
  BY <1>2, <1>3, RangeOfJoin
<1>6. NotLater("hold", a)
  BY <1>2, <1>3, JoinNotLater
<1> HIDE DEF a
<1>7. b \in Seq(Steps) /\ \A x : x \in Range(b) <=> x \in Range(a) \/ x \in Range(mark)
  BY <1>5, RangeOfJoin
<1>8. NotLater("hold", b)
  BY <1>5, <1>6, JoinNotLater
<1> HIDE DEF b
<1>9. d \in Seq(Steps) /\ \A x : x \in Range(d) <=> x \in Range(b) \/ x \in Range(s3)
  BY <1>4, <1>7, RangeOfJoin
<1>10. NotLater("hold", d)
  BY <1>4, <1>7, <1>8, JoinNotLater
<1>11. d = ShowSteps(h, c, mark)
  BY Zenon DEF ShowSteps, a, b, s1, s2, s3
<1> HIDE DEF d
<1>12. \A x : x \in Range(d) <=> x \in Range(s1) \/ x \in Range(s2) \/ x \in Range(mark) \/ x = "insert"
  BY <1>4, <1>5, <1>7, <1>9
<1>13. Range(d) \subseteq Late
  BY <1>2, <1>3, <1>12 DEF Late
<1>14. "file" \in Range(d) => c
  BY <1>2, <1>3, <1>12
<1>15. h => "hold" \in Range(d)
  BY <1>2, <1>12
<1>16. "insert" \in Range(d)
  BY <1>12
<1> QED
  BY <1>9, <1>10, <1>11, <1>13, <1>14, <1>15, <1>16

LEMMA FillStepsAre ==
    ASSUME NEW mark \in Seq(Steps), Range(mark) \subseteq {"mark"}
    PROVE  /\ mark \o <<"body">> \in Seq(Steps)
           /\ Range(mark \o <<"body">>) \subseteq {"mark", "body"}
           /\ NotLater("hold", mark \o <<"body">>)
<1>1. <<"body">> \in Seq(Steps) /\ Range(<<"body">>) = {"body"}
  BY OneStep DEF Steps
<1>2. NotLater("hold", mark)
  <2>1. \A k \in 1..Len(mark) : mark[k] \in Range(mark)
    BY RangeIs
  <2> QED
    BY <2>1 DEF NotLater
<1> QED
  BY <1>1, <1>2, RangeOfJoin, JoinNotLater

(* What Message reads and decides, j becoming k.                           *)
TakesUp(j, k, R) ==
    LET msg == j.batch.messages[k.i]
    IN  /\ IsJob(j) /\ IsJob(k) /\ SameBatch(j, k)
        /\ j.todo = <<>> /\ k.i = j.i + 1 /\ k.i \in 1..Len(j.batch.messages)
        /\ Range(k.todo) \subseteq Late /\ NotLater("hold", k.todo)
        /\ "file" \in Range(k.todo) =>
              /\ msg.mail \in Mails /\ About[msg.mail].ours = None
              /\ k.link = Read(msg.mail, msg.body, j.open)
              /\ k.link.hold /\ k.link.dossier # None => "hold" \in Range(k.todo)
        /\ "insert" \notin Range(k.todo) =>
              \/ \E r \in R : r.uid = msg.uid /\ r.epoch = j.batch.epoch
              \/ msg.mail # None /\ ~Admits(j.kept, msg.mail)

LEMMA MessageTakesUp ==
    ASSUME TypeInv, Message
    PROVE  TakesUp(job, job', rows)
<1> DEFINE msg == job.batch.messages[job.i + 1]
           found == At(msg.uid)
           fills == msg.body # "pending" /\ \E r \in found : r.body = "pending"
           read == msg.mail # None /\ (fills \/ ~(Filed(msg.mail) \/ About[msg.mail].ours # None))
           link == IF read THEN Read(msg.mail, msg.body, job.open) ELSE Unlinked
           mark == If(Marks(msg.mail, msg.body, link), "mark")
           passed == found # {} \/ (msg.mail # None /\ ~Admits(job.kept, msg.mail))
           show == ShowSteps(link.hold /\ link.dossier # None, link.client # None, mark)
           steps == IF fills THEN mark \o <<"body">> ELSE IF passed THEN <<>> ELSE show
<1>1. IsJob(job) /\ job.todo = <<>> /\ job.i < Len(job.batch.messages)
  BY JobAtWork, ZenonT(60) DEF Message, Working
<1>2. job' = [job EXCEPT !.i = @ + 1, !.link = link, !.todo = steps]
  BY Zenon DEF Message, ShowSteps
<1>3. job.i \in Nat /\ job.batch.messages \in Seq(Messages) /\ job.open \in SUBSET Dossiers
  BY <1>1, JobFields
<1>4. job.i + 1 \in 1..Len(job.batch.messages) /\ msg \in Messages
  BY <1>1, <1>3
<1>5. read => msg.mail \in Mails
  BY <1>4 DEF Messages
<1>6. found = {r \in rows : r.uid = msg.uid /\ r.epoch = job.batch.epoch}
  BY DEF At
<1>7. fills => found # {}
  OBVIOUS
<1>8. read /\ ~fills => About[msg.mail].ours = None
  OBVIOUS
<1> HIDE DEF msg, found, fills
<1>9. link \in Links /\ (link.client # None => read)
  <2>1. CASE read
    BY <1>3, <1>5, <2>1, ReadIs
  <2>2. CASE ~read
    BY <2>2, UnlinkedIs
  <2> QED
    BY <2>1, <2>2
<1>10. read => link = Read(msg.mail, msg.body, job.open)
  OBVIOUS
<1> HIDE DEF link, read
<1>11. mark \in Seq(Steps) /\ Range(mark) \subseteq {"mark"}
  BY IfIs DEF Steps
<1> HIDE DEF mark
<1>12. show \in Seq(Steps) /\ Range(show) \subseteq Late /\ "insert" \in Range(show)
  BY <1>11, ShowStepsAre
<1>13. /\ "file" \in Range(show) => link.client # None
       /\ link.hold /\ link.dossier # None => "hold" \in Range(show)
       /\ NotLater("hold", show)
  BY <1>11, ShowStepsAre
<1>14. /\ mark \o <<"body">> \in Seq(Steps) /\ Range(mark \o <<"body">>) \subseteq {"mark", "body"}
       /\ NotLater("hold", mark \o <<"body">>)
  BY <1>11, FillStepsAre
<1> HIDE DEF show
<1>15. <<>> \in Seq(Steps) /\ Range(<<>>) = {} /\ NotLater("hold", <<>>)
  BY DEF Range, NotLater
<1>16. steps \in Seq(Steps) /\ Range(steps) \subseteq Late /\ NotLater("hold", steps)
  BY <1>12, <1>13, <1>14, <1>15 DEF Late
<1>17. "file" \in Range(steps) => ~fills /\ link.client # None /\ steps = show
  BY <1>13, <1>14, <1>15
<1>18. "insert" \notin Range(steps) => fills \/ passed
  BY <1>12
<1> HIDE DEF steps
<1>19. IsJob(job') /\ SameBatch(job, job') /\ job'.i = job.i + 1 /\ job'.link = link /\ job'.todo = steps
  <2> DEFINE n == job.i + 1
  <2>1. n \in Nat
    BY <1>3
  <2>2. job' = [job EXCEPT !.i = n, !.link = link, !.todo = steps]
    BY <1>2
  <2> HIDE DEF n
  <2>3. IsJob(job') /\ SameBatch(job, job') /\ job'.i = n /\ job'.link = link /\ job'.todo = steps
    BY <1>1, <1>9, <1>16, <2>1, <2>2 DEF IsJob, Jobs, SameBatch
  <2> QED
    BY <2>3 DEF n
<1>20. "file" \in Range(steps) =>
          /\ msg.mail \in Mails /\ About[msg.mail].ours = None
          /\ link = Read(msg.mail, msg.body, job.open)
          /\ link.hold /\ link.dossier # None => "hold" \in Range(steps)
  BY <1>5, <1>8, <1>9, <1>10, <1>13, <1>17
<1>21. "insert" \notin Range(steps) =>
          \/ \E r \in rows : r.uid = msg.uid /\ r.epoch = job.batch.epoch
          \/ msg.mail # None /\ ~Admits(job.kept, msg.mail)
  BY <1>6, <1>7, <1>18
<1>22. msg = job.batch.messages[job'.i]
  BY <1>19 DEF msg
<1> QED
  BY <1>1, <1>4, <1>16, <1>19, <1>20, <1>21, <1>22 DEF TakesUp

LEMMA TakenUpInOrder ==
    ASSUME NEW j, NEW k, NEW R, TakesUp(j, k, R)
    PROVE  Ordered(k)
<1>1. /\ Range(k.todo) \subseteq Late /\ k.i \in 1..Len(k.batch.messages)
      /\ \A n \in 1..Len(k.todo) : n > 1 => k.todo[n] # "hold"
      /\ k.todo \in Seq(Steps)
  BY JobFields DEF TakesUp, SameBatch, NotLater
<1>2. \A n \in 1..Len(k.todo) : k.todo[n] \in Late
  BY <1>1, RangeIs
<1>3. Late \cap {"clear", "rewind", "retain"} = {}
  BY DEF Late
<1> QED
  BY <1>1, <1>2, <1>3 DEF Ordered

-----------------------------------------------------------------------------
(* What a pull downloads: the letters of the span, in order, by chunks.    *)

LEMMA ReverseIs ==
    ASSUME NEW S, NEW s \in Seq(S)
    PROVE  /\ Reverse(s) \in Seq(S) /\ Len(Reverse(s)) = Len(s)
           /\ \A k \in 1..Len(s) : Reverse(s)[k] = s[(Len(s) - k) + 1] /\ (Len(s) - k) + 1 \in 1..Len(s)
<1>1. Len(s) \in Nat /\ \A k \in 1..Len(s) : (Len(s) - k) + 1 \in 1..Len(s) /\ s[(Len(s) - k) + 1] \in S
  OBVIOUS
<1>2. Reverse(s) \in [1..Len(s) -> S]
  BY <1>1 DEF Reverse
<1> QED
  BY <1>1, <1>2 DEF Reverse

LEMMA MinIs ==
    ASSUME NEW a \in Int, NEW b \in Int
    PROVE  Min({a, b}) = IF a <= b THEN a ELSE b
<1> DEFINE m == IF a <= b THEN a ELSE b
<1>1. m \in {a, b} /\ \A y \in {a, b} : m =< y
  OBVIOUS
<1>2. Min({a, b}) \in {a, b} /\ \A y \in {a, b} : Min({a, b}) =< y
  <2> DEFINE S == {a, b}
  <2> HIDE DEF S, m
  <2>1. Min(S) \in S /\ \A y \in S : Min(S) =< y
    <3>1. m \in S /\ \A y \in S : m =< y
      BY <1>1 DEF S
    <3> QED
      BY <3>1 DEF Min
  <2> QED
    BY <2>1 DEF S
<1> QED
  BY <1>2

LEMMA Times ==
    ASSUME NEW a \in Int, NEW b \in Int, NEW c \in Nat
    PROVE  /\ c * a \in Int
           /\ a <= b => c * a <= c * b
           /\ c * (a + 1) = c * a + c /\ c * (a - 1) = c * a - c
OBVIOUS

Blocks(n) == (n + Chunk - 1) \div Chunk

LEMMA BlocksAre ==
    ASSUME NEW n \in Nat \ {0}
    PROVE  /\ Blocks(n) \in Nat \ {0} /\ Chunk * Blocks(n) >= n
           /\ Chunk * (Blocks(n) - 1) < n
<1> DEFINE m == n + Chunk - 1
           q == m \div Chunk
           r == m % Chunk
<1>1. Chunk \in Nat \ {0} /\ m \in Nat /\ m >= Chunk
  BY ReleveAssumption
<1>2. q \in Int /\ r \in 0..(Chunk - 1) /\ m = Chunk * q + r
  BY <1>1
<1>3. Blocks(n) = q
  BY DEF Blocks
<1> HIDE DEF q, r
<1>4. Chunk * q \in Int /\ Chunk * (q - 1) = Chunk * q - Chunk
  BY <1>1, <1>2, Times
<1>5. Chunk * q >= n /\ Chunk * (q - 1) < n
  BY <1>1, <1>2, <1>4
<1>6. q > 0
  <2> SUFFICES ASSUME q <= 0 PROVE FALSE
    BY <1>2
  <2>1. Chunk * q <= Chunk * 0
    BY <1>1, <1>2, Times
  <2> QED
    BY <1>1, <1>4, <1>5, <2>1
<1> QED
  BY <1>2, <1>3, <1>5, <1>6

LEMMA BlockOf ==
    ASSUME NEW n \in Nat \ {0}, NEW p \in 1..n
    PROVE  \E i \in 1..Blocks(n) : \E j \in 1..Chunk : p = Chunk * (i - 1) + j
<1> DEFINE q == (p - 1) \div Chunk
           r == (p - 1) % Chunk
<1>1. Chunk \in Nat \ {0} /\ p - 1 \in Nat /\ p \in Nat
  BY ReleveAssumption
<1>2. q \in Int /\ r \in 0..(Chunk - 1) /\ p - 1 = Chunk * q + r
  BY <1>1
<1>3. Blocks(n) \in Nat \ {0} /\ Chunk * Blocks(n) >= n
  BY BlocksAre
<1> HIDE DEF q, r
<1>4. q >= 0
  <2> SUFFICES ASSUME q <= -1 PROVE FALSE
    BY <1>2
  <2>1. Chunk * q <= Chunk * (-1) /\ Chunk * q \in Int
    BY <1>1, <1>2, Times
  <2>2. Chunk * (-1) = -Chunk
    BY <1>1
  <2> QED
    BY <1>1, <1>2, <2>1, <2>2
<1>5. q < Blocks(n)
  <2> SUFFICES ASSUME Blocks(n) <= q PROVE FALSE
    BY <1>2, <1>3
  <2>1. Chunk * Blocks(n) <= Chunk * q /\ Chunk * q \in Int /\ Chunk * Blocks(n) \in Int
    BY <1>1, <1>2, <1>3, Times
  <2> QED
    BY <1>1, <1>2, <1>3, <2>1
<1> DEFINE i == q + 1
           j == r + 1
<1>6. i \in 1..Blocks(n) /\ j \in 1..Chunk /\ i - 1 = q
  BY <1>1, <1>2, <1>3, <1>4, <1>5
<1>7. p = Chunk * (i - 1) + j
  <2>1. Chunk * q \in Int
    BY <1>1, <1>2, Times
  <2> QED
    BY <1>1, <1>2, <1>6, <2>1
<1> HIDE DEF i, j
<1> QED
  BY <1>6, <1>7

(* The length of the i-th chunk of n letters.                              *)
Size(n, i) == Min({i * Chunk, n}) - (i - 1) * Chunk

LEMMA SizeIs ==
    ASSUME NEW n \in Nat \ {0}, NEW i \in 1..Blocks(n)
    PROVE  /\ Size(n, i) \in 1..Chunk
           /\ (i - 1) * Chunk \in Nat /\ (i - 1) * Chunk + Size(n, i) <= n
           /\ Min({i * Chunk, n}) = (i - 1) * Chunk + Size(n, i)
           /\ \A j \in 1..Chunk : (i - 1) * Chunk + j <= n => j \in 1..Size(n, i)
<1> DEFINE a == (i - 1) * Chunk
<1>1. Chunk \in Nat \ {0} /\ Blocks(n) \in Nat \ {0} /\ Chunk * (Blocks(n) - 1) < n
  BY BlocksAre, ReleveAssumption
<1>2. Chunk * (i - 1) <= Chunk * (Blocks(n) - 1) /\ Chunk * (Blocks(n) - 1) \in Int
  BY <1>1, Times
<1>3. Chunk * 0 <= Chunk * (i - 1)
  BY <1>1, Times
<1>4. a = Chunk * (i - 1) /\ i * Chunk = a + Chunk
  BY <1>1, Times
<1> HIDE DEF a
<1>5. a \in Nat /\ a < n
  BY <1>1, <1>2, <1>3, <1>4
<1>6. Min({a + Chunk, n}) = IF a + Chunk <= n THEN a + Chunk ELSE n
  BY <1>1, <1>5, MinIs
<1>7. Size(n, i) = (IF a + Chunk <= n THEN a + Chunk ELSE n) - a /\ Min({i * Chunk, n}) = Min({a + Chunk, n})
  BY <1>4, <1>6 DEF Size, a
<1> QED
  BY <1>1, <1>4, <1>5, <1>6, <1>7 DEF a

LEMMA ChunksAre ==
    ASSUME NEW S, NEW s \in Seq(S), s # <<>>
    PROVE  /\ Len(s) \in Nat \ {0}
           /\ DOMAIN Chunks(s) = 1..Blocks(Len(s)) /\ Len(Chunks(s)) = Blocks(Len(s))
           /\ \A i \in 1..Blocks(Len(s)) : DOMAIN Chunks(s)[i] = 1..Size(Len(s), i)
<1> DEFINE n == Len(s)
           N == Blocks(n)
<1>1. n \in Nat \ {0}
  OBVIOUS
<1>2. N \in Nat
  BY <1>1, BlocksAre
<1>3. Chunks(s) = [i \in 1..N |-> SubSeq(s, (i - 1) * Chunk + 1, Min({i * Chunk, n}))]
  BY Zenon DEF Chunks, Blocks
<1>4. ASSUME NEW i \in 1..N PROVE DOMAIN Chunks(s)[i] = 1..Size(n, i)
  <2> DEFINE a == (i - 1) * Chunk
  <2>1. /\ Size(n, i) \in Nat /\ a \in Nat
        /\ Min({i * Chunk, n}) = a + Size(n, i)
    <3>1. Chunk \in Nat
      BY ReleveAssumption
    <3>2. Size(n, i) \in 1..Chunk /\ a \in Nat /\ Min({i * Chunk, n}) = a + Size(n, i)
      BY <1>1, SizeIs
    <3> QED
      BY <3>1, <3>2
  <2>2. Chunks(s)[i] = SubSeq(s, a + 1, a + Size(n, i))
    BY <1>3, <2>1
  <2> HIDE DEF a
  <2> DEFINE k == Size(n, i)
  <2> HIDE DEF k
  <2>3. DOMAIN SubSeq(s, a + 1, a + k) = 1..k
    BY <2>1 DEF k
  <2> QED
    BY <2>2, <2>3 DEF k
<1> QED
  BY <1>1, <1>2, <1>3, <1>4

LEMMA HeaderIs ==
    ASSUME TypeInv, NEW u \in Uids, NEW h \in HeaderOrPart(u)
    PROVE  h \in Messages /\ h.uid = u /\ h.mail = box[u]
<1>1. u \in Nat /\ box[u] \in Mails
  BY DEF Uids, TypeInv
<1>2. Header(u) = [uid |-> u, mail |-> box[u],
                   body |-> IF About[box[u]].report THEN "ready" ELSE "pending"]
  BY DEF Header
<1>3. Header(u) \in Messages /\ Header(u).uid = u /\ Header(u).mail = box[u]
  BY <1>1, <1>2 DEF Messages, Bodies
<1>4. h = Header(u) \/ h = [Header(u) EXCEPT !.body = "pending"]
  BY DEF HeaderOrPart
<1> QED
  BY <1>3, <1>4 DEF Messages, Bodies

LEMMA IsASequence ==
    ASSUME NEW S, NEW n \in Nat, NEW f \in [1..n -> S]
    PROVE  f \in Seq(S) /\ Len(f) = n
OBVIOUS

(* The letters of the i-th batch.                                          *)
Place(i, j) == (i - 1) * Chunk + j
Bears(m, uids, i) ==
    /\ m \in Seq(Messages) /\ Len(m) = Size(Len(uids), i)
    /\ \A j \in 1..Len(m) : /\ Place(i, j) \in 1..Len(uids) /\ m[j].uid = uids[Place(i, j)]
                            /\ m[j].uid \in Uids /\ m[j].mail = box[m[j].uid]

LEMMA ChunkMessages ==
    ASSUME TypeInv, NEW uids \in Seq(Uids), uids # <<>>,
           NEW headers, \A p \in 1..Len(uids) : headers[p] \in HeaderOrPart(uids[p]),
           NEW i \in 1..Blocks(Len(uids)), NEW m,
           m = [j \in 1..Size(Len(uids), i) |-> headers[(i - 1) * Chunk + j]]
    PROVE  Bears(m, uids, i)
<1> DEFINE n == Len(uids)
           a == (i - 1) * Chunk
           z == Size(n, i)
<1>1. n \in Nat \ {0} /\ \A p \in 1..n : uids[p] \in Uids
  OBVIOUS
<1>2. z \in Nat /\ a \in Nat /\ a + z <= n
  <2>1. Chunk \in Nat
    BY ReleveAssumption
  <2>2. z \in 1..Chunk /\ a \in Nat /\ a + z <= n
    BY <1>1, SizeIs
  <2> QED
    BY <2>1, <2>2
<1>3. m = [j \in 1..z |-> headers[a + j]]
  OBVIOUS
<1> HIDE DEF a, z, n
<1>4. ASSUME NEW j \in 1..z
      PROVE  /\ a + j \in 1..n /\ m[j] \in Messages /\ m[j].uid = uids[a + j]
             /\ m[j].uid \in Uids /\ m[j].mail = box[m[j].uid]
  <2>1. a + j \in 1..n
    BY <1>1, <1>2
  <2>2. m[j] = headers[a + j] /\ headers[a + j] \in HeaderOrPart(uids[a + j])
    BY <1>3, <2>1 DEF n
  <2>3. uids[a + j] \in Uids
    BY <1>1, <2>1
  <2> QED
    BY <2>1, <2>2, <2>3, HeaderIs
<1>5. m \in [1..z -> Messages]
  BY <1>3, <1>4
<1>6. m \in Seq(Messages) /\ Len(m) = z
  BY <1>2, <1>5, IsASequence
<1> QED
  BY <1>4, <1>6 DEF a, z, n, Bears, Place

Resyncs == pull.cursor # NoCursor /\ pull.cursor.epoch # epoch
Start == IF pull.sweep \/ Resyncs THEN 1 ELSE pull.cursor.last + 1
Reads(q) ==
    /\ q \in Seq(Batches) /\ q # <<>>
    /\ q[1].resync <=> Resyncs
    /\ \A k \in 1..Len(q) : q[k].epoch = epoch /\ TrueBatch(q[k]) /\ (q[k].sweeps => pull.sweep)
    /\ InOrder(q)
    /\ \A u \in Uids : u >= Start /\ Admits(pull.kept, box[u]) =>
          /\ \E k \in 1..Len(q) : Shows(q[k], u)
          /\ \A k \in 1..Len(q) : q[k].sweeps => u \in q[k].keep

LEMMA BatchIs ==
    ASSUME NEW e \in Nat, NEW r \in BOOLEAN, NEW ms \in Seq(Messages), NEW x \in Nat,
           NEW w \in BOOLEAN, NEW keep \in SUBSET Nat, NEW b, b = Batch(e, r, ms, x, w, keep)
    PROVE  /\ b \in Batches /\ b.epoch = e /\ b.resync = r /\ b.messages = ms
           /\ b.examined = x /\ b.sweeps = w /\ b.keep = keep
BY DEF Batch, Batches

LEMMA ReadsNothing ==
    ASSUME TypeInv, NEW x \in 0..Len(box), NEW w \in BOOLEAN, w => pull.sweep,
           NEW r \in BOOLEAN, r <=> Resyncs,
           \A u \in Uids : u >= Start => ~Admits(pull.kept, box[u])
    PROVE  Reads(<<Batch(epoch, r, <<>>, x, w, {})>>)
<1> DEFINE b == Batch(epoch, r, <<>>, x, w, {})
<1>1. epoch \in Nat /\ Len(box) \in Nat
  BY DEF TypeInv
<1>2. /\ b \in Batches /\ b.epoch = epoch /\ b.resync = r /\ b.messages = <<>>
      /\ b.examined = x /\ b.sweeps = w
  BY <1>1 DEF Batch, Batches
<1> HIDE DEF b
<1> DEFINE q == <<b>>
<1>3. q \in Seq(Batches) /\ Len(q) = 1 /\ q[1] = b /\ q # <<>>
  BY <1>2
<1> HIDE DEF q
<1>4. TrueBatch(b)
  BY <1>1, <1>2 DEF TrueBatch, TrueMessages
<1>5. InOrder(q)
  BY <1>3 DEF InOrder
<1>6. \A k \in 1..Len(q) : k = 1
  BY <1>3
<1>7. q[1].resync <=> Resyncs
  BY <1>2, <1>3
<1>8. \A k \in 1..Len(q) : q[k].epoch = epoch /\ TrueBatch(q[k]) /\ (q[k].sweeps => pull.sweep)
  BY <1>2, <1>3, <1>4, <1>6
<1>9. Reads(q)
  BY <1>3, <1>5, <1>7, <1>8 DEF Reads
<1> QED
  BY <1>9 DEF q, b

Sought == {u \in Uids : u >= Start /\ Admits(pull.kept, box[u])}

LEMMA SoughtInOrder ==
    ASSUME TypeInv, NEW uids, uids = Ascending(Sought)
    PROVE  /\ uids \in Seq(Uids) /\ Len(uids) \in Nat
           /\ \A p \in 1..Len(uids) : uids[p] \in Sought /\ uids[p] \in Nat
           /\ \A p, r \in 1..Len(uids) : p < r => uids[p] < uids[r]
           /\ \A u \in Sought : \E p \in 1..Len(uids) : uids[p] = u
<1>1. Uids = 1..Len(box) /\ Len(box) \in Nat
  BY DEF Uids, TypeInv
<1>2. IsFiniteSet(Uids)
  BY <1>1, FS_Interval
<1>3. Sought \in SUBSET Uids /\ Sought \in SUBSET Nat
  BY <1>1 DEF Sought
<1>4. IsFiniteSet(Sought)
  BY <1>2, <1>3, FS_Subset
<1> DEFINE n == Cardinality(Sought)
<1>5. /\ n \in Nat /\ uids \in [1..n -> Sought]
      /\ \A i, j \in 1..n : i < j => uids[i] < uids[j]
      /\ \A x \in Sought : \E i \in 1..n : uids[i] = x
  BY <1>3, <1>4, AscendingIs
<1> HIDE DEF n
<1>6. uids \in [1..n -> Uids]
  BY <1>3, <1>5
<1>7. uids \in Seq(Uids) /\ Len(uids) = n
  BY <1>5, <1>6, IsASequence
<1>8. \A p \in 1..n : uids[p] \in Sought
  BY <1>5
<1> QED
  BY <1>3, <1>5, <1>7, <1>8

(* The i-th batch of a pull of these letters.                              *)
Carries(b, uids, i) ==
    /\ b \in Batches /\ b.epoch = epoch
    /\ b.resync <=> Resyncs /\ i = 1
    /\ b.examined \in 0..Len(box) /\ (i # Blocks(Len(uids)) => b.examined = 0)
    /\ b.sweeps <=> pull.sweep /\ i = Blocks(Len(uids))
    /\ b.keep = Range(uids)
    /\ Len(b.messages) = Size(Len(uids), i)
    /\ \A j \in 1..Len(b.messages) :
          /\ Place(i, j) \in 1..Len(uids) /\ b.messages[j].uid = uids[Place(i, j)]
          /\ b.messages[j].uid \in Uids /\ b.messages[j].mail = box[b.messages[j].uid]

LEMMA ChunkCarries ==
    ASSUME TypeInv, NEW uids \in Seq(Uids), uids # <<>>,
           NEW headers, \A p \in 1..Len(uids) : headers[p] \in HeaderOrPart(uids[p]),
           NEW x \in 0..Len(box), NEW resync \in BOOLEAN, resync <=> Resyncs,
           NEW i \in 1..Blocks(Len(uids)), NEW b,
           b = Batch(epoch, resync /\ i = 1,
                     [j \in 1..Size(Len(uids), i) |-> headers[(i - 1) * Chunk + j]],
                     IF i = Blocks(Len(uids)) THEN x ELSE 0,
                     pull.sweep /\ i = Blocks(Len(uids)), Range(uids))
    PROVE  Carries(b, uids, i)
<1> DEFINE y == IF i = Blocks(Len(uids)) THEN x ELSE 0
           s == pull.sweep /\ i = Blocks(Len(uids))
           r == resync /\ i = 1
           keep == Range(uids)
<1>0. PICK m : m = [j \in 1..Size(Len(uids), i) |-> headers[(i - 1) * Chunk + j]]
  OBVIOUS
<1>1. /\ m \in Seq(Messages) /\ Len(m) = Size(Len(uids), i)
      /\ \A j \in 1..Len(m) : /\ Place(i, j) \in 1..Len(uids) /\ m[j].uid = uids[Place(i, j)]
                              /\ m[j].uid \in Uids /\ m[j].mail = box[m[j].uid]
  <2>1. Bears(m, uids, i)
    BY <1>0, ChunkMessages, Zenon
  <2> QED
    BY <2>1 DEF Bears
<1>2. r \in BOOLEAN /\ s \in BOOLEAN
  BY Zenon
<1>3. epoch \in Nat /\ Len(box) \in Nat /\ y \in 0..Len(box) /\ y \in Nat
  BY DEF TypeInv
<1>4. keep \in SUBSET Nat
  <2>1. Uids = 1..Len(box)
    BY DEF Uids, TypeInv
  <2>2. Range(uids) \subseteq Uids
    BY RangeIs
  <2> QED
    BY <1>3, <2>1, <2>2
<1>5. b = Batch(epoch, r, m, y, s, keep)
  BY <1>0, Zenon
<1>6. i # Blocks(Len(uids)) => y = 0
  BY Zenon
<1> HIDE DEF y, s, r, keep
<1>7. /\ b \in Batches /\ b.epoch = epoch /\ b.messages = m
      /\ b.resync = r /\ b.examined = y /\ b.sweeps = s /\ b.keep = keep
  BY <1>1, <1>2, <1>3, <1>4, <1>5, BatchIs
<1>8. (b.resync <=> Resyncs /\ i = 1) /\ (b.sweeps <=> pull.sweep /\ i = Blocks(Len(uids)))
  BY <1>7, Zenon DEF r, s
<1>9. b.keep = Range(uids)
  BY <1>7 DEF keep
<1>10. \A j \in 1..Len(b.messages) :
          /\ Place(i, j) \in 1..Len(uids) /\ b.messages[j].uid = uids[Place(i, j)]
          /\ b.messages[j].uid \in Uids /\ b.messages[j].mail = box[b.messages[j].uid]
  BY <1>1, <1>7, SMTT(60)
<1>11. b.examined \in 0..Len(box) /\ (i # Blocks(Len(uids)) => b.examined = 0)
  BY <1>3, <1>6, <1>7
<1>12. Len(b.messages) = Size(Len(uids), i)
  BY <1>1, <1>7
<1> QED
  BY <1>7, <1>8, <1>9, <1>10, <1>11, <1>12, Zenon DEF Carries

LEMMA ReadsChunks ==
    ASSUME TypeInv, NEW uids, uids = Ascending(Sought), uids # <<>>,
           NEW q, DOMAIN q = 1..Blocks(Len(uids)), q = [i \in DOMAIN q |-> q[i]],
           \A i \in DOMAIN q : Carries(q[i], uids, i)
    PROVE  Reads(q)
<1> DEFINE n == Len(uids)
           N == Blocks(n)
<1>1. /\ uids \in Seq(Uids) /\ n \in Nat
      /\ \A p \in 1..n : uids[p] \in Sought /\ uids[p] \in Nat
      /\ \A p, r \in 1..n : p < r => uids[p] < uids[r]
      /\ \A u \in Sought : \E p \in 1..n : uids[p] = u
  BY SoughtInOrder
<1>2. n \in Nat \ {0}
  BY <1>1
<1>3. N \in Nat \ {0} /\ Chunk \in Nat \ {0} /\ epoch \in Nat /\ Len(box) \in Nat
  BY <1>2, BlocksAre, ReleveAssumption DEF TypeInv
<1>4. \A i \in 1..N : Carries(q[i], uids, i)
  OBVIOUS
<1>5. \A i \in 1..N :
         /\ q[i] \in Batches /\ q[i].epoch = epoch
         /\ (q[i].resync <=> Resyncs /\ i = 1) /\ q[i].examined \in 0..Len(box)
         /\ (i # N => q[i].examined = 0) /\ (q[i].sweeps <=> pull.sweep /\ i = N)
         /\ q[i].keep = Range(uids) /\ Len(q[i].messages) = Size(n, i)
  BY <1>4 DEF Carries
<1>6. \A i \in 1..N : \A j \in 1..Len(q[i].messages) :
         /\ Place(i, j) \in 1..n /\ q[i].messages[j].uid = uids[Place(i, j)]
         /\ q[i].messages[j].uid \in Uids /\ q[i].messages[j].mail = box[q[i].messages[j].uid]
  BY <1>4 DEF Carries
<1>7. q \in Seq(Batches) /\ Len(q) = N /\ q # <<>>
  <2>1. q \in [1..N -> Batches]
    BY <1>5
  <2>2. q \in Seq(Batches) /\ Len(q) = N
    BY <1>3, <2>1, IsASequence
  <2> QED
    BY <1>3, <2>2
<1> DEFINE s == q
<1>8. s \in Seq(Batches) /\ Len(s) = N /\ s # <<>>
  BY <1>7
<1>9. \A i \in 1..N :
         /\ s[i] \in Batches /\ s[i].epoch = epoch
         /\ (s[i].resync <=> Resyncs /\ i = 1) /\ s[i].examined \in 0..Len(box)
         /\ (i # N => s[i].examined = 0) /\ (s[i].sweeps <=> pull.sweep /\ i = N)
         /\ s[i].keep = Range(uids) /\ Len(s[i].messages) = Size(n, i)
  BY <1>5
<1>10. \A i \in 1..N : \A j \in 1..Len(s[i].messages) :
         /\ Place(i, j) \in 1..n /\ s[i].messages[j].uid = uids[Place(i, j)]
         /\ s[i].messages[j].uid \in Uids /\ s[i].messages[j].mail = box[s[i].messages[j].uid]
  BY <1>6
<1> HIDE DEF s, N, n
<1>11. \A i \in 1..N : TrueBatch(s[i])
  <2> SUFFICES ASSUME NEW i \in 1..N PROVE TrueBatch(s[i])
    OBVIOUS
  <2>1. s[i].epoch <= epoch /\ s[i].examined <= Len(box)
    BY <1>3, <1>9
  <2>2. TrueMessages(s[i])
    BY <1>10 DEF TrueMessages
  <2> QED
    BY <2>1, <2>2 DEF TrueBatch
<1>12. ASSUME NEW k \in 1..N, NEW l \in 1..N, k < l PROVE Before(s[k], s[l])
  <2>1. k # N /\ l # 1
    BY <1>3, <1>12
  <2>2. s[k].epoch = s[l].epoch /\ ~s[l].resync /\ ~s[k].sweeps /\ s[k].examined = 0
    BY <1>9, <2>1
  <2>3. ASSUME NEW a \in 1..Len(s[k].messages), NEW b \in 1..Len(s[l].messages)
        PROVE  s[k].messages[a].uid < s[l].messages[b].uid
    <3>1. /\ Place(k, a) \in 1..n /\ Place(l, b) \in 1..n
          /\ s[k].messages[a].uid = uids[Place(k, a)] /\ s[l].messages[b].uid = uids[Place(l, b)]
      BY <1>10
    <3>2. Size(n, k) \in 1..Chunk /\ Size(n, l) \in 1..Chunk
      BY <1>2, SizeIs DEF N
    <3>3. a \in 1..Size(n, k) /\ b \in 1..Size(n, l)
      BY <1>9
    <3>4. /\ Chunk * (k - 1) + Chunk = Chunk * k /\ Chunk * k <= Chunk * (l - 1)
          /\ Chunk * (k - 1) \in Int /\ Chunk * (l - 1) \in Int
      <4>1. k \in Int /\ k - 1 \in Int /\ l - 1 \in Int /\ k <= l - 1 /\ Chunk \in Nat
        BY <1>3, <1>12, SMTT(60)
      <4>2. Chunk * k <= Chunk * (l - 1)
        BY <4>1, Times
      <4>3. Chunk * (k - 1) \in Int /\ Chunk * (l - 1) \in Int
        BY <4>1, Times
      <4>4. Chunk * (k - 1) = Chunk * k - Chunk /\ Chunk * k \in Int
        BY <4>1, Times
      <4> QED
        BY <4>1, <4>2, <4>3, <4>4, SMTT(60)
    <3>5. Place(k, a) = Chunk * (k - 1) + a /\ Place(l, b) = Chunk * (l - 1) + b
      BY <1>3, <3>2, <3>3, SMTT(60) DEF Place
    <3>6. Place(k, a) < Place(l, b)
      BY <1>3, <3>2, <3>3, <3>4, <3>5, SMTT(90)
    <3> QED
      BY <1>1, <3>1, <3>6, SMTT(90) DEF n
  <2> QED
    BY <2>2, <2>3 DEF Before
<1>13. ASSUME NEW u \in Uids, u >= Start, Admits(pull.kept, box[u])
       PROVE  (\E k \in 1..N : Shows(s[k], u)) /\ \A k \in 1..N : u \in s[k].keep
  <2>1. u \in Sought
    BY <1>13 DEF Sought
  <2>2. PICK p \in 1..n : uids[p] = u
    BY <1>1, <2>1 DEF n
  <2>3. PICK i \in 1..N : \E j \in 1..Chunk : p = Chunk * (i - 1) + j
    BY <1>2, BlockOf DEF N
  <2>4. PICK j \in 1..Chunk : p = Chunk * (i - 1) + j
    BY <2>3
  <2>5. Place(i, j) = p
    BY <1>3, <2>4 DEF Place
  <2>6. j \in 1..Size(n, i)
    <3>1. (i - 1) * Chunk + j <= n
      BY <2>2, <2>5 DEF Place
    <3> QED
      BY <1>2, <3>1, SizeIs DEF N
  <2>7. j \in 1..Len(s[i].messages)
    BY <1>9, <2>6
  <2>8. s[i].messages[j].uid = u
    BY <1>10, <2>2, <2>5, <2>7
  <2>9. u \in Range(uids)
    <3>1. Range(uids) = {uids[k] : k \in 1..Len(uids)}
      BY <1>1, RangeIs
    <3> QED
      BY <2>2, <3>1 DEF n
  <2> QED
    BY <1>9, <2>7, <2>8, <2>9 DEF Shows
<1>14. s[1].resync <=> Resyncs
  BY <1>3, <1>9
<1>15. \A k \in 1..Len(s) : s[k].epoch = epoch /\ TrueBatch(s[k]) /\ (s[k].sweeps => pull.sweep)
  BY <1>8, <1>9, <1>11
<1>16. InOrder(s)
  BY <1>8, <1>12 DEF InOrder
<1> QED
  BY <1>8, <1>13, <1>14, <1>15, <1>16 DEF Reads, s

LEMMA FetchReads ==
    ASSUME TypeInv, Fetch
    PROVE  /\ pull' = [pull EXCEPT !.pc = "pulling", !.queue = pull'.queue]
           /\ Reads(pull'.queue)
<1> DEFINE span == {u \in Uids : u >= Start}
           wanted == {u \in span : Admits(pull.kept, box[u])}
           uids == Ascending(wanted)
           chunks == Chunks(uids)
           examined == IF pull.kept = "listed" THEN Len(box) ELSE 0
           Nothing == Batch(epoch, FALSE, <<>>, 0, FALSE, {})
           At3(headers, i) == Batch(epoch, Resyncs /\ i = 1,
                              [j \in DOMAIN chunks[i] |-> headers[(i - 1) * Chunk + j]],
                              IF i = Len(chunks) THEN examined ELSE 0,
                              pull.sweep /\ i = Len(chunks), Range(uids))
           queue(headers) ==
               IF span = {} /\ ~pull.sweep /\ ~Resyncs THEN <<Nothing>>
               ELSE IF uids = <<>> THEN <<Batch(epoch, Resyncs, <<>>, examined, pull.sweep, {})>>
               ELSE [i \in DOMAIN chunks |-> At3(headers, i)]
<1>1. PICK headers : 
         /\ \A i \in DOMAIN uids : headers[i] \in HeaderOrPart(uids[i])
         /\ pull' = [pull EXCEPT !.pc = "pulling", !.queue = queue(headers)]
  BY ZenonT(60) DEF Fetch, Start, Resyncs
<1>2. pull \in Pulls
  BY DEF TypeInv
<1>3. pull'.queue = queue(headers)
  BY <1>1, <1>2 DEF Pulls
<1>4. wanted = Sought
  BY DEF Sought
<1>5. Resyncs \in BOOLEAN /\ pull.sweep \in BOOLEAN
  <2>1. Resyncs \in BOOLEAN
    BY Zenon DEF Resyncs
  <2>2. pull.sweep \in BOOLEAN
    BY <1>2 DEF Pulls
  <2> QED
    BY <2>1, <2>2
<1>6. examined \in 0..Len(box) /\ Len(box) \in Nat
  BY DEF TypeInv
<1> HIDE DEF examined
<1>7. CASE span = {} /\ ~pull.sweep /\ ~Resyncs
  <2>1. queue(headers) = <<Nothing>>
    BY <1>7
  <2>2. \A u \in Uids : u >= Start => ~Admits(pull.kept, box[u])
    BY <1>7
  <2>3. 0 \in 0..Len(box) /\ FALSE \in BOOLEAN /\ (FALSE <=> Resyncs)
    BY <1>6, <1>7
  <2>4. Reads(<<Nothing>>)
    BY <2>2, <2>3, ReadsNothing
  <2> QED
    BY <1>1, <1>3, <2>1, <2>4
<1>8. CASE ~(span = {} /\ ~pull.sweep /\ ~Resyncs) /\ uids = <<>>
  <2>1. queue(headers) = <<Batch(epoch, Resyncs, <<>>, examined, pull.sweep, {})>>
    BY <1>8
  <2>2. \A u \in Uids : u >= Start => ~Admits(pull.kept, box[u])
    <3>1. \A u \in Sought : \E p \in 1..Len(uids) : uids[p] = u
      BY <1>4, SoughtInOrder
    <3>2. Sought = {}
      BY <1>8, <3>1
    <3> QED
      BY <3>2 DEF Sought
  <2>3. Reads(<<Batch(epoch, Resyncs, <<>>, examined, pull.sweep, {})>>)
    BY <1>5, <1>6, <2>2, ReadsNothing
  <2> QED
    BY <1>1, <1>3, <2>1, <2>3
<1>9. CASE ~(span = {} /\ ~pull.sweep /\ ~Resyncs) /\ uids # <<>>
  <2> DEFINE q == [i \in DOMAIN chunks |-> At3(headers, i)]
             n == Len(uids)
  <2>1. queue(headers) = q
    BY <1>9
  <2>2. uids \in Seq(Uids) /\ uids = Ascending(Sought)
    BY <1>4, SoughtInOrder
  <2>3. /\ n \in Nat \ {0} /\ DOMAIN chunks = 1..Blocks(n) /\ Len(chunks) = Blocks(n)
        /\ \A i \in 1..Blocks(n) : DOMAIN chunks[i] = 1..Size(n, i)
    BY <1>9, <2>2, ChunksAre
  <2>4. \A p \in 1..n : headers[p] \in HeaderOrPart(uids[p])
    BY <1>1, <2>2, RangeIs
  <2> HIDE DEF chunks, uids
  <2>5. ASSUME NEW i \in DOMAIN q PROVE Carries(q[i], uids, i)
    <3>1. i \in 1..Blocks(n)
      BY <2>3, <2>5
    <3>2. q[i] = Batch(epoch, Resyncs /\ i = 1,
                       [j \in 1..Size(n, i) |-> headers[(i - 1) * Chunk + j]],
                       IF i = Blocks(n) THEN examined ELSE 0,
                       pull.sweep /\ i = Blocks(n), Range(uids))
      BY <2>3, <3>1
    <3> HIDE DEF q
    <3> QED
      BY <1>5, <1>6, <1>9, <2>2, <2>4, <3>1, <3>2, ChunkCarries, SMTT(60)
  <2>6. DOMAIN q = 1..Blocks(n) /\ q = [i \in DOMAIN q |-> q[i]]
    BY <2>3
  <2> HIDE DEF q
  <2>7. Reads(q)
    BY <1>9, <2>2, <2>5, <2>6, ReadsChunks, ZenonT(60)
  <2> QED
    BY <1>1, <1>3, <2>1, <2>7, ZenonT(60)
<1> QED
  BY <1>7, <1>8, <1>9

-----------------------------------------------------------------------------
(* What a commit of a batch does to the batch at hand.                     *)

SamePull(p, q) == p.pc = q.pc /\ p.cursor = q.cursor /\ p.kept = q.kept /\ p.gen = q.gen /\ p.sweep = q.sweep
Ends(failed) ==
    /\ job' = NoJob
    /\ pull' \in Pulls /\ SamePull(pull, pull')
    /\ IF job.by = "pull" THEN pull'.queue = Tail(pull.queue) /\ (pull'.failed <=> pull.failed \/ failed)
       ELSE pull' = pull
    /\ fill' = fill \/ fill' = NoFill

LEMMA EndBatchEnds ==
    ASSUME TypeInv, OfThePull, job # NoJob, NEW failed \in BOOLEAN, EndBatch(failed)
    PROVE  Ends(failed)
<1>1. pull \in Pulls /\ pull.queue \in Seq(Batches)
  BY DEF TypeInv, Pulls
<1>2. CASE job.by = "pull"
  <2> DEFINE rest == Tail(pull.queue)
             bad == pull.failed \/ failed
  <2>1. pull.queue # <<>>
    BY <1>2 DEF OfThePull
  <2>2. rest \in Seq(Batches)
    BY <1>1, <2>1, TailIs
  <2>3. bad \in BOOLEAN
    BY Zenon
  <2>4. pull' = [pull EXCEPT !.queue = rest, !.failed = bad]
    BY <1>2 DEF EndBatch
  <2> HIDE DEF rest, bad
  <2>5. pull' \in Pulls /\ SamePull(pull, pull') /\ pull'.queue = rest /\ pull'.failed = bad
    BY <1>1, <2>2, <2>3, <2>4 DEF Pulls, SamePull
  <2>6. pull'.failed <=> pull.failed \/ failed
    BY <2>5, Zenon DEF bad
  <2> QED
    BY <1>2, <2>5, <2>6 DEF Ends, EndBatch, rest
<1>3. CASE job.by # "pull"
  BY <1>1, <1>3 DEF Ends, EndBatch, SamePull
<1> QED
  BY <1>2, <1>3

Commits(step) == Popped(step, job, job') /\ UNCHANGED <<pull, fill>>

LEMMA CommitsAre ==
    ASSUME TypeInv, OfThePull
    PROVE  /\ ClearRows => Commits("clear")
           /\ ClearCursor => Commits("rewind")
           /\ ForgetFiling => Commits("forget")
           /\ ForgetFault => Commits("unfault")
           /\ ForgetHold => Commits("unhold")
           /\ Hold => Commits("hold") \/ (Ends(TRUE) /\ Refused /\ job # NoJob /\ UNCHANGED hold)
           /\ File => Commits("file") \/ (Ends(TRUE) /\ Refused /\ job # NoJob /\ UNCHANGED filing)
           /\ Mark => Commits("mark")
           /\ Insert => Commits("insert")
           /\ FillBody => Commits("body")
<1>1. \A step : Doing(step) /\ Done => Commits(step)
  BY DonePops DEF Commits, Done
<1>2. \A step : Doing(step) => IsJob(job) /\ job # NoJob /\ job.todo \in Seq(Steps) /\ job.todo # <<>>
                               /\ Head(job.todo) = step /\ Tail(job.todo) \in Seq(Steps)
  <2> SUFFICES ASSUME NEW step, Doing(step)
               PROVE  IsJob(job) /\ job # NoJob /\ job.todo \in Seq(Steps) /\ job.todo # <<>>
                      /\ Head(job.todo) = step /\ Tail(job.todo) \in Seq(Steps)
    OBVIOUS
  <2>1. IsJob(job) /\ job # NoJob /\ job.todo # <<>> /\ Head(job.todo) = step
    BY JobAtWork DEF Doing, Working
  <2>2. job.todo \in Seq(Steps)
    BY <2>1, JobFields
  <2> QED
    BY <2>1, <2>2, TailIs
<1>3. ForgetFiling => Commits("forget")
  <2> SUFFICES ASSUME ForgetFiling PROVE Commits("forget")
    OBVIOUS
  <2>1. Doing("forget") /\ UNCHANGED <<pull, fill>>
    BY DEF ForgetFiling
  <2>2. PICK from : job' = [job EXCEPT !.todo = Tail(job.todo), !.from = from]
    BY DEF ForgetFiling
  <2>3. PICK todo : todo = Tail(job.todo)
    OBVIOUS
  <2>4. IsJob(job) /\ todo \in Seq(Steps) /\ job' = [job EXCEPT !.todo = todo, !.from = from]
    BY <1>2, <2>1, <2>2, <2>3
  <2>5. IsJob(job') /\ SameBatch(job, job') /\ job'.i = job.i /\ job'.link = job.link /\ job'.todo = todo
    BY <2>4 DEF IsJob, Jobs, SameBatch
  <2> QED
    BY <1>2, <2>1, <2>3, <2>5 DEF Commits, Popped
<1>4. ForgetHold => Commits("unhold")
  <2> SUFFICES ASSUME ForgetHold PROVE Commits("unhold")
    OBVIOUS
  <2>1. Doing("unhold") /\ UNCHANGED <<pull, fill>>
    BY DEF ForgetHold
  <2>2. PICK gone : job' = [job EXCEPT !.todo = Tail(job.todo), !.gone = gone]
    BY DEF ForgetHold
  <2>3. PICK todo : todo = Tail(job.todo)
    OBVIOUS
  <2>4. IsJob(job) /\ todo \in Seq(Steps) /\ job' = [job EXCEPT !.todo = todo, !.gone = gone]
    BY <1>2, <2>1, <2>2, <2>3
  <2>5. IsJob(job') /\ SameBatch(job, job') /\ job'.i = job.i /\ job'.link = job.link /\ job'.todo = todo
    BY <2>4 DEF IsJob, Jobs, SameBatch
  <2> QED
    BY <1>2, <2>1, <2>3, <2>5 DEF Commits, Popped
<1>5. \A step : Doing(step) /\ EndBatch(TRUE) => Ends(TRUE) /\ job # NoJob
  BY <1>2, EndBatchEnds
<1>6. Hold => Commits("hold") \/ (Ends(TRUE) /\ Refused /\ job # NoJob /\ UNCHANGED hold)
  BY <1>1, <1>5 DEF Hold
<1>7. File => Commits("file") \/ (Ends(TRUE) /\ Refused /\ job # NoJob /\ UNCHANGED filing)
  BY <1>1, <1>5 DEF File
<1> QED
  BY <1>1, <1>3, <1>4, <1>6, <1>7 DEF ClearRows, ClearCursor, ForgetFault, Mark, Insert, FillBody

(* The letters that leave the mirror are forgotten one after another.      *)
Forgets(j, k) ==
    /\ IsJob(j) /\ IsJob(k) /\ SameBatch(j, k) /\ k.i = j.i
    /\ j.todo \in Seq(Steps) /\ j.todo # <<>> /\ Head(j.todo) = "retain"
    /\ Range(k.todo) \subseteq {"forget", "unfault", "unhold"}
    /\ \A n \in 1..Len(k.todo) : k.todo[n] \in {"forget", "unfault", "unhold"}

LEMMA RetainIs ==
    ASSUME TypeInv, Retain
    PROVE  /\ Forgets(job, job') /\ UNCHANGED <<pull, fill>>
           /\ rows' = rows \ {r \in rows : r.epoch = job.batch.epoch /\ r.uid \notin job.batch.keep}
<1> DEFINE out == {r \in rows : r.epoch = job.batch.epoch /\ r.uid \notin job.batch.keep}
           gone == SetToSeq({r.mail : r \in out} \ {None})
           todo == [n \in 1..(3 * Len(gone)) |-> Forgetting[((n - 1) % 3) + 1]]
<1>1. Doing("retain") /\ rows' = rows \ out /\ job' = [job EXCEPT !.gone = gone, !.todo = todo]
      /\ UNCHANGED <<pull, fill>>
  BY Zenon DEF Retain
<1>2. IsJob(job) /\ job # NoJob /\ job.todo # <<>> /\ Head(job.todo) = "retain"
  BY <1>1, JobAtWork DEF Doing, Working
<1>3. Len(gone) \in Nat
  BY RetainTodo
<1>4. PICK s : s = todo
  OBVIOUS
<1>5. /\ s \in Seq(Steps) /\ Range(s) \subseteq {"forget", "unfault", "unhold"}
      /\ \A k \in 1..Len(s) : s[k] \in {"forget", "unfault", "unhold"}
  BY <1>3, <1>4, ForgettingIs
<1> HIDE DEF todo, gone
<1>6. job' = [job EXCEPT !.gone = gone, !.todo = s]
  BY <1>1, <1>4
<1>7. IsJob(job') /\ SameBatch(job, job') /\ job'.i = job.i /\ job'.todo = s
  BY <1>2, <1>5, <1>6 DEF IsJob, Jobs, SameBatch
<1>8. job.todo \in Seq(Steps)
  BY <1>2, JobFields
<1> QED
  BY <1>1, <1>2, <1>5, <1>7, <1>8 DEF Forgets

-----------------------------------------------------------------------------
(* What is asked for, what is downloaded, and where the cursor goes.       *)

LEMMA AskForIs ==
    ASSUME TypeInv, NEW asked \in SUBSET rows, NEW e \in Nat, AskFor(asked, e)
    PROVE  /\ fill' \in Fills /\ fill'.epoch = e /\ fill'.queue = <<>>
           /\ \A k \in 1..Len(fill'.uids) : \E r \in asked : r.uid = fill'.uids[k]
<1> DEFINE f == [r \in asked |-> r.uid]
           S == {r.uid : r \in asked}
           n == Cardinality(S)
           s == Ascending(S)
           t == Reverse(s)
<1>1. IsFiniteSet(asked)
  BY FS_Subset DEF TypeInv
<1>2. IsFiniteSet(Range(f)) /\ Range(f) = S
  <2>1. IsFiniteSet(Range(f))
    BY <1>1, FiniteImage
  <2> QED
    BY <2>1 DEF Range
<1>3. S \in SUBSET Nat
  BY DEF TypeInv, Rows
<1>4. n \in Nat /\ s \in [1..n -> S]
  BY <1>2, <1>3, AscendingIs
<1>5. fill' = [pc |-> "asked", uids |-> t, epoch |-> e, queue |-> <<>>]
  BY DEF AskFor
<1> HIDE DEF n, s, S
<1>6. s \in Seq(S) /\ Len(s) = n
  BY <1>4, IsASequence
<1>7. /\ t \in Seq(S) /\ Len(t) = n
      /\ \A k \in 1..n : t[k] \in S
  BY <1>6, ReverseIs
<1> HIDE DEF t
<1>8. t \in Seq(Nat)
  <2>1. \A y \in S : y \in Nat
    BY <1>3
  <2>2. DOMAIN t = 1..n /\ t = [k \in 1..n |-> t[k]] /\ \A k \in 1..n : t[k] \in Nat
    BY <1>7, <2>1
  <2>3. t \in [1..n -> Nat]
    BY <2>2
  <2> QED
    BY <1>4, <2>3, IsASequence
<1>9. fill' \in Fills /\ fill'.epoch = e /\ fill'.queue = <<>> /\ fill'.uids = t
  BY <1>5, <1>8 DEF Fills
<1>10. \A k \in 1..n : \E r \in asked : r.uid = t[k]
  BY <1>7 DEF S
<1> QED
  BY <1>7, <1>9, <1>10

(* The bodies of the letters asked for, as they are now numbered.          *)
LEMMA FetchBodyIs ==
    ASSUME TypeInv, FetchBody
    PROVE  /\ fill' \in Fills /\ fill'.epoch = fill.epoch /\ fill'.uids = fill.uids
           /\ Len(fill'.queue) = 1
           /\ LET b == fill'.queue[1]
              IN  /\ b.epoch = fill.epoch /\ Quiet(b) /\ b.examined = 0
                  /\ \A k \in 1..Len(b.messages) :
                        /\ k \in 1..Len(fill.uids) /\ b.messages[k].uid = fill.uids[k]
                        /\ b.messages[k].uid \in Uids => b.messages[k].mail = box[b.messages[k].uid]
<1>1. fill \in Fills /\ fill.uids \in Seq(Nat) /\ fill.epoch \in Nat
  BY DEF TypeInv, Fills
<1> DEFINE n == Len(fill.uids)
           ms == [i \in DOMAIN fill.uids |-> Body(fill.uids[i])]
           b == Batch(fill.epoch, FALSE, ms, 0, FALSE, {})
<1>2. n \in Nat /\ DOMAIN fill.uids = 1..n /\ \A i \in 1..n : fill.uids[i] \in Nat
  BY <1>1
<1>3. fill' = [fill EXCEPT !.pc = "fetched", !.queue = <<b>>]
  BY DEF FetchBody
<1>4. ASSUME NEW i \in 1..n
      PROVE  ms[i] \in Messages /\ ms[i].uid = fill.uids[i]
             /\ (ms[i].uid \in Uids => ms[i].mail = box[ms[i].uid])
  <2> DEFINE u == fill.uids[i]
  <2>1. ms[i] = Body(u) /\ u \in Nat
    BY <1>2
  <2> HIDE DEF u
  <2>2. u \in Uids => box[u] \in Mails
    BY DEF Uids, TypeInv
  <2>3. Body(u) \in Messages /\ Body(u).uid = u /\ (u \in Uids => Body(u).mail = box[u])
    BY <2>1, <2>2 DEF Body, Messages, Bodies
  <2> QED
    BY <2>1, <2>3 DEF u
<1> HIDE DEF ms
<1>5. ms \in Seq(Messages) /\ Len(ms) = n
  <2>1. ms \in [1..n -> Messages]
    BY <1>2, <1>4 DEF ms
  <2> QED
    BY <1>2, <2>1, IsASequence
<1>6. /\ b \in Batches /\ b.epoch = fill.epoch /\ b.resync = FALSE /\ b.messages = ms
      /\ b.examined = 0 /\ b.sweeps = FALSE
  BY <1>1, <1>5 DEF Batch, Batches
<1> HIDE DEF b
<1> DEFINE q == <<b>>
<1>9. q \in Seq(Batches) /\ Len(q) = 1 /\ q[1] = b
  BY <1>6
<1>10. fill' = [fill EXCEPT !.pc = "fetched", !.queue = q]
  BY <1>3
<1> HIDE DEF q
<1>7. fill' \in Fills /\ fill'.epoch = fill.epoch /\ fill'.uids = fill.uids /\ fill'.queue = q
  BY <1>1, <1>9, <1>10 DEF Fills
<1>8. Len(fill'.queue) = 1 /\ fill'.queue[1] = b
  BY <1>7, <1>9
<1> QED
  BY <1>4, <1>5, <1>6, <1>7, <1>8 DEF Quiet

LEMMA RememberIs ==
    ASSUME TypeInv, Remember
    PROVE  /\ cursor' \in Cursors /\ cursor'.epoch = job.batch.epoch
           /\ \A u \in Nat : u <= cursor'.last <=> u <= cursor.last \/ Passes(job.batch, u)
<1>1. IsJob(job)
  BY JobAtWork DEF Remember, Working
<1> DEFINE ms == job.batch.messages
           x == job.batch.examined
           S == {x, cursor.last} \cup {m.uid : m \in Range(ms)}
           f == [m \in Range(ms) |-> m.uid]
<1>2. ms \in Seq(Messages) /\ x \in Nat /\ job.batch.epoch \in Nat /\ cursor.last \in Nat
  BY <1>1, JobFields DEF TypeInv, Cursors
<1>3. Range(ms) = {ms[k] : k \in 1..Len(ms)} /\ Range(ms) \subseteq Messages
  BY <1>2, RangeIs
<1>4. IsFiniteSet(S)
  <2>1. IsFiniteSet(Range(ms))
    BY <1>2, FiniteRange
  <2>2. IsFiniteSet(Range(f)) /\ Range(f) = {m.uid : m \in Range(ms)}
    <3>1. IsFiniteSet(Range(f))
      BY <2>1, FiniteImage
    <3> QED
      BY <3>1 DEF Range
  <2>3. IsFiniteSet({x} \cup Range(f))
    BY <2>2, FS_AddElement, ZenonT(60)
  <2>4. IsFiniteSet(({x} \cup Range(f)) \cup {cursor.last})
    BY <2>3, FS_AddElement
  <2>5. S = ({x} \cup Range(f)) \cup {cursor.last}
    BY <2>2
  <2> QED
    BY <2>4, <2>5
<1>5. S \in SUBSET Nat /\ S # {}
  BY <1>2, <1>3, ZenonT(60) DEF Messages
<1>6. cursor' = [epoch |-> job.batch.epoch, last |-> Max(S)]
  BY DEF Remember
<1>7. Max(S) \in S /\ \A y \in S : y <= Max(S)
  BY <1>4, <1>5, MaxIs
<1> DEFINE top == Max(S)
<1>8. \A y : y \in S <=> y = x \/ y = cursor.last \/ \E k \in 1..Len(ms) : y = ms[k].uid
  BY <1>3
<1> HIDE DEF S
<1>9. top \in Nat /\ cursor' = [epoch |-> job.batch.epoch, last |-> top]
  BY <1>5, <1>6, <1>7
<1>10. ASSUME NEW u \in Nat
       PROVE  u <= top <=> u <= cursor.last \/ u <= x \/ \E k \in 1..Len(ms) : u <= ms[k].uid
  <2>1. ASSUME u <= top PROVE u <= cursor.last \/ u <= x \/ \E k \in 1..Len(ms) : u <= ms[k].uid
    BY <1>7, <1>8, <2>1
  <2>2. \A y \in S : y \in Nat /\ y <= top
    BY <1>5, <1>7
  <2>3. ASSUME NEW y \in S, u <= y PROVE u <= top
    BY <1>9, <2>2, <2>3
  <2> QED
    BY <1>8, <2>1, <2>3
<1> HIDE DEF top, ms, x
<1>11. cursor' \in Cursors /\ cursor'.epoch = job.batch.epoch /\ cursor'.last = top
  BY <1>2, <1>9 DEF Cursors
<1> QED
  BY <1>10, <1>11 DEF Passes, ms, x

LEMMA NothingIs ==
    /\ NoPull \in Pulls /\ NoFill \in Fills /\ NoCursor \in Cursors
    /\ NoPull.pc = "idle" /\ NoPull.queue = <<>> /\ ~NoPull.failed /\ NoFill.queue = <<>>
    /\ NoFill.epoch = 0 /\ NoFill.uids = <<>>
<1>1. <<>> \in Seq(Batches) /\ <<>> \in Seq(Nat)
  OBVIOUS
<1> QED
  BY <1>1 DEF NoPull, NoFill, NoCursor, Pulls, Fills, Cursors, Scopes

SameBut(p, q) == p.kept = q.kept /\ p.gen = q.gen /\ p.queue = q.queue /\ (p.failed <=> q.failed)

(* What the pull is after each of its steps.                               *)
LEMMA PullMoves ==
    ASSUME TypeInv
    PROVE  /\ Plan => /\ pull' \in Pulls /\ pull'.pc = "planned" /\ pull'.cursor = cursor
                      /\ pull'.kept = kept /\ pull'.gen = gen /\ pull'.queue = <<>> /\ ~pull'.failed
           /\ Rewind => /\ pull' \in Pulls /\ pull'.pc = "rewound" /\ SameBut(pull, pull')
                        /\ cursor' \in Cursors /\ cursor'.epoch = cursor.epoch /\ cursor'.last = 0
                        /\ pull.cursor = cursor => pull'.cursor = cursor'
           /\ Prepare => /\ pull' \in Pulls /\ pull'.pc = "prepared" /\ SameBut(pull, pull')
                         /\ pull'.cursor = pull.cursor
                         /\ pull'.sweep <=> pull.gen # applied /\ pull.kept = "listed"
           /\ Lose => /\ pull' \in Pulls /\ SamePull(pull, pull') /\ pull'.failed /\ pull'.queue = <<>>
           /\ Pulled => /\ pull' \in Pulls
                        /\ IF pull.failed THEN pull' = NoPull
                           ELSE /\ pull'.pc = "pulled" /\ SameBut(pull, pull')
                                /\ pull'.cursor = pull.cursor
<1>1. pull \in Pulls /\ pull.cursor \in Cursors /\ cursor \in Cursors /\ kept \in Scopes /\ gen \in Nat
  BY DEF TypeInv, Pulls
<1>2. ASSUME Plan
      PROVE  /\ pull' \in Pulls /\ pull'.pc = "planned" /\ pull'.cursor = cursor
             /\ pull'.kept = kept /\ pull'.gen = gen /\ pull'.queue = <<>> /\ ~pull'.failed
  <2>1. pull' = [pc |-> "planned", cursor |-> cursor, kept |-> kept, gen |-> gen,
                 sweep |-> FALSE, failed |-> FALSE, queue |-> <<>>]
    BY <1>2 DEF Plan, NoPull
  <2>2. <<>> \in Seq(Batches)
    OBVIOUS
  <2> QED
    BY <1>1, <2>1, <2>2 DEF Pulls
<1>3. ASSUME Rewind
      PROVE  /\ pull' \in Pulls /\ pull'.pc = "rewound" /\ SameBut(pull, pull')
             /\ cursor' \in Cursors /\ cursor'.epoch = cursor.epoch /\ cursor'.last = 0
             /\ pull.cursor = cursor => pull'.cursor = cursor'
  <2> DEFINE c == [pull.cursor EXCEPT !.last = 0]
  <2>1. c \in Cursors
    BY <1>1 DEF Cursors
  <2>2. pull' = [pull EXCEPT !.pc = "rewound", !.cursor = c]
    BY <1>1, <1>3 DEF Rewind, Pulls
  <2>3. cursor' = [cursor EXCEPT !.last = 0]
    BY <1>3 DEF Rewind
  <2>4. cursor' \in Cursors /\ cursor'.epoch = cursor.epoch /\ cursor'.last = 0
    BY <1>1, <2>3 DEF Cursors
  <2>5. pull.cursor = cursor => c = cursor'
    BY <2>3
  <2> HIDE DEF c
  <2>6. pull' \in Pulls /\ pull'.pc = "rewound" /\ pull'.cursor = c /\ SameBut(pull, pull')
    BY <1>1, <2>1, <2>2 DEF Pulls, SameBut
  <2> QED
    BY <2>4, <2>5, <2>6
<1>4. ASSUME Prepare
      PROVE  /\ pull' \in Pulls /\ pull'.pc = "prepared" /\ SameBut(pull, pull')
             /\ pull'.cursor = pull.cursor
             /\ pull'.sweep <=> pull.gen # applied /\ pull.kept = "listed"
  <2> DEFINE w == pull.gen # applied /\ pull.kept = "listed"
  <2>1. w \in BOOLEAN
    BY Zenon
  <2>2. pull' = [pull EXCEPT !.pc = "prepared", !.sweep = w]
    BY <1>4 DEF Prepare
  <2> HIDE DEF w
  <2>3. /\ pull' \in Pulls /\ pull'.pc = "prepared" /\ pull'.sweep = w /\ SameBut(pull, pull')
        /\ pull'.cursor = pull.cursor
    BY <1>1, <2>1, <2>2 DEF Pulls, SameBut
  <2>4. pull'.sweep <=> pull.gen # applied /\ pull.kept = "listed"
    BY <2>3, Zenon DEF w
  <2> QED
    BY <2>3, <2>4
<1>5. ASSUME Lose
      PROVE  pull' \in Pulls /\ SamePull(pull, pull') /\ pull'.failed /\ pull'.queue = <<>>
  <2>1. pull' = [pull EXCEPT !.failed = TRUE, !.queue = <<>>] /\ <<>> \in Seq(Batches)
    BY <1>5 DEF Lose
  <2> QED
    BY <1>1, <2>1 DEF Pulls, SamePull
<1>6. ASSUME Pulled
      PROVE  /\ pull' \in Pulls
             /\ IF pull.failed THEN pull' = NoPull
                ELSE pull'.pc = "pulled" /\ SameBut(pull, pull') /\ pull'.cursor = pull.cursor
  <2>1. CASE pull.failed
    BY <1>6, <2>1, NothingIs DEF Pulled
  <2>2. CASE ~pull.failed
    <3>1. pull' = [pull EXCEPT !.pc = "pulled"]
      BY <1>6, <2>2 DEF Pulled
    <3> QED
      BY <1>1, <2>2, <3>1 DEF Pulls, SameBut
  <2> QED
    BY <2>1, <2>2
<1> QED
  BY <1>2, <1>3, <1>4, <1>5, <1>6

LEMMA FetchMoves ==
    ASSUME TypeInv, Fetch
    PROVE  /\ pull' \in Pulls /\ pull'.pc = "pulling" /\ pull'.cursor = pull.cursor
           /\ pull'.kept = pull.kept /\ pull'.gen = pull.gen
           /\ (pull'.sweep <=> pull.sweep) /\ (pull'.failed <=> pull.failed)
           /\ Reads(pull'.queue)
<1>1. pull' = [pull EXCEPT !.pc = "pulling", !.queue = pull'.queue] /\ Reads(pull'.queue)
  BY FetchReads
<1>2. pull'.queue \in Seq(Batches)
  BY <1>1 DEF Reads
<1>3. PICK q : q = pull'.queue
  OBVIOUS
<1>4. pull \in Pulls /\ q \in Seq(Batches) /\ pull' = [pull EXCEPT !.pc = "pulling", !.queue = q]
  BY <1>1, <1>2, <1>3 DEF TypeInv
<1>5. /\ pull' \in Pulls /\ pull'.pc = "pulling" /\ pull'.cursor = pull.cursor
      /\ pull'.kept = pull.kept /\ pull'.gen = pull.gen
      /\ pull'.sweep = pull.sweep /\ pull'.failed = pull.failed
  BY <1>4 DEF Pulls
<1> QED
  BY <1>1, <1>5

LEMMA AbsorbBegins ==
    ASSUME TypeInv, NEW by \in {"pull", "fill"}, Absorb(by)
    PROVE  LET q == IF by = "pull" THEN pull.queue ELSE fill.queue
           IN  /\ q # <<>> /\ q \in Seq(Batches) /\ Head(q) = q[1] /\ Head(q) \in Batches
               /\ Len(q) \in Nat \ {0}
               /\ job = NoJob /\ IsJob(job') /\ job'.by = by /\ job'.batch = Head(q)
               /\ job'.kept = kept /\ job'.i = 0 /\ Ordered(job')
               /\ "clear" \in Range(job'.todo) <=> Head(q).resync
               /\ "rewind" \in Range(job'.todo) <=> Head(q).resync
               /\ Range(job'.todo) \subseteq Early
<1> DEFINE q == IF by = "pull" THEN pull.queue ELSE fill.queue
<1>1. q # <<>> /\ job' = Begin(by, Head(q)) /\ job = NoJob
  BY DEF Absorb, Locked
<1>2. q \in Seq(Batches)
  BY DEF TypeInv, Pulls, Fills
<1> HIDE DEF q
<1>3. Head(q) = q[1] /\ Head(q) \in Batches /\ Len(q) \in Nat \ {0}
  BY <1>1, <1>2, TailIs
<1>4. /\ IsJob(job') /\ job'.by = by /\ job'.batch = Head(q) /\ job'.kept = kept /\ job'.i = 0
      /\ Ordered(job')
      /\ "clear" \in Range(job'.todo) <=> Head(q).resync
      /\ "rewind" \in Range(job'.todo) <=> Head(q).resync
      /\ Range(job'.todo) \subseteq Early
  BY <1>1, <1>3, BeginIs
<1> QED
  BY <1>1, <1>2, <1>3, <1>4, SMTT(60) DEF q

LEMMA ShapeInit == Init => Shape
<1> SUFFICES ASSUME Init PROVE Shape
  OBVIOUS
<1>1. epoch = 1 /\ box = <<>> /\ box \in Seq(Mails)
  BY DEF Init
<1>2. NoFiling \in Filings /\ filing \in [Mails -> Filings]
  BY DEF Init, NoFiling, Filings
<1>3. rows = {} /\ IsFiniteSet(rows) /\ rows \subseteq Rows
  BY FS_EmptySet DEF Init
<1>4. pull = NoPull /\ fill = NoFill /\ job = NoJob /\ cursor = NoCursor
  BY DEF Init
<1>5. TypeInv
  BY <1>1, <1>2, <1>3, <1>4, NothingIs DEF Init, TypeInv
<1>6. StageInv
  <2>1. pull.queue = <<>> /\ ~pull.failed /\ fill.queue = <<>>
    BY <1>4, NothingIs
  <2> QED
    BY <1>4, <2>1 DEF StageInv, OfThePull
<1> QED
  BY <1>5, <1>6 DEF Shape

(* The parts of the types that a step leaves alone.                        *)
FolderType == epoch \in Nat /\ box \in Seq(Mails)
VaultType ==
    /\ kept \in Scopes /\ gen \in Nat /\ open \subseteq Dossiers /\ exists \subseteq Dossiers
    /\ filing \in [Mails -> Filings] /\ byHand \in Dossiers \cup {None}
MirrorType == rows \subseteq Rows /\ IsFiniteSet(rows) /\ cursor \in Cursors /\ applied \in Nat
WorkType == pull \in Pulls /\ fill \in Fills /\ (job = NoJob \/ IsJob(job))

LEMMA FolderStep ==
    ASSUME TypeInv, Next
    PROVE  FolderType'
<1>1. CASE \E m \in Mails : Arrive(m)
  BY <1>1 DEF Arrive, TypeInv, FolderType
<1>2. CASE Renumber
  <2>1. PICK lost \in 0..1 : box' = Reverse(SubSeq(box, 1 + lost, Len(box)))
    BY <1>2 DEF Renumber
  <2>2. SubSeq(box, 1 + lost, Len(box)) \in Seq(Mails)
    BY DEF TypeInv
  <2>3. box' \in Seq(Mails)
    BY <2>1, <2>2, ReverseIs, ZenonT(60)
  <2>4. epoch' \in Nat
    BY <1>2 DEF Renumber, TypeInv
  <2> QED
    BY <2>3, <2>4 DEF FolderType
<1>3. CASE UNCHANGED server
  BY <1>3 DEF server, TypeInv, FolderType
<1> QED
  BY <1>1, <1>2, <1>3, Zenon
     DEF Next, Humans, Pulling, Absorbing, SetKeptAddresses, Close, DeleteOpportunity, ReleaseReplyHold,
         ConfirmAddress, FileHuman, HoldFiled, RequestBody, Plan, Rewind, Prepare, Fetch, Pulled,
         FillRecent, Lose, FetchBody, Absorb, ClearRows, ClearCursor, Retain, ForgetFiling, ForgetFault,
         ForgetHold, Message, Hold, File, Mark, Insert, FillBody, Remember, Crash, Doing, Working

LEMMA VaultStep ==
    ASSUME TypeInv, Next
    PROVE  VaultType'
<1>1. /\ kept \in Scopes /\ gen \in Nat /\ open \subseteq Dossiers /\ exists \subseteq Dossiers
      /\ filing \in [Mails -> Filings] /\ byHand \in Dossiers \cup {None}
  BY DEF TypeInv
<1>2. CASE \E s \in Scopes : SetKeptAddresses(s)
  BY <1>1, <1>2 DEF SetKeptAddresses, VaultType, book, vault
<1>3. CASE \E d \in Dossiers : Close(d)
  BY <1>1, <1>3 DEF Close, VaultType, choice, vault
<1>4. CASE \E d \in Dossiers : DeleteOpportunity(d)
  <2>1. \A m \in Mails : [filing[m] EXCEPT !.dossier = None] \in Filings
    BY <1>1 DEF Filings
  <2>2. filing' \in [Mails -> Filings]
    BY <1>1, <1>4, <2>1 DEF DeleteOpportunity
  <2> QED
    BY <1>1, <1>4, <2>2 DEF DeleteOpportunity, VaultType, choice
<1>5. CASE \E m \in Mails, d \in Dossiers : FileHuman(m, d)
  <2>1. PICK m \in Mails, d \in Dossiers : FileHuman(m, d)
    BY <1>5
  <2>2. [source |-> "human", dossier |-> d] \in Filings
    BY DEF Filings
  <2>3. filing' \in [Mails -> Filings]
    BY <1>1, <2>1, <2>2 DEF FileHuman
  <2> QED
    BY <1>1, <2>1, <2>3 DEF FileHuman, VaultType, choice, book
<1>6. CASE ForgetFiling
  <2>1. NoFiling \in Filings
    BY DEF NoFiling, Filings
  <2>2. filing' \in [Mails -> Filings]
    BY <1>1, <1>6, <2>1, ZenonT(60) DEF ForgetFiling
  <2> QED
    BY <1>1, <1>6, <2>2 DEF ForgetFiling, Doing, Working, VaultType, choice, book
<1>7. CASE File
  <2>1. IsJob(job) /\ job.link \in Links
    <3>1. IsJob(job)
      BY <1>7, JobAtWork DEF File, Doing, Working
    <3> QED
      BY <3>1, JobFields
  <2>2. [source |-> "auto", dossier |-> job.link.dossier] \in Filings
    BY <2>1 DEF Filings, Links
  <2>3. filing' \in [Mails -> Filings]
    BY <1>1, <1>7, <2>2, ZenonT(60) DEF File
  <2> QED
    BY <1>1, <1>7, <2>3 DEF File, Doing, Working, VaultType, choice, book
<1>8. CASE UNCHANGED <<choice, book, filing>> /\ byHand' \in {byHand, None}
  BY <1>1, <1>8 DEF VaultType, choice, book
<1> QED
  BY <1>2, <1>3, <1>4, <1>5, <1>6, <1>7, <1>8, Zenon
     DEF Next, Humans, Pulling, Absorbing, Arrive, Renumber, ReleaseReplyHold, vault,
         ConfirmAddress, HoldFiled, RequestBody, Plan, Rewind, Prepare, Fetch, Pulled,
         FillRecent, Lose, FetchBody, Absorb, ClearRows, ClearCursor, Retain, ForgetFault,
         ForgetHold, Message, Hold, Mark, Insert, FillBody, Remember, Crash, Doing, Working

LEMMA LateIs ==
    ASSUME TypeInv, StageInv, job # NoJob, job.todo # <<>>, Head(job.todo) \in Late
    PROVE  /\ IsJob(job) /\ job.i \in 1..Len(job.batch.messages) /\ Msg \in Messages
           /\ Range(job.todo) \subseteq Late
<1>1. IsJob(job) /\ Ordered(job)
  BY DEF TypeInv, StageInv
<1>2. job.todo \in Seq(Steps) /\ job.batch.messages \in Seq(Messages)
  BY <1>1, JobFields
<1>3. Head(job.todo) \in Range(job.todo)
  BY <1>2, RangeOfTail
<1>4. Early \cap Late = {}
  BY DEF Early, Late
<1>5. job.i \in 1..Len(job.batch.messages) /\ Range(job.todo) \subseteq Late
  BY <1>1, <1>3, <1>4 DEF Ordered
<1> QED
  BY <1>1, <1>2, <1>5 DEF Msg

LEMMA MsgIs ==
    ASSUME TypeInv, StageInv, NEW step \in Late, Doing(step)
    PROVE  /\ IsJob(job) /\ job.i \in 1..Len(job.batch.messages) /\ Msg \in Messages
           /\ Range(job.todo) \subseteq Late
BY LateIs, JobAtWork DEF Doing, Working

LEMMA MirrorStep ==
    ASSUME TypeInv, StageInv, Next
    PROVE  MirrorType'
<1>1. rows \subseteq Rows /\ IsFiniteSet(rows) /\ cursor \in Cursors /\ applied \in Nat
  BY DEF TypeInv
<1>2. pull.gen \in Nat
  BY DEF TypeInv, Pulls
<1>3. CASE Rewind
  BY <1>1, <1>3, PullMoves DEF Rewind, MirrorType
<1>4. CASE Prepare \/ Pulled
  BY <1>1, <1>2, <1>4 DEF Prepare, Pulled, MirrorType
<1>5. CASE ClearRows
  BY <1>1, <1>5, FS_EmptySet DEF ClearRows, MirrorType
<1>6. CASE ClearCursor
  BY <1>1, <1>6, NothingIs DEF ClearCursor, MirrorType
<1>7. CASE Retain
  <2>1. rows' \subseteq rows /\ UNCHANGED <<cursor, applied>>
    BY <1>7 DEF Retain
  <2>2. IsFiniteSet(rows')
    BY <1>1, <2>1, FS_Subset
  <2> QED
    BY <1>1, <2>1, <2>2 DEF MirrorType
<1>8. CASE Insert
  <2> DEFINE r == [uid |-> Msg.uid, epoch |-> job.batch.epoch, mail |-> Msg.mail, body |-> Msg.body,
                   text |-> IF Msg.body = "ready" THEN Msg.mail ELSE None]
  <2>1. rows' = rows \cup {r} /\ UNCHANGED <<cursor, applied>>
    BY <1>8 DEF Insert
  <2>2. r \in Rows
    <3>1. Msg \in Messages /\ IsJob(job)
      BY <1>8, MsgIs DEF Insert, Late
    <3>2. job.batch.epoch \in Nat
      BY <3>1, JobFields
    <3>3. Msg.uid \in Nat /\ Msg.mail \in Mails \cup {None} /\ Msg.body \in Bodies
      BY <3>1 DEF Messages
    <3> QED
      BY <3>2, <3>3 DEF Rows
  <2> HIDE DEF r
  <2>3. IsFiniteSet(rows')
    BY <1>1, <2>1, FS_AddElement
  <2> QED
    BY <1>1, <2>1, <2>2, <2>3 DEF MirrorType
<1>9. CASE FillBody
  <2> DEFINE f == [r \in rows |-> IF r \in At(Msg.uid)
                                  THEN [r EXCEPT !.body = Msg.body, !.text = Msg.mail] ELSE r]
  <2>1. Msg.mail \in Mails \cup {None} /\ Msg.body \in Bodies
    <3>1. Msg \in Messages
      BY <1>9, MsgIs DEF FillBody, Late
    <3> QED
      BY <3>1 DEF Messages
  <2>2. \A r \in rows : f[r] \in Rows
    BY <1>1, <2>1, ZenonT(60) DEF Rows
  <2>3. rows' = Range(f) /\ UNCHANGED <<cursor, applied>>
    BY <1>9 DEF FillBody, Range
  <2>4. IsFiniteSet(Range(f))
    BY <1>1, FiniteImage
  <2>5. rows' \subseteq Rows
    <3>1. rows' = {f[r] : r \in rows}
      BY <2>3, ZenonT(60) DEF Range
    <3> HIDE DEF f
    <3> QED
      BY <2>2, <3>1
  <2> QED
    BY <1>1, <2>3, <2>4, <2>5 DEF MirrorType
<1>10. CASE Remember
  BY <1>1, <1>10, RememberIs DEF Remember, MirrorType
<1>11. CASE UNCHANGED mirror
  BY <1>1, <1>11 DEF MirrorType, mirror
<1> QED
  BY <1>3, <1>4, <1>5, <1>6, <1>7, <1>8, <1>9, <1>10, <1>11, Zenon
     DEF Next, Humans, Pulling, Absorbing, Arrive, Renumber, SetKeptAddresses, Close, DeleteOpportunity,
         ReleaseReplyHold, ConfirmAddress, FileHuman, HoldFiled, RequestBody, Plan, Fetch,
         FillRecent, Lose, FetchBody, Absorb, ForgetFiling, ForgetFault, ForgetHold, Message, Hold, File, Mark, Crash

LEMMA ForgetsOrdered ==
    ASSUME NEW j, NEW k, Forgets(j, k), Ordered(j)
    PROVE  Ordered(k)
<1>1. Range(j.todo) \subseteq Early /\ j.i = 0
  <2>1. Head(j.todo) \in Range(j.todo)
    BY RangeOfTail DEF Forgets
  <2>2. "retain" \in Range(j.todo) /\ "retain" \notin Late
    BY <2>1 DEF Forgets, Late
  <2> QED
    BY <2>2 DEF Ordered
<1>2. k.i = 0 /\ Range(k.todo) \subseteq {"forget", "unfault", "unhold"}
      /\ \A n \in 1..Len(k.todo) : k.todo[n] \in {"forget", "unfault", "unhold"}
  BY <1>1 DEF Forgets
<1>3. Range(k.todo) \subseteq Early
  BY <1>2 DEF Early
<1> QED
  BY <1>2, <1>3 DEF Ordered

(* The batch at hand goes on, or is over.                                  *)
LEMMA StageGoesOn ==
    ASSUME TypeInv, StageInv, job # NoJob, IsJob(job'), Ordered(job'),
           SameBatch(job, job'), UNCHANGED <<pull, fill>>
    PROVE  WorkType' /\ StageInv'
<1>1. job'.by = job.by /\ job'.batch = job.batch
  BY DEF SameBatch
<1>2. pull' = pull /\ fill' = fill
  OBVIOUS
<1>3. WorkType'
  BY <1>2 DEF TypeInv, WorkType, IsJob
<1>4. OfThePull'
  BY <1>1, <1>2 DEF StageInv, OfThePull
<1> QED
  BY <1>2, <1>3, <1>4 DEF StageInv, Ordered

LEMMA StageEnds ==
    ASSUME TypeInv, StageInv, job # NoJob, NEW failed, Ends(failed)
    PROVE  WorkType' /\ StageInv'
<1>1. job' = NoJob /\ pull' \in Pulls /\ SamePull(pull, pull') /\ (fill' = fill \/ fill' = NoFill)
  BY DEF Ends
<1>2. fill' \in Fills /\ \A k \in 1..Len(fill'.queue) : Quiet(fill'.queue[k])
  <2>1. CASE fill' = fill
    BY <2>1 DEF TypeInv, StageInv
  <2>2. CASE fill' = NoFill
    BY <2>2, NothingIs
  <2> QED
    BY <1>1, <2>1, <2>2
<1>3. pull'.pc # "pulling" => pull'.queue = <<>> /\ ~pull'.failed
  <2>1. CASE job.by = "pull"
    <3>1. pull.pc = "pulling"
      BY <2>1 DEF StageInv, OfThePull
    <3> QED
      BY <1>1, <3>1 DEF SamePull
  <2>2. CASE job.by # "pull"
    BY <2>2 DEF Ends, StageInv
  <2> QED
    BY <2>1, <2>2
<1> QED
  BY <1>1, <1>2, <1>3 DEF WorkType, StageInv, OfThePull

LEMMA StageIdle ==
    ASSUME TypeInv, StageInv, job = NoJob, job' = NoJob, fill' = fill,
           pull' \in Pulls, pull'.pc # "pulling" => pull'.queue = <<>> /\ ~pull'.failed
    PROVE  WorkType' /\ StageInv'
BY DEF TypeInv, WorkType, StageInv, OfThePull

LEMMA WorkStep ==
    ASSUME TypeInv, StageInv, Next
    PROVE  WorkType' /\ StageInv'
<1>1. /\ pull \in Pulls /\ fill \in Fills /\ (job = NoJob \/ IsJob(job)) /\ rows \subseteq Rows
      /\ fill.epoch \in Nat
  BY DEF TypeInv, Fills
<1>2. /\ OfThePull /\ (job # NoJob => Ordered(job))
      /\ pull.pc # "pulling" => pull.queue = <<>> /\ ~pull.failed
      /\ \A k \in 1..Len(fill.queue) : Quiet(fill.queue[k])
  BY DEF StageInv
<1>3. CASE UNCHANGED <<pull, fill, job>>
  <2>1. WorkType'
    BY <1>1, <1>3 DEF WorkType, IsJob
  <2> QED
    BY <1>2, <1>3, <2>1 DEF StageInv, OfThePull, Ordered
<1>4. CASE Plan \/ Rewind \/ Prepare \/ Lose
  <2>1. job = NoJob /\ job' = NoJob /\ fill' = fill
    BY <1>4 DEF Plan, Rewind, Prepare, Lose, Locked
  <2>2. pull' \in Pulls /\ (pull'.pc # "pulling" => pull'.queue = <<>> /\ ~pull'.failed)
    <3>1. CASE Plan
      BY <3>1, PullMoves
    <3>2. CASE Rewind \/ Prepare
      <4>1. pull.pc # "pulling"
        BY <3>2 DEF Rewind, Prepare
      <4>2. pull' \in Pulls /\ SameBut(pull, pull')
        BY <3>2, PullMoves
      <4> QED
        BY <1>2, <4>1, <4>2 DEF SameBut
    <3>3. CASE Lose
      <4>1. pull' \in Pulls /\ SamePull(pull, pull') /\ pull.pc = "pulling"
        BY <3>3, PullMoves DEF Lose
      <4> QED
        BY <4>1 DEF SamePull
    <3> QED
      BY <1>4, <3>1, <3>2, <3>3
  <2> QED
    BY <2>1, <2>2, StageIdle
<1>5. CASE Pulled
  <2>1. job = NoJob /\ job' = NoJob /\ fill' = fill /\ pull.queue = <<>>
    BY <1>5 DEF Pulled, Locked
  <2>2. pull' \in Pulls /\ pull'.queue = <<>> /\ ~pull'.failed
    BY <1>5, <2>1, PullMoves, NothingIs DEF SameBut
  <2> QED
    BY <2>1, <2>2, StageIdle
<1>6. CASE Fetch
  <2>1. pull.pc = "prepared" /\ fill' = fill /\ job' = job
    BY <1>6 DEF Fetch
  <2>2. pull' \in Pulls /\ pull'.pc = "pulling"
    BY <1>6, FetchMoves
  <2>3. job # NoJob => job.by # "pull" /\ Quiet(job.batch)
    BY <1>2, <2>1 DEF OfThePull
  <2>4. WorkType'
    BY <1>1, <2>1, <2>2 DEF WorkType, IsJob
  <2> QED
    BY <1>2, <2>1, <2>2, <2>3, <2>4 DEF StageInv, OfThePull, Ordered, Quiet
<1>7. CASE FillRecent \/ \E r \in rows : RequestBody(r)
  <2>1. job = NoJob /\ job' = NoJob
    BY <1>7 DEF FillRecent, RequestBody, Locked
  <2>2. fill' \in Fills /\ \A k \in 1..Len(fill'.queue) : Quiet(fill'.queue[k])
    <3>1. ASSUME NEW asked \in SUBSET rows, NEW e \in Nat, AskFor(asked, e)
          PROVE  fill' \in Fills /\ \A k \in 1..Len(fill'.queue) : Quiet(fill'.queue[k])
      <4>1. fill' \in Fills /\ fill'.queue = <<>>
        BY <3>1, AskForIs
      <4> QED
        BY <4>1
    <3>2. CASE UNCHANGED fill
      BY <1>1, <1>2, <3>2
    <3>3. CASE FillRecent /\ ~UNCHANGED fill
      <4>1. Pending # {} /\ Pending \subseteq rows
        BY <3>3 DEF FillRecent, Pending
      <4> DEFINE e == (CHOOSE r \in Pending : TRUE).epoch
      <4>2. AskFor({r \in Pending : r.epoch = e}, e)
        BY <3>3 DEF FillRecent
      <4>3. e \in Nat
        BY <1>1, <4>1 DEF Rows
      <4> HIDE DEF e
      <4> DEFINE asked == {r \in Pending : r.epoch = e}
      <4>4. asked \in SUBSET rows /\ AskFor(asked, e)
        BY <4>1, <4>2
      <4> HIDE DEF asked
      <4> QED
        BY <3>1, <4>3, <4>4
    <3>4. CASE \E r \in rows : RequestBody(r)
      <4>1. PICK r \in rows : RequestBody(r)
        BY <3>4
      <4>2. AskFor({r}, r.epoch) /\ r.epoch \in Nat /\ {r} \in SUBSET rows
        BY <1>1, <4>1 DEF RequestBody, Rows
      <4> QED
        BY <3>1, <4>2
    <3> QED
      BY <1>7, <3>2, <3>3, <3>4
  <2>3. pull' \in Pulls /\ (pull'.pc # "pulling" => pull'.queue = <<>> /\ ~pull'.failed)
    BY <1>1, <1>2, <1>7, NothingIs DEF FillRecent, RequestBody
  <2> QED
    BY <2>1, <2>2, <2>3 DEF WorkType, StageInv, OfThePull
<1>8. CASE FetchBody
  <2>1. pull' = pull /\ job' = job
    BY <1>8 DEF FetchBody
  <2>2. fill' \in Fills /\ \A k \in 1..Len(fill'.queue) : Quiet(fill'.queue[k])
    <3>1. fill' \in Fills /\ Len(fill'.queue) = 1 /\ Quiet(fill'.queue[1])
      BY <1>8, FetchBodyIs
    <3>2. \A k \in 1..Len(fill'.queue) : k = 1
      BY <3>1
    <3> QED
      BY <3>1, <3>2
  <2>3. WorkType'
    BY <1>1, <2>1, <2>2 DEF WorkType, IsJob
  <2> QED
    BY <1>2, <2>1, <2>2, <2>3 DEF StageInv, OfThePull, Ordered
<1>9. CASE \E by \in {"pull", "fill"} : Absorb(by)
  <2>1. PICK by \in {"pull", "fill"} : Absorb(by)
    BY <1>9
  <2>2. pull' = pull /\ fill' = fill
    BY <2>1 DEF Absorb
  <2>3. CASE by = "pull"
    <3>1. pull.queue # <<>> /\ IsJob(job') /\ job'.by = "pull" /\ job'.batch = Head(pull.queue) /\ Ordered(job')
      BY <2>1, <2>3, AbsorbBegins
    <3>2. WorkType'
      BY <1>1, <2>2, <3>1 DEF WorkType, IsJob
    <3>3. OfThePull'
      BY <1>2, <2>2, <3>1 DEF OfThePull
    <3> QED
      BY <1>2, <2>2, <3>1, <3>2, <3>3 DEF StageInv, Ordered
  <2>4. CASE by = "fill"
    <3>1. /\ fill.queue # <<>> /\ IsJob(job') /\ job'.by = "fill" /\ job'.batch = fill.queue[1] /\ Ordered(job')
          /\ Len(fill.queue) \in Nat \ {0}
      BY <2>1, <2>4, AbsorbBegins
    <3>2. Quiet(job'.batch)
      BY <1>2, <3>1
    <3>3. WorkType'
      BY <1>1, <2>2, <3>1 DEF WorkType, IsJob
    <3>4. OfThePull'
      BY <3>1, <3>2 DEF OfThePull, Quiet
    <3> QED
      BY <1>2, <2>2, <3>1, <3>3, <3>4 DEF StageInv, Ordered
  <2> QED
    BY <2>3, <2>4
<1>10. CASE \E step : Commits(step)
  <2>1. PICK step : Commits(step)
    BY <1>10
  <2>2. Popped(step, job, job') /\ UNCHANGED <<pull, fill>>
    BY <2>1 DEF Commits
  <2>3. IsJob(job) /\ IsJob(job') /\ SameBatch(job, job')
    BY <2>2 DEF Popped
  <2>4. job # NoJob /\ Ordered(job)
    BY <1>2, <2>3, JobIsSome
  <2>5. Ordered(job')
    BY <2>2, <2>4, OrderedPops
  <2> QED
    BY <2>2, <2>3, <2>4, <2>5, StageGoesOn
<1>11. CASE Retain
  <2>1. Forgets(job, job') /\ UNCHANGED <<pull, fill>>
    BY <1>11, RetainIs
  <2>2. IsJob(job) /\ IsJob(job') /\ SameBatch(job, job')
    BY <2>1 DEF Forgets
  <2>3. job # NoJob /\ Ordered(job)
    BY <1>2, <2>2, JobIsSome
  <2>4. Ordered(job')
    BY <2>1, <2>3, ForgetsOrdered
  <2> QED
    BY <2>1, <2>2, <2>3, <2>4, StageGoesOn
<1>12. CASE Message
  <2>1. TakesUp(job, job', rows) /\ UNCHANGED <<pull, fill>>
    BY <1>12, MessageTakesUp, ZenonT(60) DEF Message
  <2>2. IsJob(job) /\ IsJob(job') /\ SameBatch(job, job')
    BY <2>1 DEF TakesUp
  <2>3. job # NoJob /\ Ordered(job')
    BY <2>1, <2>2, JobIsSome, TakenUpInOrder
  <2> QED
    BY <2>1, <2>2, <2>3, StageGoesOn
<1>13. CASE Ends(TRUE) /\ job # NoJob
  BY <1>13, StageEnds
<1>14. CASE Remember
  <2>1. job # NoJob /\ EndBatch(FALSE)
    BY <1>14, JobAtWork DEF Remember, Working
  <2>2. Ends(FALSE)
    BY <1>2, <2>1, EndBatchEnds
  <2> QED
    BY <2>1, <2>2, StageEnds
<1>15. CASE Crash
  <2>1. pull' = NoPull /\ fill' = NoFill /\ job' = NoJob
    BY <1>15 DEF Crash
  <2> QED
    BY <2>1, NothingIs DEF WorkType, StageInv, OfThePull
<1> QED
  <2>1. Absorbing => \/ \E by \in {"pull", "fill"} : Absorb(by)
                     \/ \E step : Commits(step)
                     \/ Retain \/ Message \/ Remember \/ (Ends(TRUE) /\ job # NoJob)
    BY <1>2, CommitsAre, Zenon DEF Absorbing
  <2> QED
    BY <1>3, <1>4, <1>5, <1>6, <1>7, <1>8, <1>9, <1>10, <1>11, <1>12, <1>13, <1>14, <1>15, <2>1, Zenon
       DEF Next, Humans, Pulling, Arrive, Renumber, SetKeptAddresses, Close, DeleteOpportunity,
           ReleaseReplyHold, ConfirmAddress, FileHuman, HoldFiled

LEMMA ShapeStep ==
    ASSUME Shape, [Next]_vars
    PROVE  Shape'
<1>1. CASE Next
  <2>1. TypeInv /\ StageInv
    BY DEF Shape
  <2>2. FolderType' /\ VaultType' /\ MirrorType' /\ WorkType' /\ StageInv'
    BY <1>1, <2>1, FolderStep, VaultStep, MirrorStep, WorkStep
  <2>3. TypeInv'
    BY <2>2 DEF TypeInv, FolderType, VaultType, MirrorType, WorkType
  <2> QED
    BY <2>2, <2>3 DEF Shape
<1>2. CASE UNCHANGED vars
  BY <1>2 DEF Shape, TypeInv, StageInv, OfThePull, Ordered, Quiet, IsJob, Jobs, vars, server, choice, book,
              vault, mirror, history
<1> QED
  BY <1>1, <1>2

(* The state keeps its shape: types, and what is left to write of a batch  *)
(* is in the order of absorb_folder, wherever the pull was stopped.        *)
THEOREM ShapeHolds == Spec => []Shape
<1>1. Spec => Init /\ [][Next]_vars
  BY DEF Spec
<1> QED
  BY <1>1, ShapeInit, ShapeStep, PTL

-----------------------------------------------------------------------------
(* What is said of the folder stays so.                                    *)

StaysTrue ==
    /\ epoch' \in Nat /\ epoch <= epoch' /\ Len(box') \in Nat
    /\ epoch' = epoch => Uids \subseteq Uids' /\ (\A u \in Uids : box'[u] = box[u]) /\ Len(box) <= Len(box')
Moves == (\E m \in Mails : Arrive(m)) \/ Renumber \/ UNCHANGED server

LEMMA FolderMoves ==
    ASSUME TypeInv, TypeInv', Moves
    PROVE  StaysTrue
<1>1. epoch \in Nat /\ box \in Seq(Mails) /\ Uids = 1..Len(box) /\ Len(box) \in Nat
      /\ Len(box') \in Nat
  BY DEF TypeInv, Uids
<1>2. CASE \E m \in Mails : Arrive(m)
  <2>1. PICK m \in Mails : box' = Append(box, m) /\ epoch' = epoch
    BY <1>2 DEF Arrive
  <2>2. /\ box' \in Seq(Mails) /\ Len(box') = Len(box) + 1
        /\ \A k \in 1..Len(box) : box'[k] = box[k]
    BY <1>1, <2>1
  <2>3. Uids' = 1..Len(box')
    BY <2>2 DEF Uids
  <2> QED
    BY <1>1, <2>1, <2>2, <2>3 DEF StaysTrue
<1>3. CASE Renumber
  BY <1>1, <1>3 DEF Renumber, StaysTrue
<1>4. CASE UNCHANGED server
  BY <1>1, <1>4 DEF server, StaysTrue, Uids
<1> QED
  BY <1>2, <1>3, <1>4 DEF Moves

LEMMA RowStaysTrue ==
    ASSUME TypeInv, StaysTrue, NEW r \in Rows, TrueRow(r)
    PROVE  TrueRow(r)'
<1>1. epoch \in Nat /\ epoch' \in Nat /\ r.epoch \in Nat
  BY DEF TypeInv, Rows, StaysTrue
<1> QED
  BY <1>1 DEF TrueRow, StaysTrue

LEMMA BatchStaysTrue ==
    ASSUME TypeInv, StaysTrue, NEW b \in Batches, TrueBatch(b)
    PROVE  TrueBatch(b)'
<1>1. /\ epoch \in Nat /\ epoch' \in Nat /\ b.epoch \in Nat /\ b.examined \in Nat
      /\ Len(box) \in Nat
  BY DEF TypeInv, Batches, StaysTrue
<1>2. b.epoch <= epoch /\ epoch <= epoch'
  BY DEF TrueBatch, StaysTrue
<1>3. CASE b.epoch = epoch'
  <2>1. b.epoch = epoch /\ epoch' = epoch
    BY <1>1, <1>2, <1>3
  <2>2. b.examined <= Len(box) /\ TrueMessages(b) /\ Len(box) <= Len(box')
    BY <2>1 DEF TrueBatch, StaysTrue
  <2>3. \A u \in Uids : u \in Uids' /\ box'[u] = box[u]
    BY <2>1 DEF StaysTrue
  <2>4. TrueMessages(b)'
    BY <2>2, <2>3 DEF TrueMessages
  <2>5. b.examined <= Len(box')
    BY <1>1, <2>2 DEF StaysTrue
  <2> QED
    BY <1>1, <1>3, <2>4, <2>5 DEF TrueBatch
<1>4. CASE b.epoch # epoch'
  BY <1>1, <1>2, <1>4 DEF TrueBatch
<1> QED
  BY <1>3, <1>4

(* A row shows what its letter was, as long as it has its number.          *)
LEMMA TrueMessage ==
    ASSUME Shape, TrueInv, NEW step \in Late, Doing(step)
    PROVE  /\ job.batch.epoch \in Nat /\ job.batch.epoch <= epoch /\ Msg \in Messages
           /\ job.batch.epoch = epoch => Msg.uid \in Uids /\ Msg.mail = box[Msg.uid]
<1>1. IsJob(job) /\ job.i \in 1..Len(job.batch.messages) /\ Msg \in Messages
  BY MsgIs DEF Shape
<1>2. TrueBatch(job.batch)
  BY <1>1, JobIsSome DEF TrueInv
<1> QED
  BY <1>1, <1>2, JobFields DEF TrueBatch, TrueMessages, Msg

LEMMA TrueRows ==
    ASSUME Shape, TrueInv, Next, UNCHANGED server
    PROVE  \A r \in rows' : TrueRow(r)
<1>1. \A r \in rows : TrueRow(r)
  BY DEF TrueInv
<1>2. CASE rows' \subseteq rows
  BY <1>1, <1>2
<1>3. CASE Insert
  <2> DEFINE r == [uid |-> Msg.uid, epoch |-> job.batch.epoch, mail |-> Msg.mail, body |-> Msg.body,
                   text |-> IF Msg.body = "ready" THEN Msg.mail ELSE None]
  <2>1. rows' = rows \cup {r}
    BY <1>3 DEF Insert
  <2>2. /\ job.batch.epoch <= epoch
        /\ job.batch.epoch = epoch => Msg.uid \in Uids /\ Msg.mail = box[Msg.uid]
    BY <1>3, TrueMessage DEF Insert, Late
  <2>3. TrueRow(r)
    BY <2>2 DEF TrueRow
  <2> QED
    BY <1>1, <2>1, <2>3
<1>4. CASE FillBody
  <2>1. rows' = {IF r \in At(Msg.uid) THEN [r EXCEPT !.body = Msg.body, !.text = Msg.mail] ELSE r : r \in rows}
    BY <1>4 DEF FillBody
  <2>2. /\ job.batch.epoch <= epoch
        /\ job.batch.epoch = epoch => Msg.uid \in Uids /\ Msg.mail = box[Msg.uid]
    BY <1>4, TrueMessage DEF FillBody, Late
  <2>3. ASSUME NEW r \in rows, r \in At(Msg.uid)
        PROVE  TrueRow([r EXCEPT !.body = Msg.body, !.text = Msg.mail])
    <3>1. r \in Rows /\ r.uid = Msg.uid /\ r.epoch = job.batch.epoch /\ TrueRow(r)
      BY <1>1, <2>3 DEF At, Shape, TypeInv
    <3>2. PICK s : s = [r EXCEPT !.body = Msg.body, !.text = Msg.mail]
      OBVIOUS
    <3>3. s.uid = r.uid /\ s.epoch = r.epoch /\ s.mail = r.mail /\ s.text = Msg.mail
      BY <3>1, <3>2 DEF Rows
    <3>4. TrueRow(s)
      BY <2>2, <3>1, <3>3 DEF TrueRow
    <3> QED
      BY <3>2, <3>4
  <2> QED
    BY <1>1, <2>1, <2>3
<1> QED
  <2>1. CASE UNCHANGED rows
    BY <1>2, <2>1
  <2>2. CASE ClearRows \/ Retain
    BY <1>2, <2>2 DEF ClearRows, Retain
  <2> QED
    BY <1>3, <1>4, <2>1, <2>2, Zenon
     DEF Next, Humans, Pulling, Absorbing, Arrive, Renumber, SetKeptAddresses, Close, DeleteOpportunity,
         ReleaseReplyHold, ConfirmAddress, FileHuman, HoldFiled, RequestBody, Plan, Rewind, Prepare, Fetch,
         Pulled, FillRecent, Lose, FetchBody, Absorb, ForgetFiling, ForgetFault, ForgetHold, Message, Hold,
         File, Mark, Crash, ClearCursor, Remember, mirror

(* So are the batches at hand, those of the pull and those of the bodies.  *)
LEMMA TruePull ==
    ASSUME Shape, TrueInv, Next, UNCHANGED server
    PROVE  /\ \A k \in 1..Len(pull'.queue) : TrueBatch(pull'.queue[k])
           /\ job' # NoJob => TrueBatch(job'.batch)
<1>1. /\ \A k \in 1..Len(pull.queue) : TrueBatch(pull.queue[k])
      /\ \A k \in 1..Len(fill.queue) : TrueBatch(fill.queue[k])
      /\ job # NoJob => TrueBatch(job.batch)
  BY DEF TrueInv
<1>2. TypeInv /\ StageInv /\ OfThePull /\ pull \in Pulls
  BY DEF Shape, StageInv, TypeInv
<1>3. CASE pull'.queue \in {pull.queue, <<>>} /\ (job' = NoJob \/ (job # NoJob /\ job'.batch = job.batch))
  BY <1>1, <1>3
<1>4. CASE Fetch
  <2>1. job' = job
    BY <1>4 DEF Fetch
  <2>2. Reads(pull'.queue)
    BY <1>2, <1>4, FetchMoves
  <2> QED
    BY <1>1, <2>1, <2>2 DEF Reads
<1>5. CASE \E by \in {"pull", "fill"} : Absorb(by)
  <2>1. PICK by \in {"pull", "fill"} : Absorb(by)
    BY <1>5
  <2>2. pull' = pull
    BY <2>1 DEF Absorb
  <2>3. \/ job'.batch = pull.queue[1] /\ Len(pull.queue) \in Nat \ {0}
        \/ job'.batch = fill.queue[1] /\ Len(fill.queue) \in Nat \ {0}
    BY <1>2, <2>1, AbsorbBegins
  <2> QED
    BY <1>1, <2>2, <2>3
<1>6. ASSUME NEW failed, Ends(failed), job # NoJob
      PROVE  job' = NoJob /\ \A k \in 1..Len(pull'.queue) : TrueBatch(pull'.queue[k])
  <2>1. CASE job.by = "pull"
    <3>1. pull'.queue = Tail(pull.queue) /\ pull.queue # <<>> /\ pull.queue \in Seq(Batches)
      BY <1>2, <1>6, <2>1 DEF Ends, OfThePull, Pulls
    <3>2. /\ Len(pull'.queue) = Len(pull.queue) - 1 /\ Len(pull.queue) \in Nat
          /\ \A k \in 1..(Len(pull.queue) - 1) : pull'.queue[k] = pull.queue[k + 1]
      BY <3>1, TailIs
    <3> QED
      BY <1>1, <1>6, <3>2 DEF Ends
  <2>2. CASE job.by # "pull"
    BY <1>1, <1>6, <2>2 DEF Ends
  <2> QED
    BY <2>1, <2>2
<1>7. CASE \E step : Commits(step)
  <2>1. pull' = pull /\ IsJob(job) /\ job'.batch = job.batch
    BY <1>7 DEF Commits, Popped, SameBatch
  <2> QED
    BY <1>3, <2>1, JobIsSome
<1>8. CASE Retain
  <2>1. pull' = pull /\ IsJob(job) /\ job'.batch = job.batch
    BY <1>2, <1>8, RetainIs DEF Forgets, SameBatch
  <2> QED
    BY <1>3, <2>1, JobIsSome
<1>9. CASE Message
  <2>1. pull' = pull /\ IsJob(job) /\ job'.batch = job.batch
    BY <1>2, <1>9, MessageTakesUp, ZenonT(60) DEF TakesUp, SameBatch, Message
  <2> QED
    BY <1>3, <2>1, JobIsSome
<1>10. CASE Remember
  <2>1. job # NoJob /\ EndBatch(FALSE)
    BY <1>2, <1>10, JobAtWork DEF Remember, Working
  <2>2. Ends(FALSE)
    BY <1>2, <2>1, EndBatchEnds
  <2> QED
    BY <1>6, <2>1, <2>2
<1>11. CASE Plan \/ Rewind \/ Prepare \/ Lose \/ Pulled
  <2>1. pull'.queue \in {pull.queue, <<>>}
    BY <1>2, <1>11, PullMoves, NothingIs DEF SameBut
  <2>2. job' = job
    BY <1>11 DEF Plan, Rewind, Prepare, Lose, Pulled
  <2> QED
    BY <1>3, <2>1, <2>2
<1>12. CASE FillRecent \/ Crash
  <2>1. pull' = NoPull /\ (job' = job \/ job' = NoJob)
    BY <1>12 DEF FillRecent, Crash
  <2> QED
    BY <1>3, <2>1, NothingIs
<1>13. CASE UNCHANGED <<pull, job>>
  BY <1>3, <1>13
<1> QED
  <2>1. Absorbing => \/ \E by \in {"pull", "fill"} : Absorb(by)
                     \/ \E step : Commits(step)
                     \/ Retain \/ Message \/ Remember \/ (Ends(TRUE) /\ job # NoJob)
    BY <1>2, CommitsAre, Zenon DEF Absorbing
  <2>2. CASE Ends(TRUE) /\ job # NoJob
    BY <1>6, <2>2
  <2> QED
    BY <1>4, <1>5, <1>7, <1>8, <1>9, <1>10, <1>11, <1>12, <1>13, <2>1, <2>2, Zenon
       DEF Next, Humans, Pulling, Arrive, Renumber, SetKeptAddresses, Close, DeleteOpportunity,
           ReleaseReplyHold, ConfirmAddress, FileHuman, HoldFiled, RequestBody, FetchBody

(* The bodies asked for are those of rows.                                 *)
FillIsTrue ==
    /\ fill.epoch <= epoch
    /\ fill.epoch = epoch => \A k \in 1..Len(fill.uids) : fill.uids[k] \in Uids
    /\ \A k \in 1..Len(fill.queue) : TrueBatch(fill.queue[k])

LEMMA TrueAsked ==
    ASSUME Shape, TrueInv, UNCHANGED server, NEW asked \in SUBSET rows, NEW e \in Nat,
           \A r \in asked : r.epoch = e, asked # {}, AskFor(asked, e)
    PROVE  FillIsTrue'
<1>1. /\ fill'.epoch = e /\ fill'.queue = <<>>
      /\ \A k \in 1..Len(fill'.uids) : \E r \in asked : r.uid = fill'.uids[k]
  BY AskForIs DEF Shape
<1>2. \A r \in asked : r.epoch = e /\ e <= epoch /\ (e = epoch => r.uid \in Uids)
  BY DEF TrueInv, TrueRow
<1>3. epoch' = epoch /\ Uids' = Uids
  BY DEF server, Uids
<1>4. e <= epoch
  BY <1>2
<1> QED
  BY <1>1, <1>2, <1>3, <1>4 DEF FillIsTrue

LEMMA TrueFill ==
    ASSUME Shape, TrueInv, Next, UNCHANGED server
    PROVE  FillIsTrue'
<1>1. epoch \in Nat /\ fill \in Fills /\ rows \subseteq Rows /\ TypeInv
  BY DEF Shape, TypeInv
<1>2. epoch' = epoch /\ box' = box /\ Uids' = Uids
  BY DEF server, Uids
<1>3. FillIsTrue
  BY DEF TrueInv, FillIsTrue
<1>4. CASE fill' = fill
  BY <1>2, <1>3, <1>4 DEF FillIsTrue, TrueBatch, TrueMessages
<1>5. CASE fill' = NoFill
  BY <1>1, <1>2, <1>5, NothingIs DEF FillIsTrue
<1>6. CASE FillRecent /\ fill' # fill
  <2>1. Pending # {} /\ Pending \subseteq rows
    BY <1>6 DEF FillRecent, Pending
  <2>2. PICK r \in Pending : r = CHOOSE s \in Pending : TRUE
    BY <2>1
  <2> DEFINE asked == {s \in Pending : s.epoch = r.epoch}
  <2>3. AskFor(asked, r.epoch)
    BY <1>6, <2>2 DEF FillRecent
  <2>4. asked \in SUBSET rows /\ asked # {} /\ (\A s \in asked : s.epoch = r.epoch) /\ r.epoch \in Nat
    BY <1>1, <2>1, <2>2 DEF Rows
  <2> HIDE DEF asked
  <2> QED
    BY <2>3, <2>4, TrueAsked
<1>7. CASE \E r \in rows : RequestBody(r)
  <2>1. PICK r \in rows : AskFor({r}, r.epoch)
    BY <1>7 DEF RequestBody
  <2> DEFINE asked == {r}
  <2>2. asked \in SUBSET rows /\ asked # {} /\ (\A s \in asked : s.epoch = r.epoch) /\ r.epoch \in Nat
    BY <1>1, <2>1 DEF Rows
  <2>3. AskFor(asked, r.epoch)
    BY <2>1
  <2> HIDE DEF asked
  <2> QED
    BY <2>2, <2>3, TrueAsked
<1>8. CASE FetchBody
  <2>0. PICK b : b = fill'.queue[1]
    OBVIOUS
  <2>1. /\ fill'.epoch = fill.epoch /\ fill'.uids = fill.uids /\ Len(fill'.queue) = 1
        /\ b.epoch = fill.epoch /\ b.examined = 0
        /\ \A k \in 1..Len(b.messages) :
              /\ k \in 1..Len(fill.uids) /\ b.messages[k].uid = fill.uids[k]
              /\ b.messages[k].uid \in Uids => b.messages[k].mail = box[b.messages[k].uid]
    BY <1>1, <1>8, <2>0, FetchBodyIs
  <2>2. Len(box) \in Nat
    BY <1>1 DEF TypeInv
  <2>3. b.epoch <= epoch
    BY <1>3, <2>1 DEF FillIsTrue
  <2>4. b.epoch = epoch => TrueMessages(b)
    BY <1>3, <2>1 DEF FillIsTrue, TrueMessages
  <2>5. TrueBatch(b)
    BY <2>1, <2>2, <2>3, <2>4 DEF TrueBatch

  <2>7. \A k \in 1..Len(fill'.queue) : fill'.queue[k] = b
    BY <2>0, <2>1
  <2>8. (\A k \in 1..Len(fill.queue) : TrueBatch(fill.queue[k]))'
    BY <1>2, <2>5, <2>7 DEF TrueBatch, TrueMessages
  <2> QED
    BY <1>2, <1>3, <2>1, <2>8 DEF FillIsTrue
<1> QED
  <2>1. (Hold \/ File \/ Remember) => fill' \in {fill, NoFill}
    BY DEF Hold, File, Remember, Done, EndBatch
  <2>2. (Message \/ Retain \/ ForgetFiling \/ ForgetFault \/ ForgetHold \/ Mark \/ ClearRows \/ ClearCursor
          \/ Insert \/ FillBody) => fill' = fill
    BY ZenonT(60) DEF Message, Retain, ForgetFiling, ForgetFault, ForgetHold, Mark, ClearRows, ClearCursor, Insert,
           FillBody, Done
  <2> QED
    BY <1>4, <1>5, <1>6, <1>7, <1>8, <2>1, <2>2, Zenon
       DEF Next, Humans, Pulling, Absorbing, Arrive, Renumber, SetKeptAddresses, Close, DeleteOpportunity,
           ReleaseReplyHold, ConfirmAddress, FileHuman, HoldFiled, Plan, Rewind, Prepare, Fetch,
           Pulled, Lose, Absorb, Crash

LEMMA TrueCursor ==
    ASSUME Shape, TrueInv, Next, UNCHANGED server
    PROVE  cursor'.epoch <= epoch
<1>1. epoch \in Nat /\ TypeInv /\ cursor.epoch <= epoch
  BY DEF Shape, TypeInv, TrueInv
<1>2. CASE UNCHANGED cursor
  BY <1>1, <1>2
<1>3. CASE Rewind
  BY <1>1, <1>3, PullMoves
<1>4. CASE ClearCursor
  BY <1>1, <1>4 DEF ClearCursor, NoCursor
<1>5. CASE Remember
  <2>1. cursor'.epoch = job.batch.epoch
    BY <1>1, <1>5, RememberIs
  <2>2. job # NoJob
    BY <1>1, <1>5, JobAtWork DEF Remember, Working
  <2> QED
    BY <2>1, <2>2 DEF TrueInv, TrueBatch
<1> QED
  BY <1>2, <1>3, <1>4, <1>5, Zenon
     DEF Next, Humans, Pulling, Absorbing, Arrive, Renumber, SetKeptAddresses, Close, DeleteOpportunity,
         ReleaseReplyHold, ConfirmAddress, FileHuman, HoldFiled, RequestBody, Plan, Prepare, Fetch,
         Pulled, FillRecent, Lose, FetchBody, Absorb, ForgetFiling, ForgetFault, ForgetHold, Message, Hold,
         File, Mark, Crash, ClearRows, Retain, Insert, FillBody, mirror

LEMMA TrueStep ==
    ASSUME Shape, TrueInv, [Next]_vars
    PROVE  TrueInv'
<1>1. TypeInv /\ TypeInv'
  BY ShapeStep DEF Shape
<1>2. CASE Moves /\ UNCHANGED <<rows, cursor, pull, fill, job>>
  <2>1. StaysTrue
    BY <1>1, <1>2, FolderMoves
  <2>2. /\ cursor.epoch <= epoch /\ fill.epoch <= epoch /\ cursor \in Cursors /\ fill \in Fills
        /\ epoch \in Nat /\ epoch' \in Nat /\ epoch <= epoch' /\ (epoch' = epoch => Uids \subseteq Uids')
    BY <1>1, <2>1 DEF TrueInv, StaysTrue, TypeInv
  <2>3. \A r \in rows : TrueRow(r)'
    BY <1>1, <2>1, RowStaysTrue DEF TrueInv, TypeInv
  <2>4. \A b \in Batches : TrueBatch(b) => TrueBatch(b)'
    BY <1>1, <2>1, BatchStaysTrue
  <2>5. (\A k \in 1..Len(pull.queue) : TrueBatch(pull.queue[k]))'
    <3>1. \A k \in 1..Len(pull.queue) : pull.queue[k] \in Batches /\ TrueBatch(pull.queue[k])
      BY <1>1, SMTT(60) DEF TypeInv, Pulls, TrueInv
    <3>2. pull' = pull
      BY <1>2
    <3> QED
      BY <2>4, <3>1, <3>2, ZenonT(60) DEF TrueBatch, TrueMessages
  <2>6. (\A k \in 1..Len(fill.queue) : TrueBatch(fill.queue[k]))'
    <3>1. \A k \in 1..Len(fill.queue) : fill.queue[k] \in Batches /\ TrueBatch(fill.queue[k])
      BY <1>1, SMTT(60) DEF TypeInv, Fills, TrueInv
    <3>2. fill' = fill
      BY <1>2
    <3> QED
      BY <2>4, <3>1, <3>2, ZenonT(60) DEF TrueBatch, TrueMessages
  <2>7. (job # NoJob => TrueBatch(job.batch))'
    <3>1. job # NoJob => job.batch \in Batches /\ TrueBatch(job.batch)
      BY <1>1, JobFields DEF TypeInv, TrueInv
    <3>2. job' = job
      BY <1>2
    <3> QED
      BY <2>4, <3>1, <3>2 DEF TrueBatch, TrueMessages
  <2>8. cursor'.epoch <= epoch' /\ fill'.epoch <= epoch'
    <3>1. cursor' = cursor /\ fill' = fill
      BY <1>2
    <3>2. cursor.epoch \in Nat /\ fill.epoch \in Nat
      BY <2>2 DEF Cursors, Fills
    <3>3. cursor'.epoch = cursor.epoch /\ fill'.epoch = fill.epoch
      BY <3>1
    <3> QED
      BY <2>2, <3>2, <3>3
  <2>9. (fill.epoch = epoch => \A k \in 1..Len(fill.uids) : fill.uids[k] \in Uids)'
    <3>1. fill.epoch = epoch => \A k \in 1..Len(fill.uids) : fill.uids[k] \in Uids
      BY DEF TrueInv
    <3>2. fill' = fill /\ fill.epoch \in Nat
      BY <1>2, <2>2 DEF Fills
    <3>4. fill'.epoch = fill.epoch
      BY <3>2
    <3>3. fill'.epoch = epoch' => fill.epoch = epoch /\ epoch' = epoch
      BY <2>2, <3>2, <3>4
    <3> QED
      BY <2>2, <3>1, <3>2, <3>3
  <2>10. (\A r \in rows : TrueRow(r))'
    BY <1>2, <2>3
  <2> QED
    BY <2>5, <2>6, <2>7, <2>8, <2>9, <2>10 DEF TrueInv
<1>3. CASE Next /\ UNCHANGED server
  <2>1. epoch' = epoch /\ box' = box /\ Uids' = Uids
    BY <1>3 DEF server, Uids
  <2>2. (\A r \in rows : TrueRow(r))'
    BY <1>3, <2>1, TrueRows DEF TrueRow
  <2>3. (\A k \in 1..Len(pull.queue) : TrueBatch(pull.queue[k]))'
    BY <1>3, <2>1, TruePull DEF TrueBatch, TrueMessages
  <2>4. (job # NoJob => TrueBatch(job.batch))'
    BY <1>3, <2>1, TruePull DEF TrueBatch, TrueMessages
  <2>5. FillIsTrue'
    BY <1>3, TrueFill
  <2>6. cursor'.epoch <= epoch'
    BY <1>3, <2>1, TrueCursor
  <2> QED
    BY <2>2, <2>3, <2>4, <2>5, <2>6 DEF TrueInv, FillIsTrue
<1>4. CASE UNCHANGED vars
  BY <1>2, <1>4 DEF vars, mirror, Moves
<1>5. CASE (\E m \in Mails : Arrive(m)) \/ Renumber
  BY <1>2, <1>5 DEF Moves, Arrive, Renumber, mirror
<1> QED
  BY <1>3, <1>4, <1>5, ZenonT(60)
     DEF Next, Humans, Pulling, Absorbing, SetKeptAddresses, Close, DeleteOpportunity, ReleaseReplyHold,
         ConfirmAddress, FileHuman, HoldFiled, RequestBody, Plan, Rewind, Prepare, Fetch, Pulled,
         FillRecent, Lose, FetchBody, Absorb, ClearRows, ClearCursor, Retain, ForgetFiling, ForgetFault,
         ForgetHold, Message, Hold, File, Mark, Insert, FillBody, Remember, Crash, Doing, Working

LEMMA TrueInit == Init => TrueInv
BY NothingIs DEF Init, TrueInv, NoCursor

(* As long as the folder keeps its numbers, the body under a header is the *)
(* body of that letter, whatever came late, was numbered again or failed.  *)
THEOREM BodiesAreTheirs == Spec => []BodyIsItsOwn
<1>1. Spec => Init /\ [][Next]_vars
  BY DEF Spec
<1>2. Shape /\ TrueInv => BodyIsItsOwn
  BY DEF TrueInv, TrueRow, BodyIsItsOwn
<1>3. Init => Shape /\ TrueInv
  BY ShapeInit, TrueInit
<1>4. Shape /\ TrueInv /\ [Next]_vars => (Shape /\ TrueInv)'
  BY ShapeStep, TrueStep
<1> QED
  BY <1>1, <1>2, <1>3, <1>4, PTL

-----------------------------------------------------------------------------
(* What is filed, what is held.                                            *)

LEMMA FileReplies ==
    ASSUME Shape, HoldInv, File
    PROVE  RepliesHold'
<1>1. CASE UNCHANGED filing
  BY <1>1 DEF File, HoldInv, RepliesHold, HoldsFor, Answers, history, Doing, Working
<1>2. CASE ~UNCHANGED filing
  <2>1. Doing("file") /\ UNCHANGED <<hold, released>> /\ ~Refused
        /\ filing' = [filing EXCEPT ![Msg.mail] = [source |-> "auto", dossier |-> job.link.dossier]]
    BY <1>2 DEF File, Doing, Working
  <2>2. IsJob(job) /\ job # NoJob /\ Ordered(job) /\ job.todo \in Seq(Steps) /\ job.todo # <<>>
        /\ Head(job.todo) = "file"
    BY <2>1, JobAtWork, JobFields, SMTT(60) DEF Shape, StageInv, Doing, Working
  <2>3. "file" \in Range(job.todo) /\ "hold" \notin Range(job.todo)
    <3>1. job.todo[1] = "file" /\ Len(job.todo) \in Nat \ {0}
      BY <2>2, TailIs
    <3>2. \A k \in 1..Len(job.todo) : job.todo[k] # "hold"
      BY <2>2, <3>1 DEF Ordered
    <3> QED
      BY <2>2, <3>1, <3>2, RangeIs
  <2>4. filing \in [Mails -> Filings]
    BY DEF Shape, TypeInv
  <2>5. ASSUME NEW m \in Mails, Human(m) /\ ~ToNoDossier(m), filing'[m].source = "auto", filing'[m].dossier # None
        PROVE  filing'[m].dossier \in hold \cup released
    <3>1. CASE m = Msg.mail
      <4>1. filing'[m].dossier = job.link.dossier
        BY <2>1, <2>4, <3>1
      <4>2. job.link.dossier \in exists /\ Answers(Msg.mail)
        BY <2>1, <2>5, <3>1, <4>1 DEF Refused, Answers
      <4> QED
        BY <2>2, <2>3, <2>5, <4>1, <4>2 DEF HoldInv, FilesHeld
    <3>2. CASE m # Msg.mail
      <4>1. filing'[m] = filing[m]
        BY <2>1, <2>4, <3>2
      <4> QED
        BY <2>5, <4>1 DEF HoldInv, RepliesHold, HoldsFor
    <3> QED
      BY <3>1, <3>2
  <2> QED
    BY <2>1, <2>5 DEF RepliesHold, HoldsFor
<1> QED
  BY <1>1, <1>2

LEMMA RepliesStep ==
    ASSUME Shape, HoldInv, Next
    PROVE  RepliesHold'
<1>1. /\ filing \in [Mails -> Filings]
      /\ \A m \in Mails : Human(m) /\ ~ToNoDossier(m) => HoldsFor(m)
  BY DEF HoldInv, RepliesHold, Shape, TypeInv
<1>2. CASE filing' = filing /\ hold \cup released \subseteq hold' \cup released'
  BY <1>1, <1>2 DEF RepliesHold, HoldsFor
<1>3. CASE \E d \in Dossiers : DeleteOpportunity(d)
  <2>1. PICK d \in Dossiers : DeleteOpportunity(d)
    BY <1>3
  <2>2. /\ hold' = hold \ {d} /\ released' = released
        /\ \A m \in Mails : filing'[m] = IF filing[m].dossier = d
                                         THEN [filing[m] EXCEPT !.dossier = None] ELSE filing[m]
    BY <2>1 DEF DeleteOpportunity, history
  <2>3. ASSUME NEW m \in Mails, filing'[m].dossier # None
        PROVE  filing'[m] = filing[m] /\ filing[m].dossier # d
    <3>1. filing[m] \in Filings
      BY <1>1
    <3>2. PICK f : f = filing[m]
      OBVIOUS
    <3>3. filing'[m] = IF f.dossier = d THEN [f EXCEPT !.dossier = None] ELSE f
      BY <2>2, <3>2
    <3> QED
      BY <2>3, <3>1, <3>2, <3>3 DEF Filings
  <2> QED
    BY <1>1, <2>2, <2>3 DEF RepliesHold, HoldsFor
<1>4. CASE \E m \in Mails, d \in Dossiers : FileHuman(m, d)
  <2>1. PICK n \in Mails, d \in Dossiers : FileHuman(n, d)
    BY <1>4
  <2>2. ASSUME NEW m \in Mails, filing'[m].source = "auto"
        PROVE  filing'[m] = filing[m]
    BY <1>1, <2>1, <2>2 DEF FileHuman
  <2>3. hold' = hold /\ released' = released
    BY <2>1 DEF FileHuman, history
  <2> QED
    BY <1>1, <2>2, <2>3 DEF RepliesHold, HoldsFor
<1>5. CASE ForgetFiling
  <2>1. ASSUME NEW m \in Mails, filing'[m].source = "auto"
        PROVE  filing'[m] = filing[m]
    <3>1. filing' = [filing EXCEPT ![Head(job.gone)] = NoFiling]
      BY <1>5 DEF ForgetFiling
    <3>2. NoFiling.source # "auto"
      BY ReleveAssumption DEF NoFiling
    <3> QED
      BY <1>1, <2>1, <3>1, <3>2
  <2>2. hold' = hold /\ released' = released
    BY <1>5 DEF ForgetFiling, Doing, Working
  <2> QED
    BY <1>1, <2>1, <2>2 DEF RepliesHold, HoldsFor
<1>6. CASE ForgetHold
  <2>1. /\ filing' = filing /\ released' = released
        /\ hold' = IF \E m \in Mails : filing[m].dossier = job.from THEN hold ELSE hold \ {job.from}
    BY <1>6 DEF ForgetHold, Doing, Working
  <2> QED
    BY <1>1, <2>1 DEF RepliesHold, HoldsFor
<1>7. CASE File
  BY <1>7, FileReplies
<1>8. CASE \E d \in Dossiers : ReleaseReplyHold(d)
  <2>1. filing' = filing /\ hold \cup released \subseteq hold' \cup released'
    BY <1>8 DEF ReleaseReplyHold
  <2> QED
    BY <1>2, <2>1
<1>9. CASE HoldFiled \/ Hold
  <2>1. filing' = filing /\ hold \cup released \subseteq hold' \cup released'
    BY <1>9 DEF HoldFiled, Hold, history, Doing, Working
  <2> QED
    BY <1>2, <2>1
<1>10. CASE UNCHANGED <<filing, hold, released>>
  BY <1>2, <1>10
<1> QED
  BY <1>3, <1>4, <1>5, <1>6, <1>7, <1>8, <1>9, <1>10, Zenon
     DEF Next, Humans, Pulling, Absorbing, Arrive, Renumber, SetKeptAddresses, Close, ConfirmAddress,
         RequestBody, Plan, Rewind, Prepare, Fetch, Pulled, FillRecent, Lose, FetchBody, Absorb,
         ClearRows, ClearCursor, Retain, ForgetFault, Message, Mark, Insert, FillBody, Remember, Crash,
         vault, history, Doing, Working

LEMMA FilesHeldStep ==
    ASSUME Shape, HoldInv, Next
    PROVE  FilesHeld'
<1> DEFINE Kept == \A d \in exists' : d \in hold \cup released => d \in hold' \cup released'
<1>1. FilesHeld /\ TypeInv /\ OfThePull
  BY DEF HoldInv, Shape, StageInv
<1>2. CASE UNCHANGED job /\ exists' \subseteq exists /\ Kept
  BY <1>1, <1>2 DEF FilesHeld, Msg
<1>3. CASE job' = NoJob
  BY <1>3 DEF FilesHeld
<1>4. CASE Message
  <2>1. TakesUp(job, job', rows)
    BY <1>1, <1>4, MessageTakesUp
  <2> SUFFICES ASSUME "file" \in Range(job'.todo), Answers(job'.batch.messages[job'.i].mail), job'.link.dossier # None
               PROVE  "hold" \in Range(job'.todo)
    BY DEF FilesHeld, Msg
  <2>2. PICK m, body : m = job'.batch.messages[job'.i].mail /\ body = job'.batch.messages[job'.i].body
    OBVIOUS
  <2>3. /\ m \in Mails /\ About[m].ours = None /\ job'.link = Read(m, body, job.open)
        /\ job'.link.hold /\ job'.link.dossier # None => "hold" \in Range(job'.todo)
    BY <2>1, <2>2, SMTT(60) DEF TakesUp, SameBatch
  <2>4. Answers(m) /\ job.open \in SUBSET Dossiers
    BY <2>1, <2>2, JobFields, ZenonT(60) DEF TakesUp
  <2>5. job'.link.hold
    BY <2>3, <2>4, AnswersAreHeld
  <2> QED
    BY <2>3, <2>5
<1>5. CASE Retain
  <2>1. Range(job'.todo) \subseteq {"forget", "unfault", "unhold"}
    BY <1>1, <1>5, RetainIs DEF Forgets
  <2> QED
    BY <2>1 DEF FilesHeld
<1>6. CASE \E by \in {"pull", "fill"} : Absorb(by)
  <2>1. Range(job'.todo) \subseteq Early
    BY <1>1, <1>6, AbsorbBegins
  <2> QED
    BY <2>1 DEF FilesHeld, Early
<1>7. ASSUME NEW step, Commits(step), exists' = exists, Range(job.todo) \subseteq Early \/ Kept,
             step = "hold" => job.link.dossier \in hold'
      PROVE  FilesHeld'
  <2>1. /\ job.todo \in Seq(Steps) /\ job.todo # <<>> /\ Head(job.todo) = step
        /\ job'.todo = Tail(job.todo) /\ job'.i = job.i /\ job'.link = job.link
        /\ job'.batch = job.batch /\ job # NoJob
    BY <1>7, JobIsSome DEF Commits, Popped, SameBatch
  <2>2. \A x : x \in Range(job.todo) <=> x = step \/ x \in Range(job'.todo)
    BY <2>1, RangeOfTail
  <2>3. CASE Kept
    BY <1>1, <1>7, <2>1, <2>2, <2>3 DEF FilesHeld, Msg
  <2>4. CASE Range(job.todo) \subseteq Early
    BY <2>2, <2>4 DEF FilesHeld, Early
  <2> QED
    BY <1>7, <2>3, <2>4
<1>8. CASE ClearRows \/ ClearCursor \/ ForgetFiling \/ ForgetFault \/ Mark \/ Insert \/ FillBody
  <2>1. exists' = exists /\ Kept
    BY <1>8 DEF ClearRows, ClearCursor, ForgetFiling, ForgetFault, Mark, Insert, FillBody, Doing, Working,
                vault, book
  <2> QED
    BY <1>1, <1>7, <1>8, <2>1, CommitsAre
<1>9. CASE ForgetHold
  <2>1. exists' = exists /\ Commits("unhold")
    BY <1>1, <1>9, CommitsAre DEF ForgetHold, Doing, Working, book
  <2>2. Range(job.todo) \subseteq Early
    <3>1. "unhold" \in Range(job.todo) /\ Ordered(job)
      BY <2>1, RangeOfTail, JobIsSome DEF Commits, Popped, Shape, StageInv
    <3> QED
      BY <3>1 DEF Ordered, Late
  <2> QED
    BY <1>7, <2>1, <2>2
<1>10. CASE Hold
  <2>1. CASE Commits("hold")
    <3>1. job' # NoJob
      BY <2>1, JobIsSome DEF Commits, Popped
    <3>2. hold' = hold \cup {job.link.dossier} /\ exists' = exists /\ released' = released
      BY <1>10, <3>1 DEF Hold, EndBatch, Doing, Working, book
    <3> QED
      BY <1>7, <2>1, <3>2
  <2> QED
    BY <1>1, <1>3, <1>10, <2>1, CommitsAre DEF Ends
<1>11. CASE File
  <2>1. exists' = exists /\ Kept
    BY <1>11 DEF File, Doing, Working, book
  <2>2. CASE Commits("file")
    BY <1>7, <2>1, <2>2
  <2> QED
    BY <1>1, <1>3, <1>11, <2>2, CommitsAre DEF Ends
<1>12. CASE Remember \/ Crash
  BY <1>3, <1>12 DEF Remember, Crash, EndBatch
<1>13. CASE UNCHANGED <<job, exists, hold, released>>
  BY <1>2, <1>13
<1>14. CASE \E d \in Dossiers : Close(d) \/ DeleteOpportunity(d) \/ ReleaseReplyHold(d)
  <2>1. UNCHANGED job /\ exists' \subseteq exists /\ Kept
    BY <1>14 DEF Close, DeleteOpportunity, ReleaseReplyHold, history, vault, book
  <2> QED
    BY <1>2, <2>1
<1>15. CASE HoldFiled
  <2>1. UNCHANGED job /\ exists' \subseteq exists /\ Kept
    BY <1>15 DEF HoldFiled, history, book
  <2> QED
    BY <1>2, <2>1
<1> QED
  BY <1>4, <1>5, <1>6, <1>8, <1>9, <1>10, <1>11, <1>12, <1>13, <1>14, <1>15, Zenon
     DEF Next, Humans, Pulling, Absorbing, Arrive, Renumber, SetKeptAddresses, ConfirmAddress, FileHuman,
         RequestBody, Plan, Rewind, Prepare, Fetch, Pulled, FillRecent, Lose, FetchBody, vault, book, history

LEMMA HoldStep ==
    ASSUME Shape, HoldInv, [Next]_vars
    PROVE  HoldInv'
<1>1. CASE Next
  BY <1>1, RepliesStep, FilesHeldStep DEF HoldInv
<1>2. CASE UNCHANGED vars
  BY <1>2 DEF HoldInv, RepliesHold, HoldsFor, FilesHeld, Msg, vars, vault, book, history
<1> QED
  BY <1>1, <1>2

(* An answer that the pull files on a dossier has stopped its automatic    *)
(* letters, or a human let them go since: whatever the pull was stopped    *)
(* at, and whatever was deleted or forgotten between its commits.          *)
THEOREM RepliesAreHeld == Spec => []RepliesHold
<1>1. Spec => Init /\ [][Next]_vars
  BY DEF Spec
<1>2. Init => HoldInv
  <2> SUFFICES ASSUME Init PROVE HoldInv
    OBVIOUS
  <2>1. \A m \in Mails : filing[m].source = None
    BY DEF Init, NoFiling
  <2>2. None # "auto" /\ job = NoJob
    BY ReleveAssumption DEF Init
  <2> QED
    BY <2>1, <2>2 DEF HoldInv, RepliesHold, HoldsFor, FilesHeld
<1>3. HoldInv => RepliesHold
  BY DEF HoldInv
<1> QED
  BY <1>1, <1>2, <1>3, HoldStep, ShapeHolds, PTL

(* The pull forgets what a human filed, with its letter, or leaves it.     *)
THEOREM HumansPrevail == Spec => HumanFilingStands
<1> DEFINE Stands == \A m \in Mails : filing[m].source = "human" /\ job # NoJob /\ filing'[m] # filing[m] =>
                         filing'[m].source \in {"human", None}
<1>1. Spec => Init /\ [][Next]_vars
  BY DEF Spec
<1>2. ASSUME Shape, [Next]_vars PROVE [Stands]_vars
  <2>1. filing \in [Mails -> Filings]
    BY <1>2 DEF Shape, TypeInv
  <2> SUFFICES ASSUME Next, NEW m \in Mails, filing[m].source = "human", filing'[m] # filing[m]
               PROVE  filing'[m].source \in {"human", None}
    BY <1>2
  <2>2. CASE \E d \in Dossiers : DeleteOpportunity(d)
    <3>1. PICK d \in Dossiers : filing'[m] = IF filing[m].dossier = d
                                             THEN [filing[m] EXCEPT !.dossier = None] ELSE filing[m]
      BY <2>2 DEF DeleteOpportunity
    <3>2. PICK f : f = filing[m]
      OBVIOUS
    <3>3. f \in Filings /\ filing'[m] = [f EXCEPT !.dossier = None]
      BY <2>1, <3>1, <3>2
    <3> QED
      BY <3>2, <3>3 DEF Filings
  <2>3. CASE \E n \in Mails, d \in Dossiers : FileHuman(n, d)
    BY <2>1, <2>3 DEF FileHuman
  <2>4. CASE ForgetFiling
    BY <2>1, <2>4 DEF ForgetFiling, NoFiling
  <2>5. CASE File
    <3>1. ~Filed(Msg.mail)
      BY <2>5 DEF File
    <3>2. filing[m] # NoFiling
      BY ReleveAssumption DEF NoFiling
    <3> QED
      BY <2>1, <2>5, <3>1, <3>2 DEF File, Filed
  <2>6. CASE UNCHANGED filing
    BY <2>6
  <2> QED
    BY <2>2, <2>3, <2>4, <2>5, <2>6, Zenon
       DEF Next, Humans, Pulling, Absorbing, Arrive, Renumber, SetKeptAddresses, Close, ReleaseReplyHold,
           ConfirmAddress, HoldFiled, RequestBody, Plan, Rewind, Prepare, Fetch, Pulled, FillRecent, Lose,
           FetchBody, Absorb, ClearRows, ClearCursor, Retain, ForgetFault, ForgetHold, Message, Hold, Mark,
           Insert, FillBody, Remember, Crash, vault
<1> QED
  BY <1>1, <1>2, ShapeHolds, PTL DEF HumanFilingStands

-----------------------------------------------------------------------------
(* What the pull knows of the choice and of the cursor.                    *)

(* A batch at hand is of the pull, which is under way, or of the bodies.   *)
LEMMA WhoseBatch ==
    ASSUME Shape, job # NoJob
    PROVE  /\ IsJob(job) /\ job.by \in {"pull", "fill"} /\ Ordered(job) /\ job.todo \in Seq(Steps)
           /\ ByPull => pull.pc = "pulling" /\ pull.queue # <<>> /\ pull.queue \in Seq(Batches)
                        /\ job.batch = pull.queue[1]
           /\ ~ByPull => Quiet(job.batch) /\ job.by = "fill"
<1>1. IsJob(job) /\ OfThePull /\ Ordered(job) /\ pull.queue \in Seq(Batches)
  BY DEF Shape, TypeInv, StageInv, Pulls
<1>2. job.by \in {"pull", "fill"} /\ job.todo \in Seq(Steps)
  BY <1>1, JobFields
<1>3. pull.queue # <<>> => Head(pull.queue) = pull.queue[1]
  BY <1>1
<1> QED
  BY <1>1, <1>2, <1>3 DEF OfThePull, ByPull

LEMMA AtWorkIs ==
    ASSUME Shape, Working
    PROVE  IsJob(job) /\ job # NoJob
BY JobAtWork DEF Working, Shape

(* The commits of a batch that starts the mirror afresh, or sweeps.        *)
LEMMA FirstSteps ==
    ASSUME Shape
    PROVE  /\ ClearRows => /\ ByPull /\ job.batch.resync /\ job' # NoJob
                           /\ "clear" \in Range(job.todo) /\ "rewind" \in Range(job.todo)
                           /\ "clear" \notin Range(job'.todo)
           /\ ClearCursor => /\ ByPull /\ job.batch.resync /\ job' # NoJob
                             /\ "rewind" \in Range(job.todo)
                             /\ "clear" \notin Range(job.todo) /\ "clear" \notin Range(job'.todo)
                             /\ "rewind" \notin Range(job'.todo)
           /\ Retain => /\ ByPull /\ job.batch.sweeps /\ job' # NoJob
                        /\ "clear" \notin Range(job.todo) /\ "clear" \notin Range(job'.todo)
                        /\ "rewind" \notin Range(job.todo) /\ "rewind" \notin Range(job'.todo)
<1>1. TypeInv /\ OfThePull
  BY DEF Shape, StageInv
<1>2. ASSUME NEW step \in {"clear", "rewind", "retain"}, Doing(step)
      PROVE  /\ job # NoJob /\ Ordered(job) /\ job.todo \in Seq(Steps) /\ job.todo # <<>>
             /\ step \in Range(job.todo) /\ job.todo[1] = step
             /\ \A k \in 1..(Len(job.todo) - 1) : Tail(job.todo)[k] = job.todo[k + 1]
             /\ Len(Tail(job.todo)) = Len(job.todo) - 1 /\ Len(job.todo) \in Nat \ {0}
             /\ Tail(job.todo) \in Seq(Steps)
  <2>1. job # NoJob /\ job.todo # <<>> /\ Head(job.todo) = step
    BY <1>2, AtWorkIs DEF Doing, Working
  <2>2. Ordered(job) /\ job.todo \in Seq(Steps)
    BY <2>1, WhoseBatch
  <2> QED
    BY <2>1, <2>2, TailIs, RangeOfTail
<1>3. ASSUME NEW step \in {"clear", "rewind", "retain"}, Doing(step)
      PROVE  /\ "clear" \notin Range(Tail(job.todo))
             /\ step # "clear" => "clear" \notin Range(job.todo)
             /\ step # "clear" => "rewind" \notin Range(Tail(job.todo))
             /\ step = "retain" => "rewind" \notin Range(job.todo)
  <2>1. \A x : x \in Range(job.todo) <=> x = step \/ x \in Range(Tail(job.todo))
    BY <1>2, <1>3, RangeOfTail
  <2>2. Range(Tail(job.todo)) = {Tail(job.todo)[k] : k \in 1..Len(Tail(job.todo))}
    <3>1. PICK rest : rest = Tail(job.todo)
      OBVIOUS
    <3>2. rest \in Seq(Steps)
      BY <1>2, <1>3, <3>1
    <3> QED
      BY <3>1, <3>2, RangeIs
  <2>3. \A k \in 1..Len(Tail(job.todo)) : k + 1 \in 1..Len(job.todo) /\ k + 1 > 1 /\ Tail(job.todo)[k] = job.todo[k + 1]
    BY <1>2, <1>3
  <2>4. \A k \in 1..Len(Tail(job.todo)) : Tail(job.todo)[k] # "clear"
    BY <1>2, <1>3, <2>3 DEF Ordered
  <2>5. step # "clear" => \A k \in 1..Len(Tail(job.todo)) : Tail(job.todo)[k] # "rewind"
    BY <1>2, <1>3, <2>3 DEF Ordered
  <2> QED
    BY <2>1, <2>2, <2>4, <2>5
<1>4. ASSUME ClearRows
      PROVE  /\ ByPull /\ job.batch.resync /\ job' # NoJob
             /\ "clear" \in Range(job.todo) /\ "rewind" \in Range(job.todo)
             /\ "clear" \notin Range(job'.todo)
  <2>1. Doing("clear") /\ Commits("clear")
    BY <1>1, <1>4, CommitsAre DEF ClearRows
  <2>2. job'.todo = Tail(job.todo) /\ job' # NoJob
    BY <2>1, JobIsSome DEF Commits, Popped
  <2>3. "rewind" \in Range(job.todo) /\ job.batch.resync
    BY <1>2, <2>1 DEF Ordered
  <2> QED
    BY <1>2, <1>3, <2>1, <2>2, <2>3, WhoseBatch DEF Quiet
<1>5. ASSUME ClearCursor
      PROVE  /\ ByPull /\ job.batch.resync /\ job' # NoJob
             /\ "rewind" \in Range(job.todo)
             /\ "clear" \notin Range(job.todo) /\ "clear" \notin Range(job'.todo)
             /\ "rewind" \notin Range(job'.todo)
  <2>1. Doing("rewind") /\ Commits("rewind")
    BY <1>1, <1>5, CommitsAre DEF ClearCursor
  <2>2. job'.todo = Tail(job.todo) /\ job' # NoJob
    BY <2>1, JobIsSome DEF Commits, Popped
  <2>3. "rewind" \in Range(job.todo) /\ job.batch.resync
    BY <1>2, <2>1 DEF Ordered
  <2> QED
    BY <1>2, <1>3, <2>1, <2>2, <2>3, WhoseBatch DEF Quiet
<1>6. ASSUME Retain
      PROVE  /\ ByPull /\ job.batch.sweeps /\ job' # NoJob
             /\ "clear" \notin Range(job.todo) /\ "clear" \notin Range(job'.todo)
             /\ "rewind" \notin Range(job.todo) /\ "rewind" \notin Range(job'.todo)
  <2>1. Doing("retain") /\ Forgets(job, job')
    BY <1>1, <1>6, RetainIs DEF Retain
  <2>2. Range(job'.todo) \subseteq {"forget", "unfault", "unhold"} /\ job' # NoJob
    BY <2>1, JobIsSome DEF Forgets
  <2>3. job.batch.sweeps
    BY <1>2, <2>1 DEF Ordered
  <2> QED
    BY <1>2, <1>3, <2>1, <2>2, <2>3, WhoseBatch DEF Quiet
<1> QED
  BY <1>4, <1>5, <1>6

LEMMA Disturbances ==
    ASSUME Next
    PROVE  /\ Undisturbed' => Undisturbed
           /\ moved => moved'
<1>1. CASE \E d \in Dossiers : DeleteOpportunity(d)
  BY <1>1 DEF DeleteOpportunity, Undisturbed, history
<1>2. exists' = exists \/ \E d \in Dossiers : DeleteOpportunity(d)
  BY Zenon
     DEF Next, Humans, Pulling, Absorbing, Arrive, Renumber, SetKeptAddresses, Close, ReleaseReplyHold,
         ConfirmAddress, FileHuman, HoldFiled, RequestBody, Plan, Rewind, Prepare, Fetch, Pulled, FillRecent,
         Lose, FetchBody, Absorb, ClearRows, ClearCursor, Retain, ForgetFiling, ForgetFault, ForgetHold,
         Message, Hold, File, Mark, Insert, FillBody, Remember, Crash, book, Doing, Working
<1>3. moved' = moved \/ Remember
  BY Zenon
     DEF Next, Humans, Pulling, Absorbing, Arrive, Renumber, SetKeptAddresses, Close, DeleteOpportunity,
         ReleaseReplyHold, ConfirmAddress, FileHuman, HoldFiled, RequestBody, Plan, Rewind, Prepare, Fetch,
         Pulled, FillRecent, Lose, FetchBody, Absorb, ClearRows, ClearCursor, Retain, ForgetFiling,
         ForgetFault, ForgetHold, Message, Hold, File, Mark, Insert, FillBody, Crash, history, Doing
<1>4. Remember /\ moved => moved'
  BY ZenonT(60) DEF Remember
<1>5. moved => moved'
  BY <1>3, <1>4
<1> QED
  BY <1>1, <1>2, <1>5 DEF Undisturbed

(* What a commit leaves to the pull: its batch, its choice, its plans.     *)
LEMMA ChoiceGoesOn ==
    ASSUME Shape, ChoiceInv, Next, UNCHANGED <<gen, kept, applied, pull>>,
           job' # NoJob => job # NoJob /\ SameBatch(job, job'),
           pull.pc \in {"planned", "prepared"} => moved' \/ cursor' = cursor,
           pull.pc = "rewound" => cursor' = cursor
    PROVE  ChoiceInv'
<1>1. moved => moved'
  BY Disturbances
<1>2. ByPull' => ByPull /\ job'.kept = job.kept
  BY DEF ByPull, SameBatch
<1> QED
  BY <1>1, <1>2 DEF ChoiceInv

LEMMA ChoiceStep ==
    ASSUME Shape, ChoiceInv, Next
    PROVE  ChoiceInv'
<1>1. /\ TypeInv /\ OfThePull /\ pull \in Pulls /\ gen \in Nat /\ applied \in Nat /\ pull.gen \in Nat
      /\ pull.pc # "pulling" => pull.queue = <<>> /\ ~pull.failed
  BY DEF Shape, StageInv, TypeInv, Pulls
<1>2. moved => moved'
  BY Disturbances
<1>3. ByPull => pull.pc = "pulling"
  BY <1>1 DEF OfThePull, ByPull
<1>4. CASE \E s \in Scopes : SetKeptAddresses(s)
  <2>1. gen' = gen + 1 /\ UNCHANGED <<applied, pull, job, cursor, moved>>
    BY <1>4 DEF SetKeptAddresses, mirror, history
  <2> QED
    BY <1>1, <1>3, <2>1 DEF ChoiceInv, ByPull
<1>5. CASE Plan
  <2>1. job = NoJob /\ UNCHANGED <<gen, kept, applied, cursor, job>>
    BY <1>5 DEF Plan, Locked, choice, mirror
  <2>2. pull'.pc = "planned" /\ pull'.cursor = cursor /\ pull'.kept = kept /\ pull'.gen = gen
    BY <1>1, <1>5, PullMoves
  <2> QED
    BY <1>1, <2>1, <2>2 DEF ChoiceInv, ByPull
<1>6. CASE Rewind
  <2>1. job = NoJob /\ UNCHANGED <<gen, kept, applied, job, moved>>
        /\ pull.pc = "planned" /\ pull.kept = "all" /\ pull.gen # applied
    BY <1>6 DEF Rewind, Locked, choice, history
  <2>2. pull'.pc = "rewound" /\ SameBut(pull, pull') /\ cursor'.last = 0
        /\ (pull.cursor = cursor => pull'.cursor = cursor')
    BY <1>1, <1>6, PullMoves
  <2> QED
    BY <1>1, <2>1, <2>2 DEF ChoiceInv, ByPull, SameBut
<1>7. CASE Prepare
  <2>1. /\ job = NoJob /\ UNCHANGED <<gen, kept, job, moved, cursor>>
        /\ \/ pull.pc = "rewound" /\ applied' = pull.gen
           \/ pull.pc = "planned" /\ (pull.gen = applied \/ pull.kept = "listed") /\ applied' = applied
    BY <1>7 DEF Prepare, Locked, choice, history
  <2>2. /\ pull'.pc = "prepared" /\ SameBut(pull, pull') /\ pull'.cursor = pull.cursor
        /\ pull'.sweep <=> pull.gen # applied /\ pull.kept = "listed"
    BY <1>1, <1>7, PullMoves
  <2>3. pull'.sweep <=> applied' # pull.gen
    BY <2>1, <2>2 DEF ChoiceInv
  <2> QED
    BY <1>1, <2>1, <2>2, <2>3 DEF ChoiceInv, ByPull, SameBut
<1>8. CASE Fetch
  <2>1. pull.pc = "prepared" /\ UNCHANGED <<gen, kept, applied, job>>
    BY <1>8 DEF Fetch, choice, mirror
  <2>2. /\ pull'.pc = "pulling" /\ pull'.kept = pull.kept /\ pull'.gen = pull.gen
        /\ (pull'.sweep <=> pull.sweep)
    BY <1>1, <1>8, FetchMoves
  <2>3. ~ByPull /\ ~ByPull'
    BY <1>3, <2>1 DEF ByPull
  <2> QED
    BY <2>1, <2>2, <2>3 DEF ChoiceInv
<1>9. CASE Lose
  <2>1. pull.pc = "pulling" /\ job = NoJob /\ UNCHANGED <<gen, kept, applied, job>>
    BY <1>9 DEF Lose, Locked, choice, mirror
  <2>2. SamePull(pull, pull')
    BY <1>1, <1>9, PullMoves
  <2> QED
    BY <2>1, <2>2 DEF ChoiceInv, ByPull, SamePull
<1>10. CASE Pulled
  <2>1. /\ job = NoJob /\ UNCHANGED <<gen, kept, job>> /\ pull.pc = "pulling"
        /\ applied' = applied \/ applied' = pull.gen
        /\ pull.failed => applied' = applied
    BY <1>10 DEF Pulled, Locked, choice
  <2>2. CASE pull.failed
    <3>1. pull'.pc = "idle"
      BY <1>1, <1>10, <2>2, PullMoves, NothingIs
    <3> QED
      BY <2>1, <2>2, <3>1 DEF ChoiceInv, ByPull
  <2>3. CASE ~pull.failed
    <3>1. pull'.pc = "pulled" /\ SameBut(pull, pull')
      BY <1>1, <1>10, <2>3, PullMoves
    <3> QED
      BY <1>1, <2>1, <3>1 DEF ChoiceInv, ByPull, SameBut
  <2> QED
    BY <2>2, <2>3
<1>11. CASE FillRecent \/ Crash
  <2>1. pull'.pc = "idle" /\ ~ByPull' /\ UNCHANGED <<gen, kept, applied>>
    BY <1>11, NothingIs DEF FillRecent, Crash, Locked, ByPull, choice, mirror
  <2> QED
    BY <2>1 DEF ChoiceInv
<1>12. CASE \E by \in {"pull", "fill"} : Absorb(by)
  <2>1. pull.pc # "rewound" /\ UNCHANGED <<gen, kept, applied, pull, cursor, moved>>
    BY <1>12 DEF Absorb, choice, mirror, history
  <2>2. job'.kept = kept
    BY <1>1, <1>12, AbsorbBegins
  <2> QED
    BY <2>1, <2>2 DEF ChoiceInv
<1>13. CASE Remember
  <2>1. IsJob(job) /\ job # NoJob /\ UNCHANGED <<gen, kept, applied>> /\ job' = NoJob
    BY <1>13, AtWorkIs DEF Remember, EndBatch, Working, choice
  <2>2. job.by \in {"pull", "fill"}
    BY <2>1, JobFields
  <2>3. CASE ByPull
    <3>1. EndBatch(FALSE)
      BY <1>13, ZenonT(60) DEF Remember
    <3>2. SamePull(pull, pull') /\ pull.pc = "pulling"
      BY <1>1, <1>3, <2>1, <2>3, <3>1, EndBatchEnds, ZenonT(60) DEF Ends
    <3> QED
      BY <2>1, <3>2 DEF ChoiceInv, ByPull, SamePull
  <2>4. CASE ~ByPull
    <3>1. pull' = pull /\ (moved' \/ cursor' = cursor)
      BY <1>13, <2>1, <2>2, <2>4 DEF Remember, EndBatch, ByPull
    <3>2. pull.pc # "rewound"
      BY <2>1 DEF ChoiceInv
    <3> QED
      BY <2>1, <3>1, <3>2, ChoiceGoesOn
  <2> QED
    BY <2>3, <2>4
<1>14. CASE Ends(TRUE) /\ job # NoJob /\ UNCHANGED <<gen, kept, applied, cursor>>
  <2>1. SamePull(pull, pull') /\ job' = NoJob
    BY <1>14 DEF Ends
  <2> QED
    BY <1>2, <1>14, <2>1 DEF ChoiceInv, ByPull, SamePull
<1>15. CASE ClearCursor
  <2>1. ByPull /\ Commits("rewind") /\ UNCHANGED <<gen, kept, applied>>
    BY <1>1, <1>15, FirstSteps, CommitsAre DEF ClearCursor, Doing, Working, choice
  <2>2. UNCHANGED pull /\ SameBatch(job, job') /\ job # NoJob
    BY <2>1 DEF Commits, Popped, ByPull
  <2> QED
    BY <1>3, <2>1, <2>2, ChoiceGoesOn
<1>16. CASE \E step : Commits(step) /\ UNCHANGED <<gen, kept, applied, cursor>>
  <2>1. UNCHANGED pull /\ SameBatch(job, job') /\ job # NoJob
    BY <1>16, JobIsSome DEF Commits, Popped
  <2> QED
    BY <1>16, <2>1, ChoiceGoesOn
<1>17. CASE Retain
  <2>1. UNCHANGED <<gen, kept, applied, cursor>>
    BY <1>17 DEF Retain, Doing, Working, choice
  <2>2. UNCHANGED pull /\ SameBatch(job, job') /\ job # NoJob
    BY <1>1, <1>17, RetainIs, JobIsSome DEF Forgets
  <2> QED
    BY <2>1, <2>2, ChoiceGoesOn
<1>18. CASE Message
  <2>1. UNCHANGED <<gen, kept, applied, cursor, pull>>
    BY <1>18, ZenonT(60) DEF Message, Working, choice, mirror
  <2>2. SameBatch(job, job') /\ job # NoJob
    BY <1>1, <1>18, MessageTakesUp, JobIsSome, SMTT(60) DEF TakesUp
  <2> QED
    BY <2>1, <2>2, ChoiceGoesOn
<1>19. CASE ClearRows \/ ForgetFiling \/ ForgetFault \/ ForgetHold \/ Hold \/ File \/ Mark \/ Insert \/ FillBody
  <2>1. UNCHANGED <<gen, kept, applied, cursor>>
    BY <1>19, ZenonT(60) DEF ClearRows, ForgetFiling, ForgetFault, ForgetHold, Hold, File, Mark, Insert, FillBody,
                 Doing, Working, choice, mirror
  <2> QED
    BY <1>1, <1>14, <1>16, <1>19, <2>1, CommitsAre, ZenonT(60)
<1>20. CASE UNCHANGED <<gen, kept, applied, pull, job, cursor>>
  BY <1>20, ChoiceGoesOn DEF SameBatch
<1> QED
  BY <1>4, <1>5, <1>6, <1>7, <1>8, <1>9, <1>10, <1>11, <1>12, <1>13, <1>15, <1>17, <1>18, <1>19, <1>20, Zenon
     DEF Next, Humans, Pulling, Absorbing, Arrive, Renumber, Close, DeleteOpportunity, ReleaseReplyHold,
         ConfirmAddress, FileHuman, HoldFiled, RequestBody, FetchBody, choice, mirror

(* The steps, by what they change of the pull and of the mirror.           *)
Rests == UNCHANGED <<server, choice, rows, cursor, applied, pull, job, moved>>
SameLetters == \A e, u : InMirror(rows, e, u) <=> InMirror(rows', e, u)
Settles(step) ==
    /\ Commits(step) /\ step \notin {"clear", "rewind", "retain", "insert"}
    /\ UNCHANGED <<server, choice, cursor, applied, moved>> /\ SameLetters
GivesUp ==
    /\ Ends(TRUE) /\ job # NoJob /\ UNCHANGED <<server, choice, rows, cursor, applied, moved>>
    /\ ~Undisturbed'

LEMMA CommitsSettle ==
    ASSUME Shape, Next
    PROVE  /\ ForgetFiling \/ ForgetFault \/ ForgetHold \/ Mark \/ FillBody => \E step : Settles(step)
           /\ Hold \/ File => (\E step : Settles(step)) \/ GivesUp
<1>1. TypeInv /\ OfThePull /\ rows \subseteq Rows
  BY DEF Shape, StageInv, TypeInv
<1>2. ForgetFiling \/ ForgetFault \/ ForgetHold \/ Mark \/ Hold \/ File =>
          UNCHANGED <<server, choice, rows, cursor, applied, moved, exists>>
  BY ZenonT(60) DEF ForgetFiling, ForgetFault, ForgetHold, Mark, Hold, File, Doing, Working, mirror, book
<1>3. rows' = rows => SameLetters
  BY DEF SameLetters
<1>4. FillBody => SameLetters /\ UNCHANGED <<server, choice, cursor, applied, moved>>
  <2> SUFFICES ASSUME FillBody PROVE SameLetters /\ UNCHANGED <<server, choice, cursor, applied, moved>>
    OBVIOUS
  <2> DEFINE f(r) == IF r \in At(Msg.uid) THEN [r EXCEPT !.body = Msg.body, !.text = Msg.mail] ELSE r
  <2>1. rows' = {f(r) : r \in rows} /\ UNCHANGED <<server, choice, cursor, applied, moved>>
    BY DEF FillBody, Doing, Working
  <2>2. \A r \in rows : f(r).uid = r.uid /\ f(r).epoch = r.epoch
    BY <1>1 DEF Rows
  <2> HIDE DEF f
  <2>3. \A e, u : InMirror(rows, e, u) <=> InMirror(rows', e, u)
    BY <2>1, <2>2 DEF InMirror
  <2> QED
    BY <2>1, <2>3 DEF SameLetters
<1>5. /\ ForgetFiling => Commits("forget")
      /\ ForgetFault => Commits("unfault")
      /\ ForgetHold => Commits("unhold")
      /\ Hold => Commits("hold") \/ (Ends(TRUE) /\ Refused /\ job # NoJob)
      /\ File => Commits("file") \/ (Ends(TRUE) /\ Refused /\ job # NoJob)
      /\ Mark => Commits("mark")
      /\ FillBody => Commits("body")
  BY <1>1, CommitsAre
<1>6. Refused /\ job # NoJob => exists # Dossiers
  <2>1. job # NoJob => IsJob(job)
    BY <1>1 DEF TypeInv
  <2>2. job # NoJob => job.link.dossier \in Dossiers \cup {None}
    BY <2>1, JobFields DEF Links
  <2> QED
    BY <2>2 DEF Refused
<1> QED
  BY <1>2, <1>3, <1>4, <1>5, <1>6 DEF Settles, GivesUp, Undisturbed

LEMMA StepKinds ==
    ASSUME Shape, Next
    PROVE  \/ (\E m \in Mails : Arrive(m)) \/ Renumber \/ (\E s \in Scopes : SetKeptAddresses(s))
           \/ Rests
           \/ Plan \/ Rewind \/ Prepare \/ Fetch \/ Lose \/ Pulled \/ FillRecent \/ Crash
           \/ (\E by \in {"pull", "fill"} : Absorb(by))
           \/ ClearRows \/ ClearCursor \/ Retain \/ Message \/ Insert \/ Remember
           \/ (\E step : Settles(step))
           \/ GivesUp
<1>1. (\E d \in Dossiers : Close(d) \/ DeleteOpportunity(d) \/ ReleaseReplyHold(d)) => Rests
  BY DEF Rests, Close, DeleteOpportunity, ReleaseReplyHold, mirror, history
<1>2. (\E c \in Clients : ConfirmAddress(c)) => Rests
  BY DEF Rests, ConfirmAddress, mirror, history
<1>3. (\E m \in Mails, d \in Dossiers : FileHuman(m, d)) \/ HoldFiled => Rests
  BY DEF Rests, FileHuman, HoldFiled, mirror, history
<1>4. (\E r \in rows : RequestBody(r)) \/ FetchBody => Rests
  BY DEF Rests, RequestBody, FetchBody, mirror, history
<1> QED
  BY <1>1, <1>2, <1>3, <1>4, CommitsSettle, Zenon DEF Next, Humans, Pulling, Absorbing

-----------------------------------------------------------------------------
(* The batches stay in order.                                              *)

LEMMA Queues ==
    ASSUME Shape
    PROVE  /\ pull.queue \in Seq(Batches) /\ Len(pull.queue) \in Nat
           /\ \A k \in 1..Len(pull.queue) : pull.queue[k] \in Batches
           /\ pull.queue # <<>> => Len(pull.queue) \in Nat \ {0} /\ 1 \in 1..Len(pull.queue)
BY DEF Shape, TypeInv, Pulls

(* What is left of the batches when one is over.                           *)
LeftOf(q, r) ==
    /\ r \in Seq(Batches) /\ Len(r) \in Nat /\ Len(q) \in Nat \ {0} /\ Len(r) = Len(q) - 1
    /\ \A k \in 1..Len(r) : k + 1 \in 1..Len(q) /\ r[k] = q[k + 1] /\ Before(q[1], r[k])
    /\ InOrder(r)
    /\ r = <<>> <=> Len(q) = 1

LEMMA Rest ==
    ASSUME NEW q \in Seq(Batches), q # <<>>, InOrder(q)
    PROVE  LeftOf(q, Tail(q))
<1> DEFINE r == Tail(q)
<1>1. /\ r \in Seq(Batches) /\ Len(r) \in Nat /\ Len(q) \in Nat \ {0} /\ Len(r) = Len(q) - 1
      /\ \A k \in 1..Len(r) : k + 1 \in 1..Len(q) /\ r[k] = q[k + 1]
  BY TailIs
<1> HIDE DEF r
<1>2. \A k \in 1..Len(r) : Before(q[1], r[k])
  BY <1>1 DEF InOrder
<1>3. InOrder(r)
  <2> SUFFICES ASSUME NEW k \in 1..Len(r), NEW l \in 1..Len(r), k < l PROVE Before(r[k], r[l])
    BY DEF InOrder
  <2>1. k + 1 \in 1..Len(q) /\ l + 1 \in 1..Len(q) /\ k + 1 < l + 1
    BY <1>1
  <2>2. Before(q[k + 1], q[l + 1])
    BY <2>1 DEF InOrder
  <2> QED
    BY <1>1, <2>2
<1>4. r = <<>> <=> Len(q) = 1
  BY <1>1
<1> QED
  BY <1>1, <1>2, <1>3, <1>4 DEF LeftOf, r

(* A batch of the pull, or of the bodies, is over.                         *)
LEMMA BatchOver ==
    ASSUME Shape, QueueInv, Remember
    PROVE  /\ job' = NoJob /\ Ends(FALSE) /\ IsJob(job) /\ job # NoJob
           /\ ByPull => pull'.queue = Tail(pull.queue) /\ (pull'.failed <=> pull.failed)
           /\ ~ByPull => pull' = pull /\ (moved' \/ cursor' = cursor)
<1>1. IsJob(job) /\ job # NoJob /\ EndBatch(FALSE)
  BY AtWorkIs, ZenonT(60) DEF Remember
<1>2. Ends(FALSE)
  BY <1>1, EndBatchEnds, ZenonT(60) DEF Shape, StageInv
<1>3. job.by \in {"pull", "fill"}
  BY <1>1, JobFields
<1> QED
  BY <1>1, <1>2, <1>3 DEF Ends, ByPull, Remember

LEMMA QueueStep ==
    ASSUME Shape, QueueInv, Next
    PROVE  QueueInv'
<1>1. Undisturbed' => Undisturbed
  BY Disturbances
<1>2. /\ TypeInv /\ (pull.pc # "pulling" => pull.queue = <<>> /\ ~pull.failed)
      /\ pull.queue \in Seq(Batches) /\ Len(pull.queue) \in Nat
      /\ (job # NoJob => job.by \in {"pull", "fill"})
  BY Queues, WhoseBatch DEF Shape, StageInv
<1>3. CASE pull'.queue = <<>>
  BY <1>3 DEF QueueInv, InOrder
<1>4. CASE UNCHANGED pull
  BY <1>1, <1>4 DEF QueueInv
<1>5. CASE Fetch
  <2>1. Reads(pull'.queue) /\ (pull'.sweep <=> pull.sweep) /\ (pull'.failed <=> pull.failed) /\ ~pull.failed
    BY <1>2, <1>5, FetchMoves, ZenonT(60) DEF Fetch
  <2> QED
    BY <2>1 DEF QueueInv, Reads
<1>6. ASSUME NEW failed, Ends(failed), job # NoJob, failed => ~Undisturbed' PROVE QueueInv'
  <2>1. CASE ByPull
    <3>1. pull.queue # <<>>
      BY <1>6, <2>1, WhoseBatch
    <3>2. pull'.queue = Tail(pull.queue) /\ pull'.sweep = pull.sweep /\ (pull'.failed <=> pull.failed \/ failed)
      BY <1>6, <2>1 DEF Ends, ByPull, SamePull
    <3>3. InOrder(pull.queue)
      BY DEF QueueInv
    <3>4. PICK r : r = Tail(pull.queue)
      OBVIOUS
    <3>5. Len(r) \in Nat /\ InOrder(r) /\ \A k \in 1..Len(r) : k + 1 \in 1..Len(pull.queue) /\ r[k] = pull.queue[k + 1]
      <4>1. LeftOf(pull.queue, r)
        BY <1>2, <3>1, <3>3, <3>4, Rest, Zenon
      <4> QED
        BY <4>1 DEF LeftOf
    <3>6. \A k \in 1..Len(r) : r[k].sweeps => pull.sweep
      BY <3>5, SMTT(60) DEF QueueInv
    <3>7. ~(Undisturbed' /\ pull'.failed)
      BY <1>1, <1>6, <3>1, <3>2 DEF QueueInv
    <3> QED
      BY <3>2, <3>4, <3>5, <3>6, <3>7 DEF QueueInv
  <2>2. CASE ~ByPull
    BY <1>4, <1>6, <2>2 DEF Ends, ByPull
  <2> QED
    BY <2>1, <2>2
<1>7. CASE Plan \/ Rewind \/ Prepare \/ Lose \/ Pulled \/ FillRecent \/ Crash
  <2>1. CASE Plan \/ Lose
    BY <1>2, <1>3, <2>1, PullMoves
  <2>2. CASE Rewind \/ Prepare
    BY <1>2, <1>3, <2>2, PullMoves DEF SameBut, Rewind, Prepare
  <2>3. CASE Pulled
    BY <1>2, <1>3, <2>3, PullMoves, NothingIs DEF SameBut, Pulled
  <2>4. CASE FillRecent \/ Crash
    BY <1>3, <2>4, NothingIs DEF FillRecent, Crash
  <2> QED
    BY <1>7, <2>1, <2>2, <2>3, <2>4
<1>8. CASE Remember
  BY <1>6, <1>8, BatchOver, ZenonT(60)
<1>9. CASE GivesUp
  BY <1>6, <1>9 DEF GivesUp
<1>10. CASE \E step : Settles(step)
  BY <1>4, <1>10 DEF Settles, Commits
<1>11. CASE ClearRows \/ ClearCursor \/ Insert
  BY <1>2, <1>4, <1>11, CommitsAre, SMTT(60) DEF ClearRows, ClearCursor, Insert, Done
<1>12. CASE UNCHANGED pull \/ Rests \/ Message \/ Retain \/ \E by \in {"pull", "fill"} : Absorb(by)
  BY <1>4, <1>12, ZenonT(60) DEF Rests, Message, Retain, Absorb
<1>13. CASE (\E m \in Mails : Arrive(m)) \/ Renumber \/ (\E s \in Scopes : SetKeptAddresses(s))
  BY <1>4, <1>13 DEF Arrive, Renumber, SetKeptAddresses
<1> QED
  BY <1>5, <1>7, <1>8, <1>9, <1>10, <1>11, <1>12, <1>13, StepKinds

-----------------------------------------------------------------------------
(* Where the batch of the pull is, and where the cursor is.                *)

SamePlace == (ByPull' <=> ByPull) /\ At1' = At1 /\ pull'.queue = pull.queue
SameWait(x) == (ByPull' => x \in Range(job'.todo)) <=> (ByPull => x \in Range(job.todo))

LEMMA CommitPlace ==
    ASSUME NEW step, Commits(step)
    PROVE  /\ SamePlace
           /\ \A x : x # step => SameWait(x) /\ (x \in Range(job'.todo) <=> x \in Range(job.todo))
<1>1. /\ job # NoJob /\ job' # NoJob /\ job'.by = job.by /\ job'.i = job.i /\ pull' = pull
      /\ job.todo \in Seq(Steps) /\ job.todo # <<>> /\ Head(job.todo) = step /\ job'.todo = Tail(job.todo)
  BY JobIsSome DEF Commits, Popped, SameBatch
<1>2. \A x : x \in Range(job.todo) <=> x = step \/ x \in Range(job'.todo)
  BY <1>1, RangeOfTail
<1>3. ByPull' <=> ByPull
  BY <1>1 DEF ByPull
<1>4. At1' = At1
  BY <1>1, <1>3 DEF At1
<1> QED
  BY <1>1, <1>2, <1>3, <1>4 DEF SamePlace, SameWait

(* The place of the batch, whatever the step that goes on with it.         *)
LEMMA BatchPlace ==
    ASSUME Shape
    PROVE  /\ ClearRows => SamePlace /\ SameWait("rewind") /\ ~Inserting /\ ~Inserting'
           /\ ClearCursor => SamePlace /\ ~Inserting /\ ~Inserting'
           /\ Retain => SamePlace /\ SameWait("rewind") /\ SameWait("clear") /\ ~Inserting /\ ~Inserting'
           /\ Insert => SamePlace /\ SameWait("rewind") /\ SameWait("clear")
           /\ Message => /\ pull' = pull /\ (ByPull' <=> ByPull) /\ SameWait("rewind") /\ SameWait("clear")
                         /\ ~Inserting
           /\ \A step : Settles(step) => /\ SamePlace /\ SameWait("rewind") /\ SameWait("clear")
                                         /\ Inserting' <=> Inserting
<1>1. TypeInv /\ OfThePull
  BY DEF Shape, StageInv
<1>2. "insert" \notin Early /\ {"clear", "rewind"} \cap Late = {}
  BY DEF Early, Late
<1>3. job # NoJob /\ Range(job.todo) \cap {"clear", "rewind", "retain"} # {} => "insert" \notin Range(job.todo)
  <2>1. {"clear", "rewind", "retain"} \cap Late = {}
    BY DEF Late
  <2> QED
    BY <1>2, <2>1, WhoseBatch DEF Ordered
<1>4. ASSUME NEW step, Commits(step) PROVE job # NoJob /\ step \in Range(job.todo)
  BY <1>4, JobIsSome, RangeOfTail, SMTT(60) DEF Commits, Popped
<1>5. ASSUME ClearRows PROVE SamePlace /\ SameWait("rewind") /\ ~Inserting /\ ~Inserting'
  <2>1. Commits("clear")
    BY <1>1, <1>5, CommitsAre
  <2>2. SamePlace /\ SameWait("rewind") /\ ("insert" \in Range(job'.todo) <=> "insert" \in Range(job.todo))
    BY <2>1, CommitPlace
  <2> QED
    BY <1>3, <1>4, <2>1, <2>2 DEF Inserting
<1>6. ASSUME ClearCursor PROVE SamePlace /\ ~Inserting /\ ~Inserting'
  <2>1. Commits("rewind")
    BY <1>1, <1>6, CommitsAre
  <2>2. SamePlace /\ ("insert" \in Range(job'.todo) <=> "insert" \in Range(job.todo))
    BY <2>1, CommitPlace
  <2> QED
    BY <1>3, <1>4, <2>1, <2>2 DEF Inserting
<1>7. ASSUME Retain
      PROVE  SamePlace /\ SameWait("rewind") /\ SameWait("clear") /\ ~Inserting /\ ~Inserting'
  <2>1. Forgets(job, job') /\ pull' = pull
    BY <1>1, <1>7, RetainIs
  <2>2. /\ job # NoJob /\ job' # NoJob /\ job'.by = job.by /\ job'.i = job.i
        /\ "retain" \in Range(job.todo) /\ "insert" \notin Range(job'.todo)
    BY <2>1, JobIsSome, RangeOfTail DEF Forgets, SameBatch
  <2>3. ByPull' <=> ByPull
    BY <2>2 DEF ByPull
  <2>4. /\ "clear" \notin Range(job.todo) /\ "clear" \notin Range(job'.todo)
        /\ "rewind" \notin Range(job.todo) /\ "rewind" \notin Range(job'.todo)
    BY <1>7, FirstSteps
  <2>5. At1' = At1
    BY <2>2, <2>3 DEF At1
  <2> QED
    BY <1>3, <2>1, <2>2, <2>3, <2>4, <2>5 DEF SamePlace, SameWait, Inserting
<1>8. ASSUME Insert PROVE SamePlace /\ SameWait("rewind") /\ SameWait("clear")
  <2>1. Commits("insert")
    BY <1>1, <1>8, CommitsAre
  <2> QED
    BY <2>1, CommitPlace
<1>9. ASSUME Message
      PROVE  /\ pull' = pull /\ (ByPull' <=> ByPull) /\ SameWait("rewind") /\ SameWait("clear") /\ ~Inserting
  <2>1. TakesUp(job, job', rows) /\ pull' = pull
    BY <1>1, <1>9, MessageTakesUp, ZenonT(60) DEF Message
  <2>2. /\ job # NoJob /\ job' # NoJob /\ job'.by = job.by
        /\ Range(job.todo) = {} /\ Range(job'.todo) \subseteq Late
    BY <2>1, JobIsSome, SMTT(60) DEF TakesUp, SameBatch, Range
  <2>3. ByPull' <=> ByPull
    BY <2>2 DEF ByPull
  <2> QED
    BY <1>2, <2>1, <2>2, <2>3 DEF SameWait, Inserting
<1>10. ASSUME NEW step, Settles(step)
       PROVE  SamePlace /\ SameWait("rewind") /\ SameWait("clear") /\ (Inserting' <=> Inserting)
  <2>1. Commits(step) /\ step \notin {"clear", "rewind", "insert"}
    BY <1>10 DEF Settles
  <2>2. /\ SamePlace /\ SameWait("rewind") /\ SameWait("clear")
        /\ "insert" \in Range(job'.todo) <=> "insert" \in Range(job.todo)
    BY <2>1, CommitPlace
  <2> QED
    BY <2>2 DEF SamePlace, Inserting
<1> QED
  BY <1>5, <1>6, <1>7, <1>8, <1>9, <1>10

LEMMA AbsorbPlace ==
    ASSUME Shape, \E by \in {"pull", "fill"} : Absorb(by)
    PROVE  /\ pull' = pull /\ job = NoJob /\ ~ByPull /\ ~Inserting /\ ~Inserting' /\ At1 = 0 /\ At1' = 0
           /\ pull.queue # <<>> => (Resetting' <=> Resetting) /\ (Clearing' <=> Clearing)
<1>1. PICK by \in {"pull", "fill"} : Absorb(by)
  OBVIOUS
<1> DEFINE q == IF by = "pull" THEN pull.queue ELSE fill.queue
<1>2. /\ q # <<>> /\ Head(q) = q[1]
      /\ job = NoJob /\ IsJob(job') /\ job'.by = by /\ job'.i = 0
      /\ "clear" \in Range(job'.todo) <=> Head(q).resync
      /\ "rewind" \in Range(job'.todo) <=> Head(q).resync
      /\ Range(job'.todo) \subseteq Early
  BY <1>1, AbsorbBegins DEF Shape
<1>3. pull' = pull
  BY <1>1 DEF Absorb
<1>4. ~ByPull /\ At1 = 0 /\ ~Inserting
  BY <1>2 DEF ByPull, At1, Inserting
<1>5. job' # NoJob /\ (ByPull' <=> by = "pull")
  BY <1>2, JobIsSome DEF ByPull
<1>6. At1' = 0
  BY <1>2 DEF At1
<1>7. ~Inserting'
  BY <1>2 DEF Inserting, Early
<1>8. by = "pull" => q = pull.queue
  OBVIOUS
<1> HIDE DEF q
<1>9. Resetting' <=> Resetting
  BY <1>2, <1>3, <1>4, <1>5, <1>8 DEF Resetting
<1>10. Clearing' <=> Clearing
  BY <1>2, <1>3, <1>4, <1>5, <1>8 DEF Clearing
<1> QED
  BY <1>2, <1>3, <1>4, <1>6, <1>7, <1>9, <1>10

(* The batch at hand is the first of the pull: what it did to the cursor.  *)
LEMMA PullRemembers ==
    ASSUME Shape, QueueInv, Remember, ByPull
    PROVE  /\ LeftOf(pull.queue, pull'.queue) /\ UNCHANGED <<server, choice, rows, applied>> /\ job' = NoJob
           /\ pull.queue # <<>> /\ pull.pc = "pulling" /\ SamePull(pull, pull') /\ (pull'.failed <=> pull.failed)
           /\ cursor' \in Cursors /\ cursor'.epoch = pull.queue[1].epoch
           /\ \A u \in Nat : u <= cursor'.last <=> u <= cursor.last \/ Passes(pull.queue[1], u)
           /\ ~Inserting /\ ~Resetting /\ ~Clearing /\ At1 = Len(pull.queue[1].messages)
<1>1. /\ pull.pc = "pulling" /\ pull.queue # <<>> /\ pull.queue \in Seq(Batches) /\ job.batch = pull.queue[1]
      /\ job # NoJob
  BY WhoseBatch DEF ByPull
<1>2. Ends(FALSE) /\ pull'.queue = Tail(pull.queue) /\ (pull'.failed <=> pull.failed)
  BY BatchOver, ZenonT(60)
<1>3. LeftOf(pull.queue, pull'.queue)
  <2>1. LeftOf(pull.queue, Tail(pull.queue))
    BY <1>1, Rest, Zenon DEF QueueInv
  <2> QED
    BY <1>2, <2>1
<1>4. Range(job.todo) = {} /\ job.i = Len(job.batch.messages)
      /\ UNCHANGED <<server, choice, rows, applied>>
  BY SMTT(60) DEF Remember, Range, Working
<1>5. ~Inserting /\ ~Resetting /\ ~Clearing /\ At1 = Len(pull.queue[1].messages)
  BY <1>1, <1>4 DEF Inserting, Resetting, Clearing, At1
<1>6. /\ cursor' \in Cursors /\ cursor'.epoch = pull.queue[1].epoch
      /\ \A u \in Nat : u <= cursor'.last <=> u <= cursor.last \/ Passes(pull.queue[1], u)
  <2>1. TypeInv
    BY DEF Shape
  <2> QED
    BY <1>1, <2>1, RememberIs
<1> QED
  BY <1>1, <1>2, <1>3, <1>4, <1>5, <1>6 DEF Ends

(* What the invariant says of the numbers.                                 *)
LEMMA Counts ==
    ASSUME Shape, TrueInv
    PROVE  /\ epoch \in Nat /\ box \in Seq(Mails) /\ Len(box) \in Nat /\ Uids = 1..Len(box)
           /\ cursor \in Cursors /\ cursor.epoch \in Nat /\ cursor.last \in Nat /\ cursor.epoch <= epoch
           /\ applied \in Nat /\ gen \in Nat /\ pull.gen \in Nat
           /\ \A k \in 1..Len(pull.queue) :
                 /\ pull.queue[k].epoch \in Nat /\ pull.queue[k].examined \in Nat
                 /\ pull.queue[k].epoch <= epoch
                 /\ pull.queue[k].epoch = epoch =>
                       /\ pull.queue[k].examined <= Len(box)
                       /\ \A i \in 1..Len(pull.queue[k].messages) : pull.queue[k].messages[i].uid \in Uids
<1>1. TypeInv
  BY DEF Shape
<1>2. \A k \in 1..Len(pull.queue) : pull.queue[k] \in Batches /\ TrueBatch(pull.queue[k])
  BY Queues DEF TrueInv
<1>3. ASSUME NEW k \in 1..Len(pull.queue)
      PROVE  /\ pull.queue[k].epoch \in Nat /\ pull.queue[k].examined \in Nat
             /\ pull.queue[k].epoch <= epoch
             /\ pull.queue[k].epoch = epoch =>
                   /\ pull.queue[k].examined <= Len(box)
                   /\ \A i \in 1..Len(pull.queue[k].messages) : pull.queue[k].messages[i].uid \in Uids
  BY <1>2, SMTT(60) DEF Batches, TrueBatch, TrueMessages
<1>4. epoch \in Nat /\ box \in Seq(Mails) /\ Len(box) \in Nat /\ Uids = 1..Len(box)
      /\ cursor \in Cursors /\ cursor.epoch \in Nat /\ cursor.last \in Nat
      /\ applied \in Nat /\ gen \in Nat /\ pull.gen \in Nat
  BY <1>1 DEF TypeInv, Uids, Cursors, Pulls
<1>5. cursor.epoch <= epoch
  BY DEF TrueInv
<1> QED
  BY <1>3, <1>4, <1>5

(* Whatever a true batch passes is in the folder.                          *)
LEMMA PassedIsThere ==
    ASSUME Shape, TrueInv, NEW k \in 1..Len(pull.queue), pull.queue[k].epoch = epoch,
           NEW u \in Nat, Passes(pull.queue[k], u)
    PROVE  u <= Len(box)
<1>1. /\ Len(box) \in Nat /\ Uids = 1..Len(box) /\ pull.queue[k].examined \in Nat
      /\ pull.queue[k].examined <= Len(box)
      /\ \A i \in 1..Len(pull.queue[k].messages) : pull.queue[k].messages[i].uid \in Uids
  BY Counts
<1>2. CASE u <= pull.queue[k].examined
  BY <1>1, <1>2
<1>3. CASE \E i \in 1..Len(pull.queue[k].messages) : u <= pull.queue[k].messages[i].uid
  <2>1. PICK i \in 1..Len(pull.queue[k].messages) : u <= pull.queue[k].messages[i].uid
    BY <1>3
  <2>2. pull.queue[k].messages[i].uid \in 1..Len(box)
    BY <1>1
  <2> QED
    BY <1>1, <2>1, <2>2, SMTT(60)
<1> QED
  BY <1>2, <1>3 DEF Passes

LEMMA CursorHolds ==
    ASSUME Shape, TrueInv, CursorInv, Next, UNCHANGED <<epoch, cursor>>, Len(box') >= Len(box),
           Len(box') \in Nat,
           pull'.queue = <<>> \/ (pull'.queue = pull.queue /\ (Resetting' <=> Resetting))
    PROVE  CursorInv'
<1>1. Undisturbed' => Undisturbed
  BY Disturbances
<1>2. (Undisturbed /\ cursor.epoch = epoch => cursor.last <= Len(box))'
  BY <1>1, Counts, SMTT(60) DEF CursorInv
<1>3. CASE pull'.queue = <<>>
  BY <1>2, <1>3 DEF CursorInv, Runs
<1>4. CASE pull'.queue = pull.queue /\ (Resetting' <=> Resetting)
  BY <1>1, <1>2, <1>4 DEF CursorInv, Runs
<1> QED
  BY <1>3, <1>4

LEMMA SameResets ==
    ASSUME pull'.queue = pull.queue
    PROVE  /\ SameWait("rewind") => (Resetting' <=> Resetting)
           /\ SameWait("clear") => (Clearing' <=> Clearing)
BY DEF SameWait, Resetting, Clearing

LEMMA CursorRemembers ==
    ASSUME Shape, TrueInv, QueueInv, CursorInv, Next, Remember
    PROVE  CursorInv'
<1>1. Undisturbed' => Undisturbed
  BY Disturbances
<1>2. UNCHANGED server /\ epoch' = epoch /\ box' = box
  BY DEF Remember, Working, server
<1>3. CASE ByPull
  <2>1. /\ LeftOf(pull.queue, pull'.queue) /\ pull.queue # <<>> /\ job' = NoJob
        /\ cursor' \in Cursors /\ cursor'.epoch = pull.queue[1].epoch
        /\ \A u \in Nat : u <= cursor'.last <=> u <= cursor.last \/ Passes(pull.queue[1], u)
        /\ ~Resetting
    BY <1>3, PullRemembers
  <2>2. /\ Len(box) \in Nat /\ cursor.last \in Nat /\ cursor'.last \in Nat /\ 1 \in 1..Len(pull.queue)
    BY <2>1, Counts, Queues DEF Cursors
  <2>3. ASSUME Undisturbed', cursor'.epoch = epoch PROVE cursor'.last <= Len(box)
    <3>1. cursor.last <= Len(box)
      <4>1. cursor.epoch = epoch \/ cursor.last = 0
        BY <1>1, <2>1, <2>3 DEF CursorInv, Runs
      <4> QED
        BY <1>1, <2>2, <2>3, <4>1 DEF CursorInv
    <3>2. cursor'.last <= cursor.last \/ Passes(pull.queue[1], cursor'.last)
      BY <2>1, <2>2
    <3>3. Passes(pull.queue[1], cursor'.last) => cursor'.last <= Len(box)
      BY <2>1, <2>2, <2>3, PassedIsThere
    <3> QED
      BY <2>2, <3>1, <3>2, <3>3
  <2>4. pull'.queue # <<>> => ~pull'.queue[1].resync /\ pull'.queue[1].epoch = pull.queue[1].epoch
    BY <2>1 DEF LeftOf, Before
  <2> QED
    BY <1>2, <2>1, <2>3, <2>4 DEF CursorInv, Runs, Resetting
<1>4. CASE ~ByPull
  <2>1. pull' = pull /\ job' = NoJob /\ (moved' \/ cursor' = cursor)
    BY <1>4, BatchOver
  <2>2. ~ByPull'
    BY <2>1 DEF ByPull
  <2>3. Resetting' <=> Resetting
    BY <1>4, <2>1, <2>2 DEF Resetting
  <2>4. CASE cursor' = cursor
    BY <1>2, <2>1, <2>3, <2>4, CursorHolds, Counts
  <2>5. CASE moved'
    BY <2>5 DEF CursorInv, Runs, Undisturbed
  <2> QED
    BY <2>1, <2>4, <2>5
<1> QED
  BY <1>3, <1>4

LEMMA CursorStep ==
    ASSUME Shape, TrueInv, ChoiceInv, QueueInv, CursorInv, Next
    PROVE  CursorInv'
<1>1. Undisturbed' => Undisturbed
  BY Disturbances
<1>2. /\ TypeInv /\ (pull.pc # "pulling" => pull.queue = <<>>)
      /\ epoch \in Nat /\ Len(box) \in Nat /\ cursor.epoch \in Nat /\ cursor.last \in Nat /\ cursor.epoch <= epoch
      /\ \A k \in 1..Len(pull.queue) : pull.queue[k].epoch <= epoch /\ pull.queue[k].epoch \in Nat
      /\ pull.queue # <<>> => 1 \in 1..Len(pull.queue)
  BY Counts, Queues, ZenonT(60) DEF Shape, StageInv
<1>3. CASE \E m \in Mails : Arrive(m)
  <2>1. PICK m \in Mails : Arrive(m)
    BY <1>3
  <2>2. UNCHANGED <<epoch, cursor, pull, job>> /\ box' = Append(box, m) /\ box \in Seq(Mails)
    BY <2>1, Counts DEF Arrive, mirror
  <2>3. Len(box') = Len(box) + 1
    BY <2>2
  <2>4. Resetting' <=> Resetting
    BY <2>2 DEF Resetting, ByPull
  <2> QED
    BY <1>2, <2>2, <2>3, <2>4, CursorHolds
<1>4. CASE Renumber
  <2>1. epoch' = epoch + 1 /\ UNCHANGED <<cursor, pull, job>>
    BY <1>4 DEF Renumber, mirror
  <2>2. Resetting' <=> Resetting
    BY <2>1 DEF Resetting, ByPull
  <2>3. cursor'.epoch # epoch' /\ (pull'.queue # <<>> => pull'.queue[1].epoch # epoch')
    BY <1>2, <2>1
  <2>4. (Runs /\ Resetting => cursor.epoch < pull.queue[1].epoch)'
    BY <1>1, <2>1, <2>2 DEF CursorInv, Runs
  <2>5. Runs' => pull'.queue # <<>>
    BY DEF Runs
  <2> QED
    BY <2>3, <2>4, <2>5 DEF CursorInv
<1>5. CASE \E s \in Scopes : SetKeptAddresses(s)
  <2>1. UNCHANGED <<server, cursor, pull, job>>
    BY <1>5 DEF SetKeptAddresses, mirror
  <2>2. Resetting' <=> Resetting
    BY <2>1 DEF Resetting, ByPull
  <2> QED
    BY <1>2, <2>1, <2>2, CursorHolds DEF server
<1>6. CASE Rests
  <2>1. UNCHANGED <<server, cursor, pull, job>>
    BY <1>6 DEF Rests
  <2>2. Resetting' <=> Resetting
    BY <2>1 DEF Resetting, ByPull
  <2> QED
    BY <1>2, <2>1, <2>2, CursorHolds DEF server
<1>7. CASE Rewind
  <2>1. pull'.queue = <<>> /\ cursor'.last = 0 /\ UNCHANGED server
    BY <1>2, <1>7, PullMoves DEF Rewind, SameBut
  <2>2. Len(box') \in Nat
    BY <1>2, <2>1 DEF server
  <2> QED
    BY <2>1, <2>2 DEF CursorInv, Runs
<1>8. CASE Fetch
  <2>1. pull.pc = "prepared" /\ UNCHANGED <<server, cursor, job, moved>>
    BY <1>8, SMTT(60) DEF Fetch, mirror, history
  <2>2. Reads(pull'.queue)
    BY <1>2, <1>8, FetchMoves
  <2>3. pull'.queue # <<>> /\ (pull'.queue[1].resync <=> Resyncs) /\ pull'.queue[1].epoch = epoch
    <3>1. Len(pull'.queue) \in Nat \ {0}
      BY <2>2 DEF Reads
    <3> QED
      BY <2>2, <3>1 DEF Reads
  <2>4. ~ByPull'
    BY <2>1, WhoseBatch DEF ByPull
  <2>5. Undisturbed' => pull.cursor = cursor
    BY <1>1, <2>1 DEF Undisturbed, ChoiceInv
  <2>6. Resetting' <=> Resyncs
    BY <2>3, <2>4 DEF Resetting
  <2>7. Undisturbed' /\ Resyncs => cursor.epoch < epoch
    BY <1>2, <2>5 DEF Resyncs
  <2>8. Undisturbed' /\ ~Resyncs => cursor.epoch = epoch \/ cursor.last = 0
    BY <2>5 DEF Resyncs, NoCursor
  <2>9. (Undisturbed /\ cursor.epoch = epoch => cursor.last <= Len(box))'
    BY <1>1, <2>1 DEF CursorInv, server
  <2> QED
    BY <2>1, <2>3, <2>6, <2>7, <2>8, <2>9 DEF CursorInv, Runs, server
<1>9. CASE Plan \/ Prepare \/ Lose \/ Pulled \/ FillRecent \/ Crash
  <2>1. UNCHANGED <<server, cursor>>
    BY <1>9 DEF Plan, Prepare, Lose, Pulled, FillRecent, Crash, mirror
  <2>2. pull'.queue = <<>>
    <3>1. CASE Plan \/ Lose
      BY <1>2, <3>1, PullMoves
    <3>2. CASE Prepare
      BY <1>2, <3>2, PullMoves DEF SameBut, Prepare
    <3>3. CASE Pulled
      BY <1>2, <3>3, PullMoves, NothingIs DEF SameBut, Pulled
    <3>4. CASE FillRecent \/ Crash
      BY <3>4, NothingIs DEF FillRecent, Crash
    <3> QED
      BY <1>9, <3>1, <3>2, <3>3, <3>4
  <2> QED
    BY <1>2, <2>1, <2>2, CursorHolds DEF server
<1>10. CASE \E by \in {"pull", "fill"} : Absorb(by)
  <2>1. UNCHANGED <<server, cursor>>
    BY <1>10 DEF Absorb, mirror
  <2>2. pull'.queue = pull.queue /\ (pull.queue # <<>> => (Resetting' <=> Resetting))
    BY <1>10, AbsorbPlace
  <2> QED
    BY <1>2, <2>1, <2>2, CursorHolds DEF server
<1>11. CASE ClearCursor
  <2>1. cursor' = NoCursor /\ UNCHANGED server /\ ByPull /\ "rewind" \notin Range(job'.todo) /\ job' # NoJob
    BY <1>11, FirstSteps DEF ClearCursor, Doing, Working
  <2>2. ByPull'
    BY <1>11, <2>1, BatchPlace DEF SamePlace
  <2>3. ~Resetting'
    BY <2>1, <2>2 DEF Resetting
  <2>4. cursor'.last = 0 /\ box' = box
    BY <2>1 DEF NoCursor, server
  <2> QED
    BY <1>2, <2>3, <2>4 DEF CursorInv
<1>12. CASE ClearRows \/ Retain \/ Message \/ Insert \/ \E step : Settles(step)
  <2>1. UNCHANGED <<server, cursor>>
    BY <1>12, ZenonT(60) DEF ClearRows, Retain, Message, Insert, Settles, Doing, Working, mirror
  <2>2. pull'.queue = pull.queue /\ SameWait("rewind")
    BY <1>12, BatchPlace DEF SamePlace
  <2> QED
    BY <1>2, <2>1, <2>2, SameResets, CursorHolds DEF server
<1>13. CASE Remember
  BY <1>13, CursorRemembers
<1>14. CASE GivesUp
  BY <1>14 DEF GivesUp, CursorInv, Runs
<1> QED
  BY <1>3, <1>4, <1>5, <1>6, <1>7, <1>8, <1>9, <1>10, <1>11, <1>12, <1>13, <1>14, StepKinds

-----------------------------------------------------------------------------
(* The letters the pull passes are in the mirror or on their way to it.    *)

Covers == Runs /\ pull.queue[1].epoch = epoch /\ pull.gen = gen
Passed(u) == Asked(u) /\ Known(u)

LEMMA CoverFrom ==
    ASSUME CoverInv, Covers' => Covers,
           \A u \in Nat : Covers' /\ Passed(u)' /\ (Passed(u) => Followed(u)) => Followed(u)'
    PROVE  CoverInv'
BY DEF CoverInv, Covers, Passed

LEMMA KnownSame ==
    ASSUME UNCHANGED <<server, kept, cursor>>, pull'.queue = pull.queue
    PROVE  \A u : (Known(u)' <=> Known(u)) /\ (Asked(u)' <=> Asked(u))
BY DEF server, Known, PassedBy, Passes, Asked, Admits, Uids

LEMMA ComingSame ==
    ASSUME SamePlace, Inserting' <=> Inserting
    PROVE  \A u : Coming(u)' <=> Coming(u)
BY DEF SamePlace, Coming, Due, Shows

LEMMA FollowedSame ==
    ASSUME UNCHANGED epoch, pull'.queue = pull.queue, NEW u, Followed(u),
           Covered(u)' \/ Coming(u)', Clearing' => Coming(u)'
    PROVE  Followed(u)'
BY DEF Followed

(* A step that leaves the batches where they are and loses no row.         *)
LEMMA CoverStays ==
    ASSUME CoverInv, Next, UNCHANGED <<server, choice, cursor>>, UNCHANGED pull, SamePlace,
           Inserting' <=> Inserting, Clearing' <=> Clearing,
           \A u : Covered(u) => Covered(u)'
    PROVE  CoverInv'
<1>1. Covers' => Covers
  BY Disturbances DEF Covers, Runs, server, choice
<1>2. UNCHANGED <<server, kept, cursor>> /\ pull'.queue = pull.queue /\ epoch' = epoch
  BY DEF choice, server
<1>3. \A u : Passed(u)' <=> Passed(u)
  BY <1>2, KnownSame DEF Passed
<1>4. \A u : Coming(u)' <=> Coming(u)
  BY ComingSame
<1>5. ASSUME NEW u \in Nat, Followed(u) PROVE Followed(u)'
  <2>1. Covered(u)' \/ Coming(u)'
    BY <1>4, <1>5 DEF Followed
  <2>2. Clearing' => Coming(u)'
    BY <1>4, <1>5 DEF Followed
  <2> QED
    BY <1>2, <1>5, <2>1, <2>2, FollowedSame
<1> QED
  BY <1>1, <1>3, <1>5, CoverFrom

LEMMA CoverArrives ==
    ASSUME Shape, TrueInv, QueueInv, CursorInv, CoverInv, Next, NEW m \in Mails, Arrive(m)
    PROVE  CoverInv'
<1>1. UNCHANGED <<epoch, choice, cursor, rows, pull, job, exists, moved>> /\ box' = Append(box, m)
  BY DEF Arrive, mirror, book, history
<1>2. /\ box \in Seq(Mails) /\ Len(box) \in Nat /\ Uids = 1..Len(box)
      /\ cursor.epoch \in Nat /\ cursor.last \in Nat /\ epoch \in Nat
  BY Counts
<1>3. Len(box') = Len(box) + 1 /\ \A u \in 1..Len(box) : box'[u] = box[u]
  BY <1>1, <1>2
<1>4. Covers' <=> Covers
  BY <1>1 DEF Covers, Runs, Undisturbed, choice
<1>5. \A u : Known(u)' <=> Known(u)
  BY <1>1 DEF Known
<1>6. ASSUME NEW u \in Nat, Covers, Known(u) PROVE u <= Len(box)
  <2>1. CASE PassedBy(cursor, epoch, u)
    <3>1. cursor.last <= Len(box)
      BY <1>6, <2>1 DEF CursorInv, PassedBy, Covers, Runs
    <3> QED
      BY <1>2, <2>1, <3>1 DEF PassedBy
  <2>2. CASE \E k \in 1..Len(pull.queue) : Passes(pull.queue[k], u)
    <3>1. PICK k \in 1..Len(pull.queue) : Passes(pull.queue[k], u)
      BY <2>2
    <3>2. pull.queue[k].epoch = epoch
      <4>1. 1 \in 1..Len(pull.queue) /\ pull.queue[1].epoch = epoch /\ Len(pull.queue) \in Nat
        BY <1>6, Queues DEF Covers, Runs
      <4>2. k = 1 \/ Before(pull.queue[1], pull.queue[k])
        BY <4>1 DEF QueueInv, InOrder
      <4> QED
        BY <4>1, <4>2 DEF Before
    <3> QED
      BY <3>1, <3>2, PassedIsThere
  <2> QED
    BY <1>6, <2>1, <2>2 DEF Known
<1>7. ASSUME NEW u \in Nat, Covers', Passed(u)' PROVE Passed(u)
  <2>1. Known(u) /\ u \in Uids' /\ Admits(kept, box'[u])
    BY <1>1, <1>5, <1>7 DEF Passed, Asked, choice
  <2>2. u <= Len(box)
    BY <1>4, <1>6, <1>7, <2>1
  <2>3. u \in 1..Len(box)
    <3>1. Uids' = 1..Len(box')
      BY <1>1, <1>2 DEF Uids
    <3> QED
      BY <1>2, <1>3, <2>1, <2>2, <3>1
  <2> QED
    BY <1>2, <1>3, <2>1, <2>3 DEF Passed, Asked
<1>8. ASSUME NEW u, Followed(u) PROVE Followed(u)'
  <2>1. SamePlace /\ (Inserting' <=> Inserting) /\ (Clearing' <=> Clearing)
    BY <1>1 DEF SamePlace, ByPull, At1, Inserting, Clearing
  <2>2. Covered(u)' <=> Covered(u)
    BY <1>1 DEF Covered
  <2>3. Coming(u)' <=> Coming(u)
    BY <2>1, ComingSame
  <2> QED
    BY <1>1, <1>8, <2>1, <2>2, <2>3, FollowedSame DEF Followed
<1> QED
  BY <1>4, <1>7, <1>8, CoverFrom

LEMMA CoverFetches ==
    ASSUME Shape, TrueInv, ChoiceInv, CursorInv, SkipInv, Next, Fetch
    PROVE  CoverInv'
<1>1. /\ pull.pc = "prepared" /\ UNCHANGED <<server, choice, rows, cursor, job, moved, exists>>
  BY DEF Fetch, mirror, history, book
<1>2. /\ Reads(pull'.queue) /\ pull'.kept = pull.kept /\ pull'.gen = pull.gen
  BY FetchMoves DEF Shape
<1>3. /\ Uids = 1..Len(box) /\ cursor.last \in Nat /\ cursor.epoch \in Nat /\ epoch \in Nat
      /\ Len(box) \in Nat /\ applied \in Nat /\ gen \in Nat
  BY Counts
<1>4. PICK q : q = pull'.queue
  OBVIOUS
<1>5. /\ q \in Seq(Batches) /\ q # <<>> /\ Len(q) \in Nat \ {0}
      /\ q[1].resync <=> Resyncs
      /\ \A k \in 1..Len(q) : q[k].epoch = epoch /\ (q[k].sweeps => pull.sweep)
      /\ \A u \in Uids : u >= Start /\ Admits(pull.kept, box[u]) =>
            /\ \E k \in 1..Len(q) : Shows(q[k], u)
            /\ \A k \in 1..Len(q) : q[k].sweeps => u \in q[k].keep
  BY <1>2, <1>4 DEF Reads
<1>6. ~ByPull' /\ At1' = 0
  <2>1. ~ByPull'
    BY <1>1, WhoseBatch DEF ByPull
  <2> QED
    BY <2>1 DEF At1
<1>7. ASSUME NEW u \in Nat, Covers', Asked(u)', Known(u)'
      PROVE  Followed(u)'
  <2>1. Asked(u) /\ Undisturbed /\ pull.gen = gen /\ pull.cursor = cursor /\ pull.kept = kept
    BY <1>1, <1>2, <1>7 DEF Covers, Runs, Undisturbed, Asked, Admits, Uids, server, choice, ChoiceInv
  <2>2. u \in Uids /\ Admits(pull.kept, box[u]) /\ u >= 1
    BY <1>3, <2>1 DEF Asked
  <2>3. CASE u >= Start
    <3>1. (\E k \in 1..Len(q) : Shows(q[k], u)) /\ \A k \in 1..Len(q) : q[k].sweeps => u \in q[k].keep
      BY <1>5, <2>2, <2>3
    <3>2. PICK k \in 1..Len(q) : Shows(q[k], u)
      BY <3>1
    <3>3. Due(q[1], 0, Inserting', u) \/ \E l \in 2..Len(q) : Shows(q[l], u)
      <4>1. CASE k = 1
        BY <3>2, <4>1 DEF Shows, Due
      <4>2. CASE k # 1
        <5>1. k \in 2..Len(q)
          BY <1>5, <4>2
        <5> QED
          BY <3>2, <5>1
      <4> QED
        BY <4>1, <4>2
    <3>4. Coming(u)'
      BY <1>4, <1>6, <3>3 DEF Coming, Due
    <3> QED
      BY <1>4, <3>1, <3>4 DEF Followed
  <2>4. CASE ~(u >= Start)
    <3>1. ~pull.sweep /\ ~Resyncs /\ u <= cursor.last
      BY <1>3, <2>1, <2>2, <2>4 DEF Start
    <3>2. applied = gen
      BY <1>1, <2>1, <3>1 DEF ChoiceInv
    <3>3. cursor.epoch = epoch
      BY <2>1, <2>2, <3>1 DEF Resyncs, NoCursor
    <3>4. Covered(u)
      BY <2>1, <3>1, <3>2, <3>3 DEF SkipInv, PassedBy
    <3>5. Covered(u)'
      BY <1>1, <3>4 DEF Covered, server
    <3>6. ~Clearing'
      BY <1>4, <1>5, <3>1 DEF Clearing
    <3>7. \A k \in 1..Len(q) : ~q[k].sweeps
      BY <1>5, <3>1
    <3> QED
      BY <1>4, <3>5, <3>6, <3>7 DEF Followed
  <2> QED
    BY <2>3, <2>4
<1> QED
  BY <1>7 DEF CoverInv, Covers

(* The first batch is the one at hand.                                     *)
LEMMA FirstBatch ==
    ASSUME Shape, TrueInv, ByPull, pull.queue # <<>>, pull.queue[1].epoch = epoch
    PROVE  /\ job # NoJob /\ IsJob(job) /\ job.batch = pull.queue[1] /\ job.batch.epoch = epoch
           /\ At1 = job.i /\ 1 \in 1..Len(pull.queue) /\ Len(pull.queue) \in Nat
           /\ job.batch.messages \in Seq(Messages)
           /\ \A k \in 1..Len(job.batch.messages) :
                 job.batch.messages[k].uid \in Uids /\ job.batch.messages[k].mail = box[job.batch.messages[k].uid]
<1>1. /\ job # NoJob /\ IsJob(job) /\ job.batch = pull.queue[1]
  BY WhoseBatch DEF ByPull
<1>2. TrueBatch(job.batch)
  BY <1>1 DEF TrueInv
<1> QED
  BY <1>1, <1>2, Queues, JobFields DEF At1, TrueBatch, TrueMessages

LEMMA CoverClears ==
    ASSUME Shape, TrueInv, CoverInv, Next, ClearRows \/ ClearCursor
    PROVE  CoverInv'
<1>1. UNCHANGED <<server, choice>> /\ UNCHANGED pull /\ SamePlace /\ ~Inserting /\ ~Inserting' /\ ByPull
  <2>1. UNCHANGED pull
    BY CommitsAre DEF Shape, StageInv, ClearRows, ClearCursor, Done
  <2> QED
    BY <2>1, BatchPlace, FirstSteps DEF ClearRows, ClearCursor, Doing, Working
<1>2. Covers' => Covers
  BY <1>1, Disturbances DEF Covers, Runs, server, choice
<1>3. \A u : Coming(u)' <=> Coming(u)
  BY <1>1, ComingSame
<1>4. epoch' = epoch /\ pull'.queue = pull.queue /\ UNCHANGED <<server, kept>>
  BY <1>1 DEF server, choice
<1>5. CASE ClearRows
  <2>1. UNCHANGED cursor /\ "clear" \in Range(job.todo) /\ job.batch.resync
    BY <1>5, FirstSteps DEF ClearRows
  <2>2. \A u : Passed(u)' <=> Passed(u)
    BY <1>4, <2>1, KnownSame DEF Passed
  <2>3. Clearing
    BY <1>1, <2>1, WhoseBatch DEF Clearing, ByPull
  <2>4. ASSUME NEW u \in Nat, Followed(u) PROVE Followed(u)'
    <3>1. Coming(u)'
      BY <1>3, <2>3, <2>4 DEF Followed
    <3> QED
      BY <1>4, <2>4, <3>1, FollowedSame
  <2> QED
    BY <1>2, <2>2, <2>4, CoverFrom
<1>6. CASE ClearCursor
  <2>1. cursor' = NoCursor /\ rows' = rows
    BY <1>6 DEF ClearCursor
  <2>2. ~Clearing'
    <3>1. "clear" \notin Range(job'.todo) /\ ByPull'
      BY <1>1, <1>6, FirstSteps DEF SamePlace
    <3> QED
      BY <3>1 DEF Clearing
  <2>3. ASSUME NEW u \in Nat, Passed(u)' PROVE Passed(u)
    <3>1. Asked(u)
      BY <1>4, <2>3 DEF Passed, Asked, server, Uids, Admits
    <3>2. u >= 1
      BY <3>1, Counts DEF Asked
    <3>3. ~PassedBy(cursor', epoch', u)
      BY <2>1, <3>2 DEF PassedBy, NoCursor
    <3>4. Known(u)
      BY <1>4, <2>3, <3>3 DEF Passed, Known
    <3> QED
      BY <3>1, <3>4 DEF Passed
  <2>4. ASSUME NEW u \in Nat, Followed(u) PROVE Followed(u)'
    <3>1. Covered(u)' <=> Covered(u)
      BY <1>4, <2>1 DEF Covered
    <3>2. Covered(u)' \/ Coming(u)'
      BY <1>3, <2>4, <3>1 DEF Followed
    <3> QED
      BY <1>4, <2>2, <2>4, <3>2, FollowedSame
  <2> QED
    BY <1>2, <2>3, <2>4, CoverFrom
<1> QED
  BY <1>5, <1>6

LEMMA CoverRetains ==
    ASSUME Shape, TrueInv, CoverInv, Next, Retain
    PROVE  CoverInv'
<1>1. /\ UNCHANGED <<server, choice, cursor>> /\ UNCHANGED pull /\ SamePlace /\ SameWait("clear")
      /\ ~Inserting /\ ~Inserting' /\ ByPull /\ job.batch.sweeps
      /\ rows' = rows \ {r \in rows : r.epoch = job.batch.epoch /\ r.uid \notin job.batch.keep}
  BY BatchPlace, FirstSteps, RetainIs DEF Retain, Doing, Working, Shape
<1>2. Covers' => Covers
  BY <1>1, Disturbances DEF Covers, Runs, server, choice
<1>3. \A u : Coming(u)' <=> Coming(u)
  BY <1>1, ComingSame
<1>4. epoch' = epoch /\ pull'.queue = pull.queue /\ UNCHANGED <<server, kept>> /\ (Clearing' <=> Clearing)
  BY <1>1, SameResets DEF server, choice
<1>5. \A u : Passed(u)' <=> Passed(u)
  BY <1>1, <1>4, KnownSame DEF Passed
<1>6. ASSUME NEW u \in Nat, Covers, Followed(u) PROVE Followed(u)'
  <2>1. u \in job.batch.keep
    BY <1>1, <1>6, FirstBatch DEF Followed, Covers, Runs
  <2>2. Covered(u) => Covered(u)'
    BY <1>1, <1>4, <2>1 DEF Covered, InMirror
  <2> QED
    BY <1>3, <1>4, <1>6, <2>2, FollowedSame DEF Followed
<1> QED
  BY <1>2, <1>5, <1>6, CoverFrom

(* The next message: it is put down, or it need not be.                    *)
LEMMA CoverMessage ==
    ASSUME Shape, TrueInv, ChoiceInv, CoverInv, Next, Message
    PROVE  CoverInv'
<1>1. UNCHANGED <<server, choice, cursor, rows>> /\ UNCHANGED pull /\ (ByPull' <=> ByPull) /\ SameWait("clear")
      /\ ~Inserting
  BY BatchPlace, ZenonT(60) DEF Message, Working, mirror
<1>2. TakesUp(job, job', rows)
  BY MessageTakesUp DEF Shape
<1>3. pull'.queue = pull.queue /\ (Clearing' <=> Clearing) /\ UNCHANGED <<server, kept, epoch>>
  BY <1>1, SameResets DEF server, choice
<1>4. CASE ~ByPull
  <2>1. SamePlace /\ (Inserting' <=> Inserting)
    BY <1>1, <1>4 DEF SamePlace, At1, Inserting
  <2>2. \A u : Covered(u) => Covered(u)'
    BY <1>1, <1>3 DEF Covered
  <2> QED
    BY <1>1, <1>3, <2>1, <2>2, CoverStays
<1>5. CASE ByPull
  <2>1. Covers' => Covers
    BY <1>1, Disturbances DEF Covers, Runs, server, choice
  <2>2. \A u : Passed(u)' <=> Passed(u)
    BY <1>1, <1>3, KnownSame DEF Passed
  <2>3. job.todo = <<>> /\ job'.i = job.i + 1 /\ job' # NoJob /\ job.i \in Nat /\ job'.i \in 1..Len(job.batch.messages)
    BY <1>2, JobIsSome, JobFields DEF TakesUp
  <2>4. ~Clearing
    BY <1>5, <2>3 DEF Clearing, Range
  <2>5. ASSUME NEW u \in Nat, Covers, Asked(u), Followed(u) PROVE Followed(u)'
    <3>1. /\ job.batch = pull.queue[1] /\ job.batch.epoch = epoch /\ At1 = job.i
          /\ \A k \in 1..Len(job.batch.messages) : job.batch.messages[k].mail = box[job.batch.messages[k].uid]
          /\ Len(job.batch.messages) \in Nat
      BY <1>5, <2>5, FirstBatch DEF Covers, Runs
    <3>2. At1' = job'.i
      BY <1>1, <1>5 DEF At1
    <3>3. Covered(u)' <=> Covered(u)
      BY <1>1, <1>3 DEF Covered
    <3>4. CASE Covered(u)
      BY <1>3, <2>4, <2>5, <3>3, <3>4, FollowedSame
    <3>5. CASE \E k \in 2..Len(pull.queue) : Shows(pull.queue[k], u)
      <4>1. Coming(u)'
        BY <1>3, <3>5 DEF Coming
      <4> QED
        BY <1>3, <2>4, <2>5, <4>1, FollowedSame
    <3>6. CASE Due(pull.queue[1], At1, Inserting, u)
      <4>1. PICK k \in 1..Len(job.batch.messages) : job.batch.messages[k].uid = u /\ k > job.i
        BY <1>1, <3>1, <3>6 DEF Due
      <4>2. CASE k > job'.i \/ (k = job'.i /\ Inserting')
        <5>1. Due(pull'.queue[1], At1', Inserting', u)
          BY <1>3, <3>1, <3>2, <4>1, <4>2 DEF Due
        <5>2. Coming(u)'
          BY <5>1 DEF Coming
        <5> QED
          BY <1>3, <2>4, <2>5, <5>2, FollowedSame
      <4>3. CASE k = job'.i /\ ~Inserting'
        <5>1. "insert" \notin Range(job'.todo)
          BY <1>1, <1>5, <4>3 DEF Inserting
        <5>2. \/ \E r \in rows : r.uid = u /\ r.epoch = epoch
              \/ ~Admits(job.kept, box[u])
          BY <1>2, <3>1, <4>1, <4>3, <5>1, ZenonT(60) DEF TakesUp
        <5>3. job.kept = kept
          BY <1>5, <2>5 DEF ChoiceInv, Covers
        <5>4. Covered(u)
          BY <2>5, <5>2, <5>3 DEF Asked, Covered, InMirror
        <5> QED
          BY <3>4, <5>4
      <4> QED
        BY <2>3, <4>1, <4>2, <4>3
    <3> QED
      BY <2>5, <3>4, <3>5, <3>6 DEF Followed, Coming
  <2> QED
    BY <2>1, <2>2, <2>5, CoverFrom DEF Passed
<1> QED
  BY <1>4, <1>5

LEMMA CoverInserts ==
    ASSUME Shape, TrueInv, CoverInv, Next, Insert
    PROVE  CoverInv'
<1>1. /\ UNCHANGED <<server, choice, cursor>> /\ UNCHANGED pull /\ SamePlace /\ SameWait("clear")
      /\ \E r : rows' = rows \cup {r} /\ r.uid = Msg.uid /\ r.epoch = job.batch.epoch
  <2>1. PICK r : r = [uid |-> Msg.uid, epoch |-> job.batch.epoch, mail |-> Msg.mail, body |-> Msg.body,
                      text |-> IF Msg.body = "ready" THEN Msg.mail ELSE None]
    OBVIOUS
  <2>2. rows' = rows \cup {r} /\ r.uid = Msg.uid /\ r.epoch = job.batch.epoch
    BY <2>1 DEF Insert
  <2>3. UNCHANGED <<server, choice, cursor>> /\ UNCHANGED pull
    BY DEF Insert, Doing, Working, Done
  <2> QED
    BY <2>2, <2>3, BatchPlace
<1>2. /\ pull'.queue = pull.queue /\ (Clearing' <=> Clearing) /\ UNCHANGED <<server, kept, epoch>>
      /\ ByPull' <=> ByPull
  BY <1>1, SameResets DEF server, choice, SamePlace
<1>3. \A u : Covered(u) => Covered(u)'
  BY <1>1, <1>2 DEF Covered, InMirror
<1>4. job # NoJob /\ Range(job.todo) \cap {"clear"} = {}
  <2>1. "insert" \in Late /\ Doing("insert")
    BY DEF Late, Insert
  <2>2. Range(job.todo) \subseteq Late /\ IsJob(job)
    BY <2>1, MsgIs DEF Shape
  <2> QED
    BY <2>2, JobIsSome DEF Late
<1>5. CASE ~ByPull
  <2>1. Inserting' <=> Inserting
    BY <1>2, <1>5 DEF Inserting
  <2> QED
    BY <1>1, <1>2, <1>3, <2>1, CoverStays
<1>6. CASE ByPull
  <2>1. Covers' => Covers
    BY <1>1, Disturbances DEF Covers, Runs, server, choice
  <2>2. \A u : Passed(u)' <=> Passed(u)
    BY <1>1, <1>2, KnownSame DEF Passed
  <2>3. ~Clearing
    BY <1>4, <1>6 DEF Clearing
  <2>4. ASSUME NEW u \in Nat, Covers, Followed(u) PROVE Followed(u)'
    <3>1. /\ job.batch = pull.queue[1] /\ job.batch.epoch = epoch /\ At1 = job.i
      BY <1>6, <2>4, FirstBatch DEF Covers, Runs
    <3>2. CASE Covered(u)
      BY <1>2, <1>3, <2>3, <2>4, <3>2, FollowedSame
    <3>3. CASE \E k \in 2..Len(pull.queue) : Shows(pull.queue[k], u)
      <4>1. Coming(u)'
        BY <1>2, <3>3 DEF Coming
      <4> QED
        BY <1>2, <2>3, <2>4, <4>1, FollowedSame
    <3>4. CASE Due(pull.queue[1], At1, Inserting, u)
      <4>1. PICK k \in 1..Len(pull.queue[1].messages) :
               pull.queue[1].messages[k].uid = u /\ (k > At1 \/ k = At1)
        BY <3>4 DEF Due
      <4>2. CASE k > At1
        <5>1. Due(pull'.queue[1], At1', Inserting', u)
          BY <1>1, <1>2, <4>1, <4>2 DEF Due, SamePlace
        <5>2. Coming(u)'
          BY <5>1 DEF Coming
        <5> QED
          BY <1>2, <2>3, <2>4, <5>2, FollowedSame
      <4>3. CASE k = At1
        <5>1. Msg.uid = u
          BY <3>1, <4>1, <4>3 DEF Msg
        <5>2. Covered(u)'
          BY <1>1, <1>2, <3>1, <5>1 DEF Covered, InMirror
        <5> QED
          BY <1>2, <2>3, <2>4, <5>2, FollowedSame
      <4> QED
        BY <4>1, <4>2, <4>3
    <3> QED
      BY <2>4, <3>2, <3>3, <3>4 DEF Followed, Coming
  <2> QED
    BY <2>1, <2>2, <2>4, CoverFrom
<1> QED
  BY <1>5, <1>6

(* When a batch is over: what the cursor passes, it or the batch did.      *)
LEMMA WasPassed ==
    ASSUME Shape, TrueInv, QueueInv, CursorInv, Remember, ByPull, Undisturbed,
           NEW u \in Nat, Asked(u), PassedBy(cursor', epoch, u)
    PROVE  /\ pull.queue # <<>> /\ pull.queue[1].epoch = epoch /\ 1 \in 1..Len(pull.queue)
           /\ PassedBy(cursor, epoch, u) \/ Passes(pull.queue[1], u)
<1>1. /\ pull.queue # <<>> /\ cursor'.epoch = pull.queue[1].epoch /\ ~Resetting
      /\ u <= cursor'.last <=> u <= cursor.last \/ Passes(pull.queue[1], u)
  BY PullRemembers
<1>2. u >= 1 /\ 1 \in 1..Len(pull.queue)
  BY <1>1, Counts, Queues, SMTT(60) DEF Asked
<1>3. pull.queue[1].epoch = epoch /\ u <= cursor'.last
  BY <1>1 DEF PassedBy
<1>4. cursor.epoch = epoch \/ cursor.last = 0
  BY <1>1, <1>3 DEF CursorInv, Runs
<1> QED
  BY <1>1, <1>2, <1>3, <1>4 DEF PassedBy

LEMMA CoverRemembers ==
    ASSUME Shape, TrueInv, QueueInv, CursorInv, CoverInv, Next, Remember
    PROVE  CoverInv'
<1>1. Undisturbed' => Undisturbed
  BY Disturbances
<1>2. UNCHANGED <<server, choice, rows>> /\ job' = NoJob
  BY BatchOver DEF Remember, Working
<1>3. CASE ByPull
  <2>1. /\ LeftOf(pull.queue, pull'.queue) /\ pull.queue # <<>> /\ pull'.gen = pull.gen
        /\ ~Inserting /\ At1 = Len(pull.queue[1].messages)
    BY <1>3, PullRemembers DEF SamePull
  <2>2. PICK q, r : q = pull.queue /\ r = pull'.queue
    OBVIOUS
  <2>3. /\ Len(r) \in Nat /\ Len(q) \in Nat \ {0} /\ Len(r) = Len(q) - 1
        /\ \A k \in 1..Len(r) : k + 1 \in 1..Len(q) /\ r[k] = q[k + 1] /\ Before(q[1], r[k])
        /\ r # <<>> => 1 \in 1..Len(r)
    <3>1. r # <<>> => Len(r) > 0
      BY <2>1, <2>2 DEF LeftOf
    <3> QED
      BY <2>1, <2>2, <3>1 DEF LeftOf
  <2>4. Covers' => Covers
    <3>1. Covers' => r # <<>> /\ r[1].epoch = epoch /\ pull.gen = gen /\ Undisturbed
      BY <1>1, <1>2, <2>1, <2>2 DEF Covers, Runs, server, choice
    <3>2. Covers' => q[1].epoch = epoch
      BY <2>3, <3>1 DEF Before
    <3> QED
      BY <2>1, <2>2, <3>1, <3>2 DEF Covers, Runs
  <2>5. ASSUME NEW u \in Nat, Covers', Passed(u)' PROVE Passed(u)
    <3>1. Asked(u) /\ epoch' = epoch
      BY <1>2, <2>5 DEF Passed, Asked, server, choice, Uids, Admits
    <3>2. CASE PassedBy(cursor', epoch, u)
      <4>1. /\ 1 \in 1..Len(pull.queue)
            /\ PassedBy(cursor, epoch, u) \/ Passes(pull.queue[1], u)
        BY <1>1, <1>3, <2>5, <3>1, <3>2, WasPassed DEF Covers, Runs
      <4> QED
        BY <3>1, <4>1 DEF Passed, Known
    <3>3. CASE \E k \in 1..Len(r) : Passes(r[k], u)
      <4>1. \E k \in 1..Len(q) : Passes(q[k], u)
        BY <2>3, <3>3
      <4> QED
        BY <2>2, <3>1, <4>1 DEF Passed, Known
    <3> QED
      BY <2>2, <2>5, <3>1, <3>2, <3>3 DEF Passed, Known
  <2>6. ASSUME NEW u \in Nat, Covers', Followed(u) PROVE Followed(u)'
    <3>1. ~ByPull' /\ At1' = 0
      BY <1>2 DEF ByPull, At1
    <3>2. 1 \in 1..Len(r) /\ ~r[1].resync
      BY <2>2, <2>3, <2>6 DEF Covers, Runs, Before
    <3>3. ~Clearing'
      BY <2>2, <3>2 DEF Clearing
    <3>4. Covered(u) => Covered(u)'
      BY <1>2 DEF Covered, server
    <3>5. ASSUME Coming(u) PROVE Coming(u)'
      <4>1. ~Due(q[1], At1, Inserting, u)
        <5>1. Len(q[1].messages) \in Nat
          BY <2>2, <2>3, Queues, SMTT(60) DEF Batches
        <5> QED
          BY <2>1, <2>2, <5>1 DEF Due
      <4>2. PICK k \in 2..Len(q) : Shows(q[k], u)
        BY <2>2, <3>5, <4>1 DEF Coming
      <4>3. PICK l : l = k - 1
        OBVIOUS
      <4>4. l \in 1..Len(r) /\ Shows(r[l], u)
        BY <2>3, <4>2, <4>3
      <4>5. CASE l = 1
        <5>1. Due(r[1], 0, Inserting', u)
          BY <4>4, <4>5, SMTT(60) DEF Shows, Due
        <5> QED
          BY <2>2, <3>1, <5>1 DEF Coming, Due
      <4>6. CASE l # 1
        <5>1. l \in 2..Len(r)
          BY <2>3, <4>4, <4>6
        <5> QED
          BY <2>2, <4>4, <5>1, SMTT(60) DEF Coming
      <4> QED
        BY <4>5, <4>6, SMTT(60)
    <3>6. \A k \in 1..Len(r) : r[k].sweeps => u \in r[k].keep
      BY <2>2, <2>3, <2>6, ZenonT(60) DEF Followed
    <3> QED
      BY <2>2, <2>6, <3>3, <3>4, <3>5, <3>6, SMTT(60) DEF Followed
  <2> QED
    BY <2>4, <2>5, <2>6, CoverFrom
<1>4. CASE ~ByPull
  <2>1. pull' = pull /\ (moved' \/ cursor' = cursor)
    BY <1>4, BatchOver
  <2>2. ~ByPull' /\ SamePlace /\ ~Inserting /\ ~Inserting' /\ (Clearing' <=> Clearing)
    BY <1>2, <1>4, <2>1 DEF ByPull, SamePlace, At1, Inserting, Clearing
  <2>3. CASE cursor' = cursor
    BY <1>2, <2>1, <2>2, <2>3, CoverStays DEF Covered, server
  <2>4. CASE moved'
    BY <2>4 DEF CoverInv, Runs, Undisturbed
  <2> QED
    BY <2>1, <2>3, <2>4
<1> QED
  BY <1>3, <1>4

(* The pull has no batch left, or none yet.                                *)
LEMMA NoBatch ==
    ASSUME Shape, Plan \/ Rewind \/ Prepare \/ Lose \/ Pulled \/ FillRecent \/ Crash
    PROVE  /\ pull'.queue = <<>>
           /\ pull'.pc = "pulling" => Lose /\ pull'.failed
<1>1. TypeInv /\ (pull.pc # "pulling" => pull.queue = <<>>)
  BY DEF Shape, StageInv
<1>2. CASE Plan
  BY <1>1, <1>2, PullMoves
<1>3. CASE Lose
  BY <1>1, <1>3, PullMoves
<1>4. CASE Rewind \/ Prepare
  BY <1>1, <1>4, PullMoves DEF SameBut, Rewind, Prepare
<1>5. CASE Pulled
  BY <1>1, <1>5, PullMoves, NothingIs DEF SameBut, Pulled
<1>6. CASE FillRecent \/ Crash
  BY <1>6, NothingIs DEF FillRecent, Crash
<1> QED
  BY <1>2, <1>3, <1>4, <1>5, <1>6

LEMMA ChoiceMoves ==
    ASSUME Shape, TrueInv, ChoiceInv, NEW s \in Scopes, SetKeptAddresses(s)
    PROVE  applied' # gen' /\ (pull.pc # "idle" => pull'.gen # gen') /\ pull' = pull
<1>1. gen' = gen + 1 /\ applied' = applied /\ pull' = pull
  BY DEF SetKeptAddresses, mirror
<1> QED
  BY <1>1, Counts DEF ChoiceInv

LEMMA CoverStep ==
    ASSUME Shape, TrueInv, ChoiceInv, QueueInv, CursorInv, CoverInv, SkipInv, Next
    PROVE  CoverInv'
<1>1. pull.pc # "pulling" => pull.queue = <<>>
  BY DEF Shape, StageInv
<1>2. CASE \E m \in Mails : Arrive(m)
  BY <1>2, CoverArrives
<1>3. CASE Renumber
  <2>1. epoch' = epoch + 1 /\ pull' = pull
    BY <1>3 DEF Renumber
  <2>2. pull.queue # <<>> => pull.queue[1].epoch # epoch'
    <3>1. pull.queue # <<>> => 1 \in 1..Len(pull.queue)
      BY Queues
    <3> QED
      BY <2>1, <3>1, Counts, SMTT(60)
  <2> QED
    BY <2>1, <2>2 DEF CoverInv, Runs
<1>4. CASE \E s \in Scopes : SetKeptAddresses(s)
  BY <1>1, <1>4, ChoiceMoves DEF CoverInv, Runs
<1>5. CASE Rests
  BY <1>5, CoverStays
     DEF Rests, SamePlace, ByPull, At1, Inserting, Clearing, Covered, server
<1>6. CASE Plan \/ Rewind \/ Prepare \/ Lose \/ Pulled \/ FillRecent \/ Crash
  BY <1>6, NoBatch DEF CoverInv, Runs
<1>7. CASE Fetch
  BY <1>7, CoverFetches
<1>8. CASE \E by \in {"pull", "fill"} : Absorb(by)
  <2>1. UNCHANGED <<server, choice, cursor, rows>>
    BY <1>8 DEF Absorb, mirror
  <2>2. /\ pull' = pull /\ ~Inserting /\ ~Inserting' /\ At1' = At1
        /\ pull.queue # <<>> => (Clearing' <=> Clearing)
    BY <1>8, AbsorbPlace
  <2>3. Covers' => Covers
    BY <2>1, <2>2, Disturbances DEF Covers, Runs, server, choice
  <2>4. \A u : Passed(u)' <=> Passed(u)
    BY <2>1, <2>2, KnownSame DEF Passed, choice
  <2>5. ASSUME NEW u \in Nat, Covers, Followed(u) PROVE Followed(u)'
    <3>1. Covered(u)' <=> Covered(u)
      BY <2>1 DEF Covered, server
    <3>2. Coming(u)' <=> Coming(u)
      BY <2>2 DEF Coming, Due, Shows
    <3>3. Clearing' <=> Clearing
      BY <2>2, <2>5 DEF Covers, Runs
    <3> QED
      BY <2>1, <2>2, <2>5, <3>1, <3>2, <3>3, FollowedSame DEF Followed, server
  <2> QED
    BY <2>3, <2>4, <2>5, CoverFrom
<1>9. CASE ClearRows \/ ClearCursor
  BY <1>9, CoverClears
<1>10. CASE Retain
  BY <1>10, CoverRetains
<1>11. CASE Message
  BY <1>11, CoverMessage
<1>12. CASE Insert
  BY <1>12, CoverInserts
<1>13. CASE Remember
  BY <1>13, CoverRemembers
<1>14. CASE \E step : Settles(step)
  <2>1. PICK step : Settles(step)
    BY <1>14
  <2>2. UNCHANGED <<server, choice, cursor>> /\ UNCHANGED pull /\ SameLetters
    BY <2>1 DEF Settles, Commits
  <2>3. SamePlace /\ SameWait("clear") /\ (Inserting' <=> Inserting)
    BY <2>1, BatchPlace
  <2>4. Clearing' <=> Clearing
    BY <2>2, <2>3, SameResets
  <2>5. \A u : Covered(u) => Covered(u)'
    BY <2>2 DEF Covered, SameLetters, server
  <2> QED
    BY <2>2, <2>3, <2>4, <2>5, CoverStays
<1>15. CASE GivesUp
  BY <1>15 DEF GivesUp, CoverInv, Runs
<1> QED
  BY <1>2, <1>3, <1>4, <1>5, <1>6, <1>7, <1>8, <1>9, <1>10, <1>11, <1>12, <1>13, <1>14, <1>15, StepKinds

-----------------------------------------------------------------------------
(* What the cursor has passed is in the mirror.                            *)

Sound(u) == Asked(u) /\ PassedBy(cursor, epoch, u) => Covered(u)
SoundStays == \A u \in Nat : Sound(u) => Sound(u)'

LEMMA RowsStay ==
    ASSUME UNCHANGED <<server, kept, cursor>>, \A u : Covered(u) => Covered(u)'
    PROVE  SoundStays
<1>1. \A u : (Asked(u)' <=> Asked(u)) /\ (PassedBy(cursor, epoch, u)' <=> PassedBy(cursor, epoch, u))
  BY DEF server, Asked, Admits, Uids, PassedBy
<1> QED
  BY <1>1 DEF SoundStays, Sound

LEMMA LettersArriveSound ==
    ASSUME Shape, TrueInv, CursorInv, Undisturbed, NEW m \in Mails, Arrive(m)
    PROVE  SoundStays
<1>1. UNCHANGED <<epoch, kept, cursor, rows>> /\ box' = Append(box, m)
  BY DEF Arrive, mirror, choice
<1>2. /\ box \in Seq(Mails) /\ Len(box) \in Nat /\ Uids = 1..Len(box) /\ cursor.last \in Nat
  BY Counts
<1>3. Len(box') = Len(box) + 1 /\ (\A u \in 1..Len(box) : box'[u] = box[u]) /\ Uids' = 1..Len(box')
  BY <1>1, <1>2 DEF Uids
<1>4. ASSUME NEW u \in Nat, Sound(u), Asked(u)', PassedBy(cursor, epoch, u)' PROVE Covered(u)'
  <2>1. cursor.epoch = epoch /\ u <= cursor.last
    BY <1>1, <1>4 DEF PassedBy
  <2>2. u <= Len(box)
    BY <1>2, <2>1 DEF CursorInv
  <2>3. u \in 1..Len(box) /\ Admits(kept, box'[u])
    BY <1>1, <1>2, <1>3, <1>4, <2>2 DEF Asked
  <2>4. Asked(u)
    BY <1>2, <1>3, <2>3 DEF Asked
  <2>5. Covered(u)
    BY <1>4, <2>1, <2>4 DEF Sound, PassedBy
  <2> QED
    BY <1>1, <2>5 DEF Covered
<1> QED
  BY <1>4 DEF SoundStays, Sound

(* The steps that lose no row and leave the cursor.                        *)
LEMMA OthersStaySound ==
    ASSUME Shape, Rests \/ Message \/ Insert \/ (\E step : Settles(step))
                  \/ (\E by \in {"pull", "fill"} : Absorb(by))
    PROVE  SoundStays /\ UNCHANGED <<gen, applied, pull>>
<1> DEFINE Same == UNCHANGED <<server, choice, cursor, applied, pull>>
           Holds == \A u : Covered(u) => Covered(u)'
<1>1. ASSUME Rests
      PROVE  Same /\ Holds
  <2>1. Same
    BY <1>1 DEF Rests, mirror
  <2>2. UNCHANGED rows
    BY <1>1 DEF Rests, mirror
  <2> QED
    BY <2>1, <2>2 DEF Covered, InMirror, server
<1>2. ASSUME Message
      PROVE  Same /\ Holds
  <2>1. Same
    <3>1. UNCHANGED <<mirror, pull>>
      BY <1>2, Zenon DEF Message
    <3>2. UNCHANGED <<server, choice>>
      BY <1>2, Zenon DEF Message, Working
    <3> QED
      BY <3>1, <3>2 DEF mirror
  <2>2. UNCHANGED rows
    BY <1>2, Zenon DEF Message, mirror
  <2> QED
    BY <2>1, <2>2 DEF Covered, InMirror, server
<1>3. ASSUME Insert
      PROVE  Same /\ Holds
  <2>1. Same
    BY <1>3 DEF Insert, Done, Doing, Working, mirror
  <2>2. rows \subseteq rows'
    BY <1>3 DEF Insert, Doing, Working
  <2> QED
    BY <2>1, <2>2 DEF Covered, InMirror, server
<1>4. ASSUME NEW step, Settles(step)
      PROVE  Same /\ Holds
  <2>1. Same
    BY <1>4 DEF Settles, Commits, Done, mirror
  <2>2. SameLetters
    BY <1>4 DEF Settles
  <2> QED
    BY <2>1, <2>2 DEF Covered, InMirror, SameLetters, server
<1>5. ASSUME NEW by \in {"pull", "fill"}, Absorb(by)
      PROVE  Same /\ Holds
  <2>1. Same
    BY <1>5 DEF Absorb, mirror
  <2>2. UNCHANGED rows
    BY <1>5 DEF Absorb, mirror
  <2> QED
    BY <2>1, <2>2 DEF Covered, InMirror, server
<1>6. Same /\ Holds
  BY <1>1, <1>2, <1>3, <1>4, <1>5
<1>7. UNCHANGED choice
  BY <1>6 DEF choice
<1> QED
  BY <1>6, <1>7, RowsStay DEF choice

Finished == Undisturbed /\ pull.pc = "pulling" /\ pull.queue = <<>> /\ ~pull.failed /\ pull.gen = gen

LEMMA EndFrom ==
    ASSUME EndInv, SoundStays, Finished' => Finished
    PROVE  EndInv'
<1>1. Finished => \A u \in Nat : Sound(u)
  BY DEF EndInv, Finished, Sound
<1>2. Finished' => \A u \in Nat : Sound(u)'
  BY <1>1 DEF SoundStays
<1> QED
  BY <1>2 DEF EndInv, Finished, Sound

LEMMA EndStep ==
    ASSUME Shape, TrueInv, ChoiceInv, QueueInv, CursorInv, CoverInv, EndInv, Next
    PROVE  EndInv'
<1>1. Undisturbed' => Undisturbed
  BY Disturbances
<1>2. CASE \E m \in Mails : Arrive(m)
  <2>1. UNCHANGED <<gen, pull>>
    BY <1>2 DEF Arrive, choice
  <2>2. CASE Undisturbed
    BY <1>1, <1>2, <2>1, <2>2, LettersArriveSound, EndFrom DEF Finished
  <2>3. CASE ~Undisturbed
    BY <1>1, <2>3 DEF EndInv
  <2> QED
    BY <2>2, <2>3
<1>3. CASE Renumber
  <2>1. epoch' # cursor'.epoch
    BY <1>3, Counts DEF Renumber, mirror
  <2> QED
    BY <2>1 DEF EndInv, PassedBy
<1>4. CASE \E s \in Scopes : SetKeptAddresses(s)
  BY <1>4, ChoiceMoves DEF EndInv
<1>5. CASE Rests \/ Message \/ Insert \/ (\E step : Settles(step)) \/ (\E by \in {"pull", "fill"} : Absorb(by))
  BY <1>1, <1>5, OthersStaySound, EndFrom DEF Finished
<1>6. CASE Plan \/ Rewind \/ Prepare \/ Lose \/ Pulled \/ FillRecent \/ Crash
  BY <1>6, NoBatch DEF EndInv
<1>7. CASE Fetch
  BY <1>7, FetchMoves DEF EndInv, Reads, Shape
<1>8. CASE ClearRows \/ ClearCursor \/ Retain
  <2>1. pull.queue # <<>> /\ pull'.queue = pull.queue
    BY <1>8, FirstSteps, BatchPlace, WhoseBatch DEF SamePlace, ByPull
  <2> QED
    BY <2>1 DEF EndInv
<1>9. CASE Remember
  <2>1. UNCHANGED <<server, choice, rows>>
    BY <1>9 DEF Remember, Working
  <2>2. CASE ByPull
    <3>1. /\ LeftOf(pull.queue, pull'.queue) /\ pull.queue # <<>> /\ pull'.gen = pull.gen
          /\ ~Inserting /\ At1 = Len(pull.queue[1].messages)
      BY <1>9, <2>2, PullRemembers DEF SamePull
    <3>2. ASSUME Finished', NEW u \in Nat, Asked(u)', PassedBy(cursor, epoch, u)'
          PROVE  Covered(u)'
      <4>1. Undisturbed /\ Asked(u) /\ PassedBy(cursor', epoch, u) /\ pull.gen = gen
        BY <1>1, <2>1, <3>1, <3>2 DEF Finished, Asked, server, choice, Uids, Admits
      <4>2. /\ pull.queue[1].epoch = epoch /\ 1 \in 1..Len(pull.queue)
            /\ PassedBy(cursor, epoch, u) \/ Passes(pull.queue[1], u)
        BY <1>9, <2>2, <4>1, WasPassed
      <4>3. Followed(u)
        BY <3>1, <4>1, <4>2 DEF CoverInv, Runs, Known
      <4>4. ~Coming(u)
        <5>1. Len(pull.queue) = 1
          BY <3>1, <3>2 DEF LeftOf, Finished
        <5>2. Len(pull.queue[1].messages) \in Nat
          BY <4>2, Queues, SMTT(90) DEF Batches
        <5> QED
          BY <3>1, <5>1, <5>2 DEF Coming, Due
      <4> QED
        BY <2>1, <4>3, <4>4 DEF Followed, Covered, server
    <3> QED
      BY <3>2 DEF EndInv, Finished
  <2>3. CASE ~ByPull
    <3>1. pull' = pull /\ (moved' \/ cursor' = cursor)
      BY <1>9, <2>3, BatchOver
    <3>2. CASE cursor' = cursor
      <4>1. SoundStays
        BY <2>1, <3>2, RowsStay DEF choice, Covered, server
      <4> QED
        BY <1>1, <2>1, <3>1, <4>1, EndFrom DEF Finished, choice
    <3>3. CASE moved'
      BY <3>3 DEF EndInv, Undisturbed
    <3> QED
      BY <3>1, <3>2, <3>3
  <2> QED
    BY <2>2, <2>3
<1>10. CASE GivesUp
  BY <1>10 DEF GivesUp, EndInv
<1> QED
  BY <1>2, <1>3, <1>4, <1>5, <1>6, <1>7, <1>8, <1>9, <1>10, StepKinds

LEMMA SkipFrom ==
    ASSUME SkipInv, SoundStays, Undisturbed' => Undisturbed, UNCHANGED <<applied, gen>>
    PROVE  SkipInv'
<1>1. Undisturbed /\ applied = gen => \A u \in Nat : Sound(u)
  BY DEF SkipInv, Sound
<1>2. Undisturbed' /\ applied' = gen' => \A u \in Nat : Sound(u)'
  BY <1>1 DEF SoundStays
<1> QED
  BY <1>2 DEF SkipInv, Sound

LEMMA SkipStep ==
    ASSUME Shape, TrueInv, ChoiceInv, QueueInv, CursorInv, CoverInv, EndInv, SkipInv, Next
    PROVE  SkipInv'
<1>1. Undisturbed' => Undisturbed
  BY Disturbances
<1>2. CASE \E m \in Mails : Arrive(m)
  <2>1. UNCHANGED <<gen, applied>>
    BY <1>2 DEF Arrive, choice, mirror
  <2>2. CASE Undisturbed
    BY <1>1, <1>2, <2>1, <2>2, LettersArriveSound, SkipFrom
  <2>3. CASE ~Undisturbed
    BY <1>1, <2>3 DEF SkipInv
  <2> QED
    BY <2>2, <2>3
<1>3. CASE Renumber
  <2>1. epoch' # cursor'.epoch
    BY <1>3, Counts DEF Renumber, mirror
  <2> QED
    BY <2>1 DEF SkipInv, PassedBy
<1>4. CASE \E s \in Scopes : SetKeptAddresses(s)
  BY <1>4, ChoiceMoves DEF SkipInv
<1>5. CASE Rests \/ Message \/ Insert \/ (\E step : Settles(step)) \/ (\E by \in {"pull", "fill"} : Absorb(by))
  BY <1>1, <1>5, OthersStaySound, SkipFrom
<1>6. CASE Plan \/ Fetch \/ Lose \/ FillRecent \/ Crash
  <2>1. UNCHANGED <<server, choice, rows, cursor, applied>>
    BY <1>6, ZenonT(60) DEF Plan, Fetch, Lose, FillRecent, Crash, mirror
  <2>2. SoundStays
    BY <2>1, RowsStay DEF choice, Covered, server
  <2> QED
    BY <1>1, <2>1, <2>2, SkipFrom DEF choice
<1>7. ASSUME cursor'.last = 0, UNCHANGED server PROVE SkipInv'
  <2>1. \A u \in Uids : u >= 1
    BY Counts
  <2>2. \A u \in Nat : ~(Asked(u)' /\ PassedBy(cursor, epoch, u)')
    BY <1>7, <2>1 DEF Asked, PassedBy, server, Uids
  <2> QED
    BY <2>2 DEF SkipInv
<1>8. CASE Rewind \/ ClearCursor
  <2>1. cursor'.last = 0 /\ UNCHANGED server
    BY <1>8, PullMoves DEF Rewind, ClearCursor, NoCursor, Doing, Working, Shape
  <2> QED
    BY <1>7, <2>1
<1>9. CASE Prepare
  <2>1. UNCHANGED <<server, choice, rows, cursor>>
    BY <1>9 DEF Prepare
  <2>2. CASE pull.pc = "rewound"
    BY <1>7, <2>1, <2>2 DEF ChoiceInv
  <2>3. CASE pull.pc # "rewound"
    <3>1. applied' = applied
      BY <1>9, <2>3 DEF Prepare
    <3>2. SoundStays
      BY <2>1, RowsStay DEF choice, Covered, server
    <3> QED
      BY <1>1, <2>1, <3>1, <3>2, SkipFrom DEF choice
  <2> QED
    BY <2>2, <2>3
<1>10. CASE Pulled
  <2>1. UNCHANGED <<server, choice, rows, cursor>> /\ pull.pc = "pulling" /\ pull.queue = <<>>
    BY <1>10 DEF Pulled
  <2>2. SoundStays
    BY <2>1, RowsStay DEF choice, Covered, server
  <2>3. CASE applied' = applied
    BY <1>1, <2>1, <2>2, <2>3, SkipFrom DEF choice
  <2>4. CASE applied' # applied
    <3>1. applied' = pull.gen /\ ~pull.failed
      BY <1>10, <2>4 DEF Pulled
    <3>2. Undisturbed' /\ applied' = gen' => \A u \in Nat : Sound(u)
      BY <1>1, <2>1, <3>1 DEF EndInv, Sound, choice
    <3>3. Undisturbed' /\ applied' = gen' => \A u \in Nat : Sound(u)'
      BY <2>2, <3>2 DEF SoundStays
    <3> QED
      BY <3>3 DEF SkipInv, Sound
  <2> QED
    BY <2>3, <2>4
<1>11. CASE ClearRows
  <2>1. UNCHANGED <<server, choice, cursor, applied>> /\ ByPull /\ job.batch.resync /\ "rewind" \in Range(job.todo)
    BY <1>11, FirstSteps DEF ClearRows, Doing, Working
  <2>2. pull.queue # <<>> /\ job.batch = pull.queue[1] /\ 1 \in 1..Len(pull.queue)
    BY <2>1, WhoseBatch, Queues DEF ByPull
  <2>3. Resetting
    BY <2>1, <2>2 DEF Resetting
  <2>4. Undisturbed => cursor.epoch < pull.queue[1].epoch
    BY <2>2, <2>3 DEF CursorInv, Runs
  <2>5. Undisturbed => cursor.epoch # epoch
    BY <2>2, <2>4, Counts
  <2>6. cursor' = cursor /\ epoch' = epoch
    BY <2>1 DEF server
  <2> QED
    BY <1>1, <2>5, <2>6 DEF SkipInv, PassedBy
<1>12. CASE Retain
  <2>1. UNCHANGED <<choice, applied>> /\ ByPull /\ job.batch.sweeps
    BY <1>12, FirstSteps DEF Retain, Doing, Working
  <2>2. pull.pc = "pulling" /\ pull.queue # <<>> /\ job.batch = pull.queue[1] /\ 1 \in 1..Len(pull.queue)
    BY <2>1, WhoseBatch, Queues DEF ByPull
  <2>3. pull.sweep
    BY <2>1, <2>2 DEF QueueInv
  <2>4. applied # gen
    BY <2>2, <2>3, Counts DEF ChoiceInv
  <2> QED
    BY <2>1, <2>4 DEF SkipInv, choice
<1>13. CASE Remember
  <2>1. UNCHANGED <<server, choice, rows, applied>>
    BY <1>13 DEF Remember, Working
  <2>2. CASE ByPull
    <3>1. /\ pull.queue # <<>> /\ pull.pc = "pulling" /\ ~Inserting /\ At1 = Len(pull.queue[1].messages)
      BY <1>13, <2>2, PullRemembers
    <3>2. ASSUME Undisturbed', applied' = gen', NEW u \in Nat, Asked(u)', PassedBy(cursor, epoch, u)'
          PROVE  Covered(u)'
      <4>1. Undisturbed /\ Asked(u) /\ PassedBy(cursor', epoch, u) /\ applied = gen
        BY <1>1, <2>1, <3>2 DEF Asked, server, choice, Uids, Admits
      <4>2. pull.gen = gen
        BY <3>1, <4>1, Counts DEF ChoiceInv
      <4>3. /\ pull.queue[1].epoch = epoch /\ 1 \in 1..Len(pull.queue)
            /\ PassedBy(cursor, epoch, u) \/ Passes(pull.queue[1], u)
        BY <1>13, <2>2, <4>1, WasPassed
      <4>4. CASE PassedBy(cursor, epoch, u)
        <5>1. Covered(u)
          BY <4>1, <4>4 DEF SkipInv
        <5> QED
          BY <2>1, <5>1 DEF Covered, server
      <4>5. CASE Passes(pull.queue[1], u)
        <5>1. Followed(u)
          BY <3>1, <4>1, <4>2, <4>3, <4>5 DEF CoverInv, Runs, Known
        <5>2. ~Coming(u)
          <6>1. pull.queue[1] \in Batches /\ Len(pull.queue[1].messages) \in Nat
            BY <4>3, Queues DEF Batches
          <6>2. ~Due(pull.queue[1], At1, Inserting, u)
            BY <3>1, <6>1 DEF Due
          <6>3. ASSUME NEW k \in 2..Len(pull.queue), Shows(pull.queue[k], u) PROVE FALSE
            <7>1. k \in 1..Len(pull.queue) /\ 1 < k
              BY <6>3, Queues
            <7>2. Before(pull.queue[1], pull.queue[k])
              BY <4>3, <7>1 DEF QueueInv, InOrder
            <7>3. PICK l \in 1..Len(pull.queue[k].messages) : pull.queue[k].messages[l].uid = u
              BY <6>3 DEF Shows
            <7>4. \A i \in 1..Len(pull.queue[1].messages) : pull.queue[1].messages[i].uid < u
              BY <7>2, <7>3 DEF Before
            <7>5. pull.queue[1].examined = 0 /\ u >= 1
              BY <4>1, <7>2, Counts DEF Before, Asked
            <7>6. \A i \in 1..Len(pull.queue[1].messages) : pull.queue[1].messages[i].uid \in Nat
              BY <4>3, Counts, SMTT(90)
            <7> QED
              BY <4>5, <7>4, <7>5, <7>6 DEF Passes
          <6> QED
            BY <6>2, <6>3 DEF Coming
        <5> QED
          BY <2>1, <5>1, <5>2 DEF Followed, Covered, server
      <4> QED
        BY <4>3, <4>4, <4>5
    <3> QED
      BY <3>2 DEF SkipInv
  <2>3. CASE ~ByPull
    <3>1. moved' \/ cursor' = cursor
      BY <1>13, <2>3, BatchOver
    <3>2. CASE cursor' = cursor
      <4>1. SoundStays
        BY <2>1, <3>2, RowsStay DEF choice, Covered, server
      <4> QED
        BY <1>1, <2>1, <4>1, SkipFrom DEF choice
    <3>3. CASE moved'
      BY <3>3 DEF SkipInv, Undisturbed
    <3> QED
      BY <3>1, <3>2, <3>3
  <2> QED
    BY <2>2, <2>3
<1>14. CASE GivesUp
  BY <1>14 DEF GivesUp, SkipInv
<1> QED
  BY <1>2, <1>3, <1>4, <1>5, <1>6, <1>8, <1>9, <1>10, <1>11, <1>12, <1>13, <1>14, StepKinds

-----------------------------------------------------------------------------
LEMMA PullInit == Init => PullInv
<1> SUFFICES ASSUME Init PROVE PullInv
  OBVIOUS
<1>1. /\ pull = NoPull /\ job = NoJob /\ cursor = NoCursor /\ gen = 1 /\ applied = 0 /\ epoch = 1 /\ box = <<>>
      /\ rows = {}
  BY DEF Init
<1>2. pull.pc = "idle" /\ pull.queue = <<>> /\ ~pull.failed /\ cursor.last = 0 /\ cursor.epoch = 0
  BY <1>1, NothingIs DEF NoCursor
<1>3. Len(pull.queue) = 0 /\ Len(box) = 0
  BY <1>1, <1>2
<1>4. QueueInv
  BY <1>2, <1>3 DEF QueueInv, InOrder
<1>5. ChoiceInv
  BY <1>1, <1>2 DEF ChoiceInv, ByPull
<1> QED
  BY <1>1, <1>2, <1>3, <1>4, <1>5 DEF PullInv, CursorInv, CoverInv, EndInv, SkipInv, Runs, PassedBy

LEMMA PullStep ==
    ASSUME Shape, TrueInv, PullInv, [Next]_vars
    PROVE  PullInv'
<1>1. CASE Next
  BY <1>1, ChoiceStep, QueueStep, CursorStep, CoverStep, EndStep, SkipStep DEF PullInv
<1>2. CASE UNCHANGED vars
  <2>1. UNCHANGED <<epoch, box, kept, gen, exists, rows, cursor, applied, pull, job, moved>>
    BY <1>2 DEF vars, server, choice, book, mirror, history
  <2>2. ByPull' <=> ByPull
    BY <2>1 DEF ByPull
  <2>3. ChoiceInv' /\ QueueInv'
    BY <2>1, <2>2 DEF PullInv, ChoiceInv, QueueInv, Undisturbed
  <2>4. /\ Undisturbed' <=> Undisturbed
        /\ Runs' <=> Runs
        /\ Resetting' <=> Resetting
        /\ Clearing' <=> Clearing
        /\ Inserting' <=> Inserting
        /\ At1' = At1
    BY <2>1, <2>2 DEF Undisturbed, Runs, Resetting, Clearing, Inserting, At1
  <2>5. CursorInv'
    BY <2>1, <2>4 DEF PullInv, CursorInv
  <2>6. \A u : /\ Asked(u)' <=> Asked(u)
               /\ Known(u)' <=> Known(u)
               /\ Covered(u)' <=> Covered(u)
               /\ Coming(u)' <=> Coming(u)
    BY <2>1, <2>4 DEF Asked, Admits, Uids, Known, Covered, Coming, Due, Shows
  <2>7. \A u : Followed(u)' <=> Followed(u)
    BY <2>1, <2>4, <2>6 DEF Followed
  <2>8. CoverInv'
    BY <2>1, <2>4, <2>6, <2>7 DEF PullInv, CoverInv
  <2>9. EndInv' /\ SkipInv'
    BY <2>1, <2>4, <2>6 DEF PullInv, EndInv, SkipInv
  <2> QED
    BY <2>3, <2>5, <2>8, <2>9 DEF PullInv
<1> QED
  BY <1>1, <1>2

LEMMA SkipsNothing ==
    ASSUME Shape, TrueInv, PullInv
    PROVE  NothingSkipped
<1> SUFFICES ASSUME Undisturbed, applied = gen, cursor.epoch = epoch,
                    NEW u \in Uids, u <= cursor.last, Admits(kept, box[u])
             PROVE  \E r \in rows : r.uid = u /\ r.epoch = epoch /\ r.mail = box[u]
  BY DEF NothingSkipped, NeverSkipped
<1>1. u \in Nat
  BY Counts
<1>2. Covered(u)
  BY <1>1 DEF PullInv, SkipInv, Asked, PassedBy
<1>3. PICK r \in rows : r.uid = u /\ r.epoch = epoch
  BY <1>2 DEF Covered, InMirror
<1>4. r.mail = box[u]
  BY <1>3 DEF TrueInv, TrueRow
<1> QED
  BY <1>3, <1>4

(* As long as no body came late and no dossier was deleted, the cursor has *)
(* passed no letter that the choice keeps and that the mirror lacks: for   *)
(* any folder, batches of any size, interruptions at any commit, numbers   *)
(* given again and choices changed while a pull is under way.              *)
THEOREM NothingIsSkipped == Spec => []NothingSkipped
<1>1. Spec => Init /\ [][Next]_vars
  BY DEF Spec
<1>2. Init => Shape /\ TrueInv /\ PullInv
  BY ShapeInit, TrueInit, PullInit
<1>3. Shape /\ TrueInv /\ PullInv /\ [Next]_vars => (Shape /\ TrueInv /\ PullInv)'
  BY ShapeStep, TrueStep, PullStep
<1> QED
  BY <1>1, <1>2, <1>3, SkipsNothing, PTL
=============================================================================
