--------------------------- MODULE FollowUpPromise ---------------------------
(***************************************************************************)
(* What a follow-up promises the person who keeps it: each conversation    *)
(* is a pile of gestures.  A gesture goes on top, undoing takes the top    *)
(* one away, and where the conversation stands is read off the pile.  The  *)
(* journal of follow_up/commands.rs never removes anything and reads its   *)
(* entries by their stamps; FollowUp shows that it amounts to this.        *)
(***************************************************************************)
EXTENDS Naturals, Sequences, FiniteSets

CONSTANTS Subjects, Gestures, None

VARIABLES pile, position, wished

promise == <<pile, position, wished>>

Advances == {"marked_sent", "step_skipped"}
Wishes == {"snoozed", "date_set"}

(* The part of a pile above its last opening of a cycle.                   *)
CycleOf(p) ==
    LET opened == {i \in 1..Len(p) : p[i].fact = "cycle_opened"}
        from == IF opened = {} THEN 0 ELSE CHOOSE i \in opened : \A j \in opened : j <= i
    IN  SubSeq(p, from + 1, Len(p))

(* How many moments the conversation has gone through in its cycle.        *)
Passed(p) == Cardinality({i \in 1..Len(CycleOf(p)) : CycleOf(p)[i].fact \in Advances})

(* The day put by hand since the last moment, if there is one.             *)
Wish(p) ==
    LET c == CycleOf(p)
        put == {i \in 1..Len(c) : /\ c[i].fact \in Wishes
                                  /\ \A j \in i..Len(c) : c[j].fact \notin Advances}
    IN  IF put = {} THEN None ELSE c[CHOOSE i \in put : \A j \in put : j <= i].until

Init == /\ pile = [s \in Subjects |-> <<>>]
        /\ position = [s \in Subjects |-> 0]
        /\ wished = [s \in Subjects |-> None]

Becomes(s, p) == /\ pile' = [pile EXCEPT ![s] = p]
                 /\ position' = [position EXCEPT ![s] = Passed(p)]
                 /\ wished' = [wished EXCEPT ![s] = Wish(p)]

(* A gesture goes on top.                                                  *)
Do(s) == \E g \in {pile'[s][n] : n \in {Len(pile'[s])} \ {0}} :
            g \in Gestures /\ Becomes(s, Append(pile[s], g))
(* The gesture on top goes.                                                *)
Undo(s) == /\ pile[s] # <<>>
           /\ Becomes(s, SubSeq(pile[s], 1, Len(pile[s]) - 1))

Next == \E s \in Subjects : Do(s) \/ Undo(s)

Spec == Init /\ [][Next]_promise
=============================================================================
