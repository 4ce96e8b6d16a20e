----------------------------- MODULE MCFollowUp -----------------------------
EXTENDS FollowUp

Hello == [key |-> "hello", gap |-> 0]
Bump == [key |-> "bump", gap |-> 1]
Alone == [key |-> "alone", gap |-> 0]

(* Two moments, or a single one.                                           *)
TwoSeries == {<<Hello, Bump>>, <<Alone>>}
OnTheDay == [i \in {"invoice"} |-> 1]
NoInvoice == [i \in {} |-> 1]
DueAndFirm == <<[key |-> "due", gap |-> 0], [key |-> "firm", gap |-> 1]>>
=============================================================================
