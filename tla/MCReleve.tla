------------------------------- MODULE MCReleve -------------------------------
EXTENDS Releve

(* A reply to our letter, and a report, on another list, that the address   *)
(* of the client does not receive.                                          *)
ReplyAndReport ==
    [m \in {"reply", "report"} |->
        [ref |-> IF m = "reply" THEN "letter" ELSE None, ours |-> None,
         fiches |-> {"client"}, human |-> m = "reply", listed |-> m = "reply",
         notice |-> IF m = "report" THEN "certain" ELSE None, report |-> m = "report"]]
OneLetter == [l \in {"letter"} |-> [client |-> "client", dossier |-> "dossier"]]
OneOwner == [d \in {"dossier"} |-> "client"]
=============================================================================
