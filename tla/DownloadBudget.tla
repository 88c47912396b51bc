--------------------------- MODULE DownloadBudget ---------------------------
(***************************************************************************)
(* What the owner of a share is promised, with no handlers, sessions or    *)
(* locks: a share that is open has a budget of downloads; a recipient      *)
(* either pays for one download out of it, once, and may then be served    *)
(* any number of times, or is never served; a closed share takes no more   *)
(* payments.  Admission implements this specification.                     *)
(***************************************************************************)
EXTENDS Naturals, FiniteSets

CONSTANTS ShareIds, Payers, Limits, NULL

VARIABLES
    phase,      \* "unpublished", "open" or "closed"
    limit,      \* the budget of an open share, NULL when unlimited
    paid,       \* who paid for a download of the share
    delivered   \* who was served the share

budgetVars == <<phase, limit, paid, delivered>>

Init ==
    /\ phase = [s \in ShareIds |-> "unpublished"]
    /\ limit = [s \in ShareIds |-> NULL]
    /\ paid = [s \in ShareIds |-> {}]
    /\ delivered = [s \in ShareIds |-> {}]

Publish(s, l) ==
    /\ phase[s] = "unpublished"
    /\ phase' = [phase EXCEPT ![s] = "open"]
    /\ limit' = [limit EXCEPT ![s] = l]
    /\ UNCHANGED <<paid, delivered>>

\* The owner may move the limit at will, below what was paid too
SetLimit(s, l) ==
    /\ phase[s] = "open"
    /\ limit' = [limit EXCEPT ![s] = l]
    /\ UNCHANGED <<phase, paid, delivered>>

Close(s) ==
    /\ phase' = [phase EXCEPT ![s] = "closed"]
    /\ limit' = [limit EXCEPT ![s] = NULL]
    /\ UNCHANGED <<paid, delivered>>

\* Nobody pays twice, and no payment exceeds the budget
Pay(s, p) ==
    /\ phase[s] = "open"
    /\ \A t \in ShareIds : p \notin paid[t]
    /\ limit[s] = NULL \/ Cardinality(paid[s]) < limit[s]
    /\ paid' = [paid EXCEPT ![s] = @ \cup {p}]
    /\ UNCHANGED <<phase, limit, delivered>>

\* Whoever paid may be served, also after the share was closed
Deliver(s, p) ==
    /\ p \in paid[s]
    /\ delivered' = [delivered EXCEPT ![s] = @ \cup {p}]
    /\ UNCHANGED <<phase, limit, paid>>

Next ==
    \E s \in ShareIds :
        \/ \E l \in Limits \cup {NULL} : Publish(s, l) \/ SetLimit(s, l)
        \/ Close(s)
        \/ \E p \in Payers : Pay(s, p) \/ Deliver(s, p)

Spec == Init /\ [][Next]_budgetVars
=============================================================================
