---------------------------- MODULE MCAdmission ----------------------------
(***************************************************************************)
(* Instances of Admission for TLC.  Requests, visits and addresses are     *)
(* interchangeable, and nothing compares them but for equality.            *)
(***************************************************************************)
EXTENDS Admission, TLC

Interchangeable ==
    Permutations(Requests) \cup Permutations(Visits) \cup Permutations(Clients)

Give(e, m, h) == [expires |-> e, max_downloads |-> m, password |-> h]

\* A share is created with any lifetime and limit and without a password
AnyOffer == {Give(e, m, NULL) : e \in Lifetimes \cup {NULL}, m \in Limits}

\* Shares with and without a limit; an update changes one setting or all three,
\* and a lifetime of 2 is too large once a tick has passed
FewSettings ==
    {Give(1, m, NULL) : m \in Limits}
        \cup {Give(1, Keep, Keep), Give(NULL, Keep, Keep)}
        \cup {Give(Keep, m, Keep) : m \in Limits}
        \cup {Give(Keep, Keep, h) : h \in Hashes}
        \cup {Give(2, 1, NULL)}
=============================================================================
