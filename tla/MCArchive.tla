------------------------------ MODULE MCArchive ------------------------------
(***************************************************************************)
(* Instances of Archive for TLC; fetches, uploads, entries and deletes are *)
(* interchangeable.                                                        *)
(***************************************************************************)
EXTENDS Archive, TLC

Interchangeable ==
    Permutations(Uploads) \cup Permutations(Slots) \cup Permutations(Deletes)
        \cup Permutations(Fetches)
=============================================================================
