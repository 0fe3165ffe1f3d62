--------------------------- MODULE MCPublication ---------------------------
(* Instances of Publication for TLC. *)
EXTENDS Publication, TLC

\* Drafts, requests, sessions, kinds and names are interchangeable.
PublicationSymmetry ==
    Permutations(Draft) \union Permutations(Request) \union Permutations(Session)
        \union Permutations(Fingerprint) \union Permutations(Name) \union Permutations(Fixture)
=============================================================================
