--------------------------- MODULE MCRoutingStore ---------------------------
(* RoutingStore for TLC.  Identifiers are interchangeable.                  *)
EXTENDS RoutingStore, TLC

Interchangeable ==
    Permutations(Conversations) \cup Permutations(Responses) \cup Permutations(Attempts)
=============================================================================
