--------------------------- MODULE MCBookingSaga ---------------------------
(* Small instances of BookingSaga. *)
EXTENDS BookingSaga, FiniteSets, TLC

\* Requests of one kind are interchangeable, where all of them arrive.
KindSymmetry ==
  Permutations(Creates) \cup Permutations(Cancels) \cup Permutations(Directs)

\* Nothing fails, cancels of one booking do not overlap, nobody calls directly.
CalmOnes ==
  [faults |-> {}, overlap |-> FALSE, directs |-> {}, creates |-> Creates]

\* Everything goes wrong at once, with one create less.
Rough ==
  [faults |-> AllFaults, overlap |-> TRUE, directs |-> Directs,
   creates |-> CHOOSE some \in SUBSET Creates : Cardinality(some) = 2]

\* Cancels of one booking overlap, and nothing else is unusual.
Overlapping == [CalmOnes EXCEPT !.overlap = TRUE]

CalmAndRough == {CalmOnes, Rough}
OnlyOverlaps == {Overlapping}

=============================================================================
