----------------------------- MODULE MCSessions -----------------------------
(* Small instances of Sessions. *)
EXTENDS Sessions, TLC

RequestSymmetry == Permutations(Requests)

\* The environments that the properties tell apart.
Overlapping == [faults |-> {}, overlap |-> TRUE]
Faulty      == [faults |-> {"redis", "lost"}, overlap |-> TRUE]
OneByOne    == [faults |-> {}, overlap |-> FALSE]

Every     == {Overlapping, Faulty, OneByOne}
Overlaps  == {Overlapping}
Faultiest == {Faulty}

=============================================================================
