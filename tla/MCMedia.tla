------------------------------ MODULE MCMedia ------------------------------
(* Small instances of Media. *)
EXTENDS Media

(* A file that is stored, and one for each reason to refuse one. *)
SomeFiles ==
  {[size |-> 1, type |-> "allowed"], [size |-> 1, type |-> "other"],
   [size |-> 2, type |-> "allowed"], [size |-> 3, type |-> "allowed"]}

OneKindAtATime == {{}, {"store", "database"}, {"stop"}}

=============================================================================
