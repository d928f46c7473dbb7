------------------------------ MODULE MCSignUp ------------------------------
EXTENDS SignUp, TLC

(* "Ada" and "ada" are one address, "bob" is another. *)
Addresses == {"Ada", "ada", "bob"}
Lowercase == [s \in Addresses |-> IF s = "Ada" THEN "ada" ELSE s]

(* What may fail together: either end of the events' way, or the stores. *)
OneSideAtATime == {{}, {"stop", "store"}, {"consumer"}, {"broker"}}
Nothing == {{}}

=============================================================================
