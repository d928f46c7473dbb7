----------------------------- MODULE MCLauncher -----------------------------
(* Small instances of Launcher. *)
EXTENDS Launcher, TLC

(* services.conf with the lines of an example; DefaultScale for the others. *)
Nothing == [k \in Keys |-> 0]
Replicas == ("gateway" :> 2 @@ "user-service" :> 2 @@ "s3mock" :> 2 @@ "loadtest" :> 3)
NoGateway == [Nothing EXCEPT !["user-service"] = 1, !["loadtest"] = 1, !["booking-service"] = -1]
TwoPorts == ("postgres" :> 2 @@ "loadtest" :> 1)

TwoAtOnceOrThree ==
  {[overlap |-> TRUE, most |-> 2, ops |-> {"up", "dev", "loadtest", "down", "--force"}],
   [overlap |-> FALSE, most |-> 3, ops |-> AllOperations]}

CommandSymmetry == Permutations(Commands)

SomeConfs == {Nothing, Replicas, NoGateway, TwoPorts}

=============================================================================
