----------------------------- MODULE MCTraining -----------------------------
(***************************************************************************)
(* TLC instances of distributed training.                                  *)
(***************************************************************************)
EXTENDS Training, TLC

CONSTANTS e1, e2, c1, c2

\* The two emulators of a host, and emulators of two hosts.
OneHost == e1 :> c1 @@ e2 :> c1
TwoHosts == e1 :> c1 @@ e2 :> c2

MCFirstLayout == [i \in 1..Population |-> <<1, i>>]
Never == {FALSE}
=============================================================================
