---------------------------- MODULE MCTcpTraining ----------------------------
(***************************************************************************)
(* TLC instances of training over TCP.                                     *)
(***************************************************************************)
EXTENDS TcpTraining, TLC

CONSTANTS e1, e2, c1

OneHost == e1 :> c1 @@ e2 :> c1

MCFirstLayout == [i \in 1..Population |-> <<1, i>>]
Never == {FALSE}
=============================================================================
