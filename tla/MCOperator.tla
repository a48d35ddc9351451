----------------------------- MODULE MCOperator -----------------------------
(***************************************************************************)
(* A small instance of Operator for TLC: two specs of the instance, with   *)
(* the fewest children, and one import without substitutions.              *)
(***************************************************************************)
EXTENDS Operator

CONSTANTS h1, h2, o1, j1

Two == <<"route", "statefulset">>

Unnamed == [host |-> NoHost, opts |-> o1]
Named == [host |-> h2, opts |-> o1]
OneSpec == {Unnamed}
TwoSpecs == {Unnamed, Named}

BareSpec == {[target |-> Instance, json |-> j1, override |-> TRUE,
              refs |-> {}, plain |-> FALSE]}
=============================================================================
