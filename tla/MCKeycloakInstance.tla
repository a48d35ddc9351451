------------------------- MODULE MCKeycloakInstance -------------------------
(***************************************************************************)
(* Small instances of KeycloakInstance for TLC: a spec that leaves the     *)
(* host to the Route, and one that names it.                               *)
(***************************************************************************)
EXTENDS KeycloakInstance

\* What the code writes, and the two children that are built from the spec, of
\* which one hands something on to the other.
AllFive == <<"service", "route", "statefulset", "discovery", "monitor">>
Two == <<"route", "statefulset">>

CONSTANTS h1, h2, o1

Unnamed == [host |-> NoHost, opts |-> o1]
Named == [host |-> h2, opts |-> o1]

OneSpec == {Unnamed}
TwoSpecs == {Unnamed, Named}
=============================================================================
