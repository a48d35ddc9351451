--------------------------- MODULE RealmLifecycle ---------------------------
(***************************************************************************)
(* What the operator promises about a realm, without caches, jobs, retries *)
(* or restarts.  A realm goes through three stages, and each one only      *)
(* moves forward: a version of it is published, a published version is     *)
(* imported into the database, and the server is rolled out for a version  *)
(* that has been imported.                                                 *)
(***************************************************************************)
EXTENDS Naturals

CONSTANTS
    Instances,   \* Keycloak instances, each with a database of its own
    Namespaces,  \* the namespaces that instances are in
    NamespaceOf, \* NamespaceOf[k]: the namespace of instance k
    Imports,     \* resources that ask for a realm
    Names,       \* their names, which are also the names of the realms
    NameOf,      \* NameOf[i]: the name of i
    Overriding   \* whether every import replaces a realm that exists

VARIABLES
    published,   \* the last published version of each realm, 0 if none
    imported,    \* the version of it that a database holds, 0 if none
    rolled       \* the version each server was last rolled out for, by import

vars == <<published, imported, rolled>>

\* A realm is published for a namespace, and not for one of its instances.
Realms == Namespaces \X Names

Init ==
    /\ published = [r \in Realms |-> 0]
    /\ imported = [r \in Realms |-> [k \in Instances |-> 0]]
    /\ rolled = [k \in Instances |-> [i \in Imports |-> 0]]

Publish(r) ==
    /\ published' = [published EXCEPT ![r] = @ + 1]
    /\ UNCHANGED <<imported, rolled>>

\* Versions may be skipped, but none comes back.
Import(r, k) ==
    /\ NamespaceOf[k] = r[1]
    /\ \E v \in 1..published[r] :
         /\ imported[r][k] < v
         /\ imported' = [imported EXCEPT ![r][k] = v]
    /\ UNCHANGED <<published, rolled>>

\* Some instance of the namespace has it.  An import that keeps an existing realm
\* counts as imported too.
Landed(r, v) ==
    \E k \in Instances : /\ NamespaceOf[k] = r[1]
                         /\ 0 < imported[r][k]
                         /\ Overriding => v <= imported[r][k]

RollOut(k, i) ==
    /\ LET r == <<NamespaceOf[k], NameOf[i]>> IN
       \E v \in 1..published[r] :
         /\ rolled[k][i] < v /\ Landed(r, v)
         /\ rolled' = [rolled EXCEPT ![k][i] = v]
    /\ UNCHANGED <<published, imported>>

\* The server is removed: the next one starts with what the database holds.
Replace(k) ==
    /\ rolled' = [rolled EXCEPT ![k] = [i \in Imports |-> 0]]
    /\ UNCHANGED <<published, imported>>

Next ==
    \/ \E r \in Realms : Publish(r) \/ \E k \in Instances : Import(r, k)
    \/ \E k \in Instances : Replace(k) \/ \E i \in Imports : RollOut(k, i)

Spec == Init /\ [][Next]_vars
=============================================================================
