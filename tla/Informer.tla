------------------------------ MODULE Informer ------------------------------
(***************************************************************************)
(* One Kubernetes object as the operator meets it: the version the API     *)
(* server holds, the version the manager's informer cache holds, and the   *)
(* versions that the watch has not delivered yet.  The operator reads      *)
(* through the cache (the client of mgr.GetClient()) and writes to the API *)
(* server, so every read may be stale and every write may be refused.      *)
(*                                                                         *)
(* A version is a record with at least the fields live (the object exists) *)
(* and rv (its resourceVersion).  A deletion writes a version with live =  *)
(* FALSE, which the watch delivers like any other.                         *)
(***************************************************************************)
EXTENDS Naturals, FiniteSets

Tracked(V) == [now: V, seen: V, pend: SUBSET V]

\* An object whose cache is in step with the API server.
InSync(v) == [now |-> v, seen |-> v, pend |-> {}]

Versions(o) == {o.now, o.seen} \cup o.pend

\* The API server stores v, under the next resourceVersion.
Put(o, v) == LET x == [v EXCEPT !.rv = o.now.rv + 1]
             IN  [o EXCEPT !.now = x, !.pend = @ \cup {x}]

Remove(o) == Put(o, [o.now EXCEPT !.live = FALSE])

\* An update that carries version v passes the optimistic lock.
Current(o, v) == o.now.live /\ o.now.rv = v.rv

\* v is what the watch delivers next: versions arrive in the order written.
NextEvent(o, v) == v \in o.pend /\ \A x \in o.pend : v.rv <= x.rv

Observe(o, v) == [o EXCEPT !.seen = v, !.pend = @ \ {v}]

\* After a restart the cache is filled by a list.
Relist(o) == InSync(o.now)

CreateEvent(old, new) == ~old.live /\ new.live
DeleteEvent(old, new) == old.live /\ ~new.live
UpdateEvent(old, new) == old.live /\ new.live
=============================================================================
