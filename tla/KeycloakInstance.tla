-------------------------- MODULE KeycloakInstance --------------------------
(***************************************************************************)
(* The Keycloak controller: one worker that reconciles a Keycloak resource *)
(* into a Service, a Route, a StatefulSet, a discovery Service and a       *)
(* ServiceMonitor, with the parts of the cluster it reacts to: users, the  *)
(* API server, informer caches, the garbage collector, the StatefulSet     *)
(* controller and the KeycloakImport controller, which annotates the       *)
(* StatefulSet.                                                            *)
(*                                                                         *)
(* A reconcile is a sequence of steps, one for each request it sends to    *)
(* the API server; every other actor may move between two of them.         *)
(***************************************************************************)
EXTENDS Informer, Sequences

CONSTANTS
    Order,        \* the children, in the order in which a reconcile writes them
    Hosts,        \* hostnames
    NoHost,       \* the empty hostname
    Generated,    \* the hostname a Route gets when it is created without one
    Options,      \* everything else in the spec of a Keycloak
    ByName,       \* what is built from the name of the resource alone
    Edited,       \* what a user wrote over the work of the controller
    Specs,        \* the specs that users write
    Versioned,    \* the kinds whose objects have a generation that counts
    MaxLag,       \* bound: versions of an object that a watch may be behind
    MaxEdits,     \* bound: creations and edits of the resource by users
    MaxDisturbances,
                  \* bound: deletions of it, writes and deletions of its children
                  \* by users, and restarts of the operator, all together
    MaxCollects,  \* bound: children removed by the garbage collector
    MaxTouches    \* bound: status updates and rollouts of the StatefulSet

KeycloakSpec == [host: Hosts \cup {NoHost}, opts: Options]

AllKinds == {"service", "route", "statefulset", "discovery", "monitor"}
Kinds == {Order[n] : n \in 1..Len(Order)}

ASSUME ConstantsAssumption ==
    /\ Order \in Seq(AllKinds) /\ {"route", "statefulset"} \subseteq Kinds
    /\ \A m, n \in 1..Len(Order) : Order[m] = Order[n] => m = n
    /\ \A m, n \in 1..Len(Order) :
          Order[m] = "route" /\ Order[n] = "statefulset" => m < n
    /\ NoHost \notin Hosts /\ Generated \in Hosts
    /\ Specs # {} /\ Specs \subseteq KeycloakSpec
    /\ Edited \notin Specs \cup {ByName}
    /\ Versioned \subseteq AllKinds \ {"statefulset"}
    /\ {MaxLag, MaxEdits, MaxDisturbances, MaxCollects, MaxTouches}
          \subseteq Nat

(***************************************************************************)
(* The objects.                                                            *)
(*   uid of a Keycloak: tells apart resources that had the same name;      *)
(*   owner of a child: the uid in its controller reference;                *)
(*   built: what Build made the child from, or Edited;                     *)
(*   host: the host of the Route, KC_HOSTNAME of the StatefulSet;          *)
(*   ann: the rollouts in the pod template annotations;                    *)
(*   pods: Replicas and ReadyReplicas in the status of the StatefulSet:    *)
(*     none (0 and 0), starting (fewer ready), serving (all, at least one).*)
(***************************************************************************)
Status == {"unset", "ready", "waiting", "error"}

KeycloakObj == [live: BOOLEAN, rv: Nat, uid: Nat, spec: Specs, status: Status]
ChildObj == [live: BOOLEAN, rv: Nat, owner: Nat,
             built: Specs \cup {ByName, Edited},
             host: Hosts \cup {NoHost}, ann: Nat,
             pods: {"none", "starting", "serving"}]

VARIABLES
    keycloak, children,
    queue,    \* whether the resource is in the controller's workqueue
    w,        \* the worker
    used      \* how much of each bound is used up

vars == <<keycloak, children, queue, w, used>>

Worker == [pc: {"idle", "get", "status"} \cup Kinds, cr: KeycloakObj,
           host: Hosts \cup {NoHost}, up: BOOLEAN, status: Status]

TypeOK ==
    /\ keycloak \in Tracked(KeycloakObj)
    /\ children \in [Kinds -> Tracked(ChildObj)]
    /\ queue \in BOOLEAN
    /\ w \in Worker
    /\ used \in [edits: Nat, disturbances: Nat, collects: Nat, touches: Nat]

-----------------------------------------------------------------------------
SomeSpec == CHOOSE s \in Specs : TRUE

NoKeycloak == [live |-> FALSE, rv |-> 0, uid |-> 0, spec |-> SomeSpec,
               status |-> "unset"]
NoChild == [live |-> FALSE, rv |-> 0, owner |-> 0, built |-> ByName,
            host |-> NoHost, ann |-> 0, pods |-> "none"]

\* Between two reconciles the worker keeps nothing.
Idle == [pc |-> "idle", cr |-> NoKeycloak, host |-> NoHost, up |-> FALSE,
         status |-> "unset"]

Init ==
    /\ keycloak = InSync(NoKeycloak)
    /\ children = [k \in Kinds |-> InSync(NoChild)]
    /\ queue = FALSE
    /\ w = Idle
    /\ used = [edits |-> 0, disturbances |-> 0, collects |-> 0, touches |-> 0]

Room(o) == Cardinality(o.pend) < MaxLag

Disturb == /\ used.disturbances < MaxDisturbances
           /\ used' = [used EXCEPT !.disturbances = @ + 1]

-----------------------------------------------------------------------------
(***************************************************************************)
(* What the children are built from.                                       *)
(***************************************************************************)

\* IsStatefulSetReady: ReadyReplicas = Replicas, of the status as returned.
IsStatefulSetReady(sts) == sts.pods # "starting"

\* The API server gives a Route a host, and ignores attempts to clear it.
AdmittedHost(host, old) == IF host # NoHost THEN host
                           ELSE IF old.live THEN old.host ELSE Generated

\* RHBKStatefulSet.Build: the annotations of the template are carried over.
BuildStatefulSetAfresh(old) ==
    [old EXCEPT !.built = w.cr.spec, !.host = w.host, !.ann = 0]

BuildStatefulSet(old) ==
    [old EXCEPT !.built = w.cr.spec, !.host = w.host]

\* RHBKRoute.Build
BuildRouteFromHost(old) == [old EXCEPT !.built = w.cr.spec.host,
                                       !.host = w.cr.spec.host]

BuildRoute(old) == [old EXCEPT !.built = ByName,
                               !.host = AdmittedHost(w.cr.spec.host, old)]

\* RHBKService.Build, RHBKDiscoveryService.Build, ServiceMonitorResource.mutateFn
BuildService(old) == [old EXCEPT !.built = ByName]
BuildDiscoveryService(old) == [old EXCEPT !.built = ByName]
BuildServiceMonitor(old) == [old EXCEPT !.built = ByName]

Build(k, old) ==
    CASE k = "service"     -> BuildService(old)
      [] k = "route"       -> BuildRoute(old)
      [] k = "statefulset" -> BuildStatefulSet(old)
      [] k = "discovery"   -> BuildDiscoveryService(old)
      [] k = "monitor"     -> BuildServiceMonitor(old)

\* SetControllerReference: the controller reference names the resource, and a
\* child with a reference of the same name, to a Keycloak that is gone, is taken
\* over.  The children have no other controllers.
SetControllerReference(child) == [child EXCEPT !.owner = w.cr.uid]

-----------------------------------------------------------------------------
(***************************************************************************)
(* The reconciler, KeycloakReconciler.Reconcile.                           *)
(***************************************************************************)
At(pc) == w.pc = pc

\* The reconcile returns no error: the key is forgotten.
Done == w' = Idle /\ UNCHANGED queue

\* The reconcile returns an error: the key is queued again.
Requeue == w' = Idle /\ queue' = TRUE

\* HandleSuccess and HandleError set the condition, then update the status.
\* An error that HandleError is told of is not returned.
Report(status) == w' = [w EXCEPT !.pc = "status", !.status = status]

Dequeue ==
    /\ At("idle") /\ queue
    /\ w' = [w EXCEPT !.pc = "get"]
    /\ queue' = FALSE
    /\ UNCHANGED <<keycloak, children, used>>

GetKeycloak ==
    /\ At("get")
    /\ \/ ~keycloak.seen.live /\ Done
       \/ /\ keycloak.seen.live
          /\ w' = [w EXCEPT !.pc = Order[1], !.cr = keycloak.seen]
          /\ UNCHANGED queue
    /\ UNCHANGED <<keycloak, children, used>>

After(k) == LET n == CHOOSE n \in 1..Len(Order) : Order[n] = k
            IN  IF n = Len(Order) THEN "status" ELSE Order[n + 1]

\* The reconcile goes on with child, the object that the API server returned.
Proceed(k, child) ==
    LET up == IF k = "statefulset" THEN IsStatefulSetReady(child) ELSE w.up
    IN  w' = [w EXCEPT !.pc = After(k), !.up = up,
                       !.status = IF up THEN "ready" ELSE "waiting",
                       !.host = IF k = "route" THEN child.host ELSE @]

\* controllerutil.CreateOrUpdate: read through the cache, Build, and create
\* or update.  The API server fills in defaults that Build leaves out, so that
\* an update is sent even when nothing changes, and then writes nothing; a
\* ServiceMonitor has no defaults.
CreateOrUpdate(k) ==
    /\ At(k)
    /\ LET o == children[k]
           old == IF o.seen.live THEN o.seen ELSE NoChild
           new == SetControllerReference([Build(k, old) EXCEPT !.live = TRUE])
           written == Put(o, new)
           needed == new # old
           sent == needed \/ k # "monitor"
           accepted == IF old.live THEN Current(o, old) ELSE ~o.now.live
       IN  \/ /\ sent /\ ~accepted
              /\ Report("error")
              /\ UNCHANGED children
           \/ /\ accepted /\ needed /\ Room(o)
              /\ children' = [children EXCEPT ![k] = written]
              /\ Proceed(k, written.now)
           \/ /\ sent => accepted
              /\ ~needed
              /\ Proceed(k, old)
              /\ UNCHANGED children
    /\ UNCHANGED <<keycloak, queue, used>>

\* Status().Update at the end of HandleSuccess and HandleError.  The condition
\* carries a new time stamp, so that the update is never a repetition.
UpdateStatus ==
    /\ At("status")
    /\ \/ /\ Current(keycloak, w.cr) /\ Room(keycloak)
          /\ keycloak' = Put(keycloak,
                             [keycloak.now EXCEPT !.status = w.status])
          /\ Done
       \/ /\ ~Current(keycloak, w.cr)
          /\ Requeue
          /\ UNCHANGED keycloak
    /\ UNCHANGED <<children, used>>

Reconcile == \/ Dequeue \/ GetKeycloak \/ UpdateStatus
             \/ \E k \in Kinds : CreateOrUpdate(k)

-----------------------------------------------------------------------------
(***************************************************************************)
(* Watches.  An event updates the cache; one that passes the predicates of *)
(* SetupWithManager queues the resource, for a child by its owner's name.  *)
(***************************************************************************)

\* GenerationChangedPredicate looks at updates only.
ObserveKeycloak ==
    /\ \E v \in keycloak.pend :
         /\ NextEvent(keycloak, v)
         /\ keycloak' = Observe(keycloak, v)
         /\ LET old == keycloak.seen
                passes == UpdateEvent(old, v) => old.spec # v.spec
            IN  queue' = (queue \/ passes)
    /\ UNCHANGED <<children, w, used>>

\* The status of a StatefulSet is not part of its generation: the predicate
\* passes deletions, and the update that makes it ready.
StatefulSetPassesDelete(old, new) == DeleteEvent(old, new)

StatefulSetPassesReady(old, new) ==
    /\ UpdateEvent(old, new)
    /\ ~IsStatefulSetReady(old) /\ IsStatefulSetReady(new)

StatefulSetPasses(old, new) ==
    \/ DeleteEvent(old, new)
    \/ /\ UpdateEvent(old, new)
       /\ ~IsStatefulSetReady(old) /\ IsStatefulSetReady(new)

ChildPasses(k, old, new) ==
    IF k = "statefulset" THEN StatefulSetPasses(old, new)
    ELSE UpdateEvent(old, new) => /\ k \in Versioned
                                  /\ <<old.built, old.host>> #
                                     <<new.built, new.host>>

ObserveChild(k) ==
    /\ \E v \in children[k].pend :
         /\ NextEvent(children[k], v)
         /\ children' = [children EXCEPT ![k] = Observe(@, v)]
         /\ queue' = (queue \/ ChildPasses(k, children[k].seen, v))
    /\ UNCHANGED <<keycloak, w, used>>

\* The process ends in the middle of anything and starts again: caches are
\* filled by a list, and the resource is queued by its create event.
Restart ==
    /\ Disturb
    /\ keycloak' = Relist(keycloak)
    /\ children' = [k \in Kinds |-> Relist(children[k])]
    /\ queue' = (keycloak.now.live \/ \E k \in Kinds \ {"statefulset"} :
                                          children[k].now.live)
    /\ w' = Idle

-----------------------------------------------------------------------------
(***************************************************************************)
(* The cluster around the controller.                                      *)
(***************************************************************************)
UserWrites ==
    /\ used.edits < MaxEdits
    /\ used' = [used EXCEPT !.edits = @ + 1]
    /\ Room(keycloak)
    /\ LET v == keycloak.now IN
       \/ /\ ~v.live
          /\ \E spec \in Specs :
               keycloak' = Put(keycloak, [NoKeycloak EXCEPT
                   !.live = TRUE, !.uid = v.rv + 1, !.spec = spec])
       \/ /\ v.live
          /\ \E spec \in Specs \ {v.spec} :
               keycloak' = Put(keycloak, [v EXCEPT !.spec = spec])
    /\ UNCHANGED <<children, queue, w>>

UserDeletes ==
    /\ Disturb
    /\ keycloak.now.live /\ Room(keycloak)
    /\ keycloak' = Put(keycloak, NoKeycloak)
    /\ UNCHANGED <<children, queue, w>>

\* A user edits or deletes a child behind the controller's back.
UserDrifts(k) ==
    /\ Disturb
    /\ LET o == children[k] IN
       /\ o.now.live /\ Room(o)
       /\ \/ children' = [children EXCEPT ![k] = Put(o, NoChild)]
          \/ \E host \in IF k = "route" THEN Hosts ELSE {o.now.host} :
               children' = [children EXCEPT ![k] =
                   Put(o, [o.now EXCEPT !.built = Edited, !.host = host])]
    /\ UNCHANGED <<keycloak, queue, w>>

\* The garbage collector removes the children of a resource that is gone.
Orphan(k) == /\ children[k].now.live
             /\ keycloak.now.live => children[k].now.owner # keycloak.now.uid

Collect(k) ==
    /\ used.collects < MaxCollects
    /\ used' = [used EXCEPT !.collects = @ + 1]
    /\ Orphan(k) /\ Room(children[k])
    /\ children' = [children EXCEPT ![k] = Put(@, NoChild)]
    /\ UNCHANGED <<keycloak, queue, w>>

\* Writes to the StatefulSet by others.
Touch(new) ==
    /\ used.touches < MaxTouches
    /\ used' = [used EXCEPT !.touches = @ + 1]
    /\ children["statefulset"].now.live /\ Room(children["statefulset"])
    /\ children' = [children EXCEPT !["statefulset"] = Put(@, new)]
    /\ UNCHANGED <<keycloak, queue, w>>

\* The StatefulSet controller updates the status, with or without a change of
\* the number of ready replicas.  A pod is counted before it is ready.
UpdatePods ==
    LET sts == children["statefulset"].now IN
    \E pods \in {"starting", "serving"} :
        /\ sts.pods = "none" => pods = "starting"
        /\ Touch([sts EXCEPT !.pods = pods])

\* The import controller adds an annotation in rolloutChanges.
RollOut == Touch([children["statefulset"].now EXCEPT !.ann = @ + 1])

Next ==
    \/ Reconcile
    \/ ObserveKeycloak
    \/ \E k \in Kinds : ObserveChild(k) \/ UserDrifts(k) \/ Collect(k)
    \/ Restart
    \/ UserWrites \/ UserDeletes
    \/ UpdatePods \/ RollOut

Spec == Init /\ [][Next]_vars

-----------------------------------------------------------------------------
(***************************************************************************)
(* Properties.                                                             *)
(***************************************************************************)

\* Reconciling an instance never takes back the rollout of an import: Build
\* carries the annotations of the template over, and an update from a stale
\* cache is refused.  The import controller relies on it.
RolloutsSurvive ==
    [][LET v == children["statefulset"].now
           x == children'["statefulset"].now
       IN  v.live /\ x.live => x.ann >= v.ann]_vars

\* Nothing is under way: caches are up to date, the queue is empty, there is
\* no garbage, and the StatefulSet controller has seen the StatefulSet.
Quiescent ==
    /\ At("idle") /\ ~queue
    /\ keycloak.pend = {}
    /\ \A k \in Kinds : children[k].pend = {} /\ ~Orphan(k)
    /\ children["statefulset"].now.live
          => children["statefulset"].now.pods # "none"

\* An edit of an object whose generation does not count raises no event.
Unnoticed(k) == k \notin Versioned /\ children[k].now.built = Edited

\* Every child is there, belongs to this Keycloak and not to a predecessor of the
\* same name, and is built from its spec, and the server knows itself by the host
\* of the Route.
Settled ==
    LET sts == children["statefulset"].now
        route == children["route"].now
    IN  /\ \A k \in Kinds : /\ children[k].now.live
                            /\ children[k].now.owner = keycloak.now.uid
                            /\ children[k].now.built # Edited \/ Unnoticed(k)
        /\ sts.built = keycloak.now.spec \/ Unnoticed("statefulset")
        /\ \/ /\ sts.host = route.host
              /\ keycloak.now.spec.host \in {route.host, NoHost}
           \/ Unnoticed("route")

\* No change is missed: once everything has come to rest, a Keycloak that does
\* not report an error has all its children in their place, also after it was
\* deleted and created again under the same name, when it takes over those of
\* its predecessor that the garbage collector has left, although that is an
\* update without an event; and it is not left waiting for pods that are ready.
NothingMissed ==
    Quiescent /\ keycloak.now.live /\ keycloak.now.status # "error"
    => /\ Settled
       /\ keycloak.now.status = "waiting"
             => ~IsStatefulSetReady(children["statefulset"].now)

\* "Don't do anything if rhbk instance is not ready": an instance that reports
\* Ready, which is all that the import controller looks at, has its pods ready
\* once everything has come to rest.
ReadyMeansServing ==
    Quiescent /\ keycloak.now.live /\ keycloak.now.status = "ready"
    => children["statefulset"].now.pods = "serving"
=============================================================================
