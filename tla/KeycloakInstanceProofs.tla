----------------------- MODULE KeycloakInstanceProofs -----------------------
(***************************************************************************)
(* Theorems about the Keycloak controller, for any order and number of     *)
(* children.                                                               *)
(***************************************************************************)
EXTENDS KeycloakInstance, InformerProofs

(***************************************************************************)
(* Type correctness, together with the optimistic lock of every child.     *)
(***************************************************************************)
ChildrenInv == TypeOK /\ \A k \in Kinds : Locked(children[k])

\* The first child exists, and a reconcile goes on with a child or the status.
LEMMA OrderType ==
    /\ Order[1] \in Kinds /\ "statefulset" \in Kinds
    /\ \A k \in Kinds : After(k) \in {"status"} \cup Kinds
<1>1. Order \in Seq(AllKinds) /\ {"route", "statefulset"} \subseteq Kinds
  BY ConstantsAssumption
<1>2. Len(Order) \in Nat
  BY <1>1
<1>3. 1 \in 1..Len(Order)
  BY <1>1, <1>2 DEF Kinds
<1>4. ASSUME NEW k \in Kinds PROVE After(k) \in {"status"} \cup Kinds
  <2> DEFINE m == CHOOSE n \in 1..Len(Order) : Order[n] = k
  <2>1. m \in 1..Len(Order)
    BY DEF Kinds
  <2>2. m # Len(Order) => m + 1 \in 1..Len(Order)
    BY <1>2, <2>1
  <2>3. After(k) = IF m = Len(Order) THEN "status" ELSE Order[m + 1]
    BY DEF After
  <2> HIDE DEF m
  <2> QED  BY <2>2, <2>3 DEF Kinds
<1> QED  BY <1>1, <1>3, <1>4 DEF Kinds

\* The values that stand for absent objects, and the idle worker.
LEMMA Absent ==
    NoKeycloak \in KeycloakObj /\ NoChild \in ChildObj /\ Idle \in Worker
<1>1. SomeSpec \in Specs
  BY ConstantsAssumption DEF SomeSpec
<1>2. NoKeycloak \in KeycloakObj /\ NoChild \in ChildObj
  BY <1>1 DEF NoKeycloak, KeycloakObj, NoChild, ChildObj, Status
<1> QED  BY <1>2 DEF Idle, Worker, Status

\* The initial states.
LEMMA InitInv == Init => ChildrenInv
<1> SUFFICES ASSUME Init PROVE ChildrenInv
  OBVIOUS
<1>1. keycloak \in Tracked(KeycloakObj)
  BY Absent, InSyncType DEF Init
<1>2. children \in [Kinds -> Tracked(ChildObj)]
  BY Absent, InSyncType DEF Init
<1>3. /\ queue \in BOOLEAN /\ w \in Worker
      /\ used \in [edits: Nat, disturbances: Nat, collects: Nat, touches: Nat]
  BY Absent DEF Init
<1>4. NoChild.rv \in Nat
  BY DEF NoChild
<1>5. \A k \in Kinds : Locked(children[k])
  BY <1>4, InSyncLocked DEF Init
<1> QED  BY <1>1, <1>2, <1>3, <1>5 DEF ChildrenInv, TypeOK

\* A version of a child, stored under a new resourceVersion, is a child.
LEMMA StoreChild ==
    ASSUME NEW o \in Tracked(ChildObj), Locked(o), NEW v \in ChildObj
    PROVE  /\ Put(o, v) \in Tracked(ChildObj) /\ Locked(Put(o, v))
           /\ Put(o, v).now = [v EXCEPT !.rv = o.now.rv + 1]
           /\ Put(o, v).now \in ChildObj
<1>1. o.now \in ChildObj
  BY DEF Tracked
<1>2. [v EXCEPT !.rv = o.now.rv + 1] \in ChildObj
  BY <1>1 DEF ChildObj
<1>3. Put(o, v).now = [v EXCEPT !.rv = o.now.rv + 1]
  BY PutVersions
<1>4. Put(o, v).now.rv = o.now.rv + 1
  BY <1>3 DEF ChildObj
<1> QED  BY <1>2, <1>3, <1>4, PutType, PutLocked

\* The same for the Keycloak resource.
LEMMA StoreKeycloak ==
    ASSUME NEW o \in Tracked(KeycloakObj), NEW v \in KeycloakObj
    PROVE  Put(o, v) \in Tracked(KeycloakObj)
<1>1. o.now \in KeycloakObj
  BY DEF Tracked
<1>2. [v EXCEPT !.rv = o.now.rv + 1] \in KeycloakObj
  BY <1>1 DEF KeycloakObj
<1> QED  BY <1>2, PutType

\* The steps of a reconcile that write no child.
LEMMA ReadInv ==
    ASSUME ChildrenInv, Dequeue \/ GetKeycloak \/ UpdateStatus
    PROVE  ChildrenInv'
<1> USE DEF ChildrenInv, TypeOK
<1>1. CASE Dequeue
  <2>1. w' \in Worker
    BY <1>1 DEF Dequeue, Worker
  <2> QED  BY <1>1, <2>1 DEF Dequeue
<1>2. CASE GetKeycloak
  <2>1. keycloak.seen \in KeycloakObj
    BY DEF Tracked
  <2>2. [w EXCEPT !.pc = Order[1], !.cr = keycloak.seen] \in Worker
    BY <2>1, OrderType DEF Worker
  <2>3. w' \in Worker
    BY <1>2, <2>2, Absent DEF GetKeycloak, Done
  <2> QED  BY <1>2, <2>3 DEF GetKeycloak, Done
<1>3. CASE UpdateStatus
  <2>1. keycloak.now \in KeycloakObj /\ w.status \in Status
    BY DEF Tracked, Worker
  <2>2. [keycloak.now EXCEPT !.status = w.status] \in KeycloakObj
    BY <2>1 DEF KeycloakObj
  <2>3. Put(keycloak, [keycloak.now EXCEPT !.status = w.status])
           \in Tracked(KeycloakObj)
    BY <2>2, StoreKeycloak
  <2> QED  BY <1>3, <2>3, Absent DEF UpdateStatus, Done, Requeue
<1> QED  BY <1>1, <1>2, <1>3

\* What a reconcile writes to a child.
Written(k, old) == SetControllerReference([Build(k, old) EXCEPT !.live = TRUE])

\* Build makes a child out of a child, and takes no annotation away.
LEMMA BuildType ==
    ASSUME TypeOK, NEW k \in Kinds, NEW old \in ChildObj
    PROVE  /\ Written(k, old) \in ChildObj
           /\ Written(k, old).ann = old.ann /\ Written(k, old).live
<1>1. /\ w.cr.spec \in Specs /\ w.cr.uid \in Nat
      /\ w.host \in Hosts \cup {NoHost}
      /\ w.cr.spec.host \in Hosts \cup {NoHost}
  <2>1. w.cr \in KeycloakObj /\ w.host \in Hosts \cup {NoHost}
    BY DEF TypeOK, Worker
  <2>2. w.cr.spec \in Specs /\ w.cr.uid \in Nat
    BY <2>1 DEF KeycloakObj
  <2>3. w.cr.spec \in KeycloakSpec
    BY <2>2, ConstantsAssumption
  <2> QED  BY <2>1, <2>2, <2>3 DEF KeycloakSpec
<1>2. k \in AllKinds
  BY ConstantsAssumption DEF Kinds
<1>3. AdmittedHost(w.cr.spec.host, old) \in Hosts \cup {NoHost}
  BY <1>1, ConstantsAssumption DEF AdmittedHost, ChildObj
<1>4. Build(k, old) \in ChildObj /\ Build(k, old).ann = old.ann
  <2>1. CASE k = "service"
    BY <2>1 DEF Build, BuildService, ChildObj
  <2>2. CASE k = "route"
    BY <1>3, <2>2 DEF Build, BuildRoute, ChildObj
  <2>3. CASE k = "statefulset"
    BY <1>1, <2>3 DEF Build, BuildStatefulSet, ChildObj
  <2>4. CASE k = "discovery"
    BY <2>4 DEF Build, BuildDiscoveryService, ChildObj
  <2>5. CASE k = "monitor"
    BY <2>5 DEF Build, BuildServiceMonitor, ChildObj
  <2> QED  BY <1>2, <2>1, <2>2, <2>3, <2>4, <2>5 DEF AllKinds
<1> QED  BY <1>1, <1>4 DEF Written, SetControllerReference, ChildObj

\* The worker after a child.
LEMMA ProceedType ==
    ASSUME TypeOK, NEW k \in Kinds, NEW child \in ChildObj, Proceed(k, child)
    PROVE  w' \in Worker
<1>1. child.host \in Hosts \cup {NoHost}
  BY DEF ChildObj
<1>2. After(k) \in {"status"} \cup Kinds
  BY OrderType
<1>3. IsStatefulSetReady(child) \in BOOLEAN
  BY DEF IsStatefulSetReady
<1> QED  BY <1>1, <1>2, <1>3 DEF Proceed, TypeOK, Worker, Status

\* What a step does to a child that exists before and after it.
Kept == \A l \in Kinds : children[l].now.live /\ children'[l].now.live =>
            children'[l].now.ann >= children[l].now.ann

\* A step that writes no child keeps them all.
LEMMA KeptAll ==
    ASSUME TypeOK, \A l \in Kinds : children'[l].now = children[l].now
    PROVE  Kept
<1>1. \A l \in Kinds : children[l].now.ann \in Nat
  BY DEF TypeOK, Tracked, ChildObj
<1> QED  BY <1>1 DEF Kept

\* A child that a reconcile replaces keeps its annotations: the update was made
\* from the version that is stored.
LEMMA WriteInv ==
    ASSUME ChildrenInv, NEW k \in Kinds, CreateOrUpdate(k)
    PROVE  ChildrenInv' /\ Kept
<1> DEFINE o == children[k]
           old == IF o.seen.live THEN o.seen ELSE NoChild
           new == Written(k, old)
           accepted == IF old.live THEN Current(o, old) ELSE ~o.now.live
<1>1. /\ o \in Tracked(ChildObj) /\ Locked(o)
      /\ o.now \in ChildObj /\ o.seen \in ChildObj
  BY DEF ChildrenInv, TypeOK, Tracked
<1>2. old \in ChildObj
  BY <1>1, Absent
<1>3. new \in ChildObj /\ new.ann = old.ann /\ new.live
  <2> HIDE DEF old
  <2> QED  BY <1>2, BuildType DEF ChildrenInv
<1>4. UNCHANGED <<keycloak, queue, used>>
  BY DEF CreateOrUpdate
<1>5. \/ Report("error") /\ UNCHANGED children
      \/ /\ accepted
         /\ children' = [children EXCEPT ![k] = Put(o, new)]
         /\ Proceed(k, Put(o, new).now)
      \/ Proceed(k, old) /\ UNCHANGED children
  BY DEF CreateOrUpdate, Written
<1>6. o.now.live /\ accepted => old = o.now
  <2>1. NoChild.live = FALSE
    BY DEF NoChild
  <2>2. o.now.live /\ accepted => o.seen.live /\ Current(o, o.seen)
    BY <2>1
  <2> HIDE DEF o
  <2> QED  BY <1>1, <2>2, Accepted
<1>7. \A l \in Kinds : children[l].now \in ChildObj
  BY DEF ChildrenInv, TypeOK, Tracked
<1>8. CASE UNCHANGED children
  <2>1. w' \in Worker
    <3>1. CASE Report("error")
      BY <3>1 DEF Report, ChildrenInv, TypeOK, Worker, Status
    <3>2. CASE Proceed(k, old)
      <4> HIDE DEF old
      <4> QED  BY <1>2, <3>2, ProceedType DEF ChildrenInv
    <3>3. CASE Proceed(k, Put(o, new).now)
      <4>1. Put(o, new).now \in ChildObj
        <5> HIDE DEF o, new
        <5> QED  BY <1>1, <1>3, StoreChild
      <4> HIDE DEF o, new
      <4> QED  BY <3>3, <4>1, ProceedType DEF ChildrenInv
    <3> QED  BY <1>5, <3>1, <3>2, <3>3
  <2> HIDE DEF o, old, new, accepted
  <2>2. \A l \in Kinds : children[l].now.ann \in Nat
    BY <1>7 DEF ChildObj
  <2> QED  BY <1>4, <1>8, <2>1, <2>2 DEF ChildrenInv, TypeOK, Kept
<1>9. CASE /\ accepted
           /\ children' = [children EXCEPT ![k] = Put(o, new)]
           /\ Proceed(k, Put(o, new).now)
  <2>1. /\ Put(o, new) \in Tracked(ChildObj) /\ Locked(Put(o, new))
        /\ Put(o, new).now = [new EXCEPT !.rv = o.now.rv + 1]
        /\ Put(o, new).now \in ChildObj
    <3> HIDE DEF o, new
    <3> QED  BY <1>1, <1>3, StoreChild
  <2>2. Put(o, new).now.ann = new.ann
    <3> HIDE DEF o, new
    <3> QED  BY <1>3, <2>1 DEF ChildObj
  <2>3. w' \in Worker
    <3> HIDE DEF o, new
    <3> QED  BY <1>9, <2>1, ProceedType DEF ChildrenInv
  <2>4. o.now.live => new.ann = o.now.ann
    BY <1>3, <1>6, <1>9
  <2> HIDE DEF new, old, accepted
  <2>5. /\ children' \in [Kinds -> Tracked(ChildObj)]
        /\ \A l \in Kinds : Locked(children'[l])
    BY <1>9, <2>1 DEF ChildrenInv, TypeOK
  <2>6. \A l \in Kinds : children[l].now.ann \in Nat
    BY <1>7 DEF ChildObj
  <2>7. \A l \in Kinds : children'[l] = IF l = k THEN Put(o, new) ELSE children[l]
    BY <1>9 DEF ChildrenInv, TypeOK
  <2>8. Kept
    BY <2>2, <2>4, <2>6, <2>7 DEF Kept
  <2> QED  BY <1>4, <2>3, <2>5, <2>8 DEF ChildrenInv, TypeOK
<1> QED  BY <1>5, <1>8, <1>9

\* The watches, and a restart.
LEMMA WatchInv ==
    ASSUME ChildrenInv,
           ObserveKeycloak \/ Restart \/ \E k \in Kinds : ObserveChild(k)
    PROVE  ChildrenInv' /\ Kept
<1> USE DEF ChildrenInv, TypeOK
<1>1. CASE ObserveKeycloak
  <2>1. PICK v \in keycloak.pend : keycloak' = Observe(keycloak, v)
    BY <1>1 DEF ObserveKeycloak
  <2>2. keycloak' \in Tracked(KeycloakObj)
    BY <2>1, ObserveType
  <2>3. queue' \in BOOLEAN /\ UNCHANGED <<children, w, used>>
    BY <1>1 DEF ObserveKeycloak
  <2> QED  BY <2>2, <2>3, KeptAll
<1>2. CASE Restart
  <2>1. keycloak' \in Tracked(KeycloakObj)
    BY <1>2, RelistType DEF Restart
  <2>2. \A k \in Kinds : /\ children'[k] \in Tracked(ChildObj)
                         /\ Locked(children'[k])
                         /\ children'[k].now = children[k].now
    BY <1>2, RelistType, RelistLocked, RelistVersions DEF Restart
  <2>3. /\ children' \in [Kinds -> Tracked(ChildObj)]
        /\ queue' \in BOOLEAN /\ w' \in Worker
    BY <1>2, <2>2, Absent DEF Restart
  <2>4. used' \in [edits: Nat, disturbances: Nat, collects: Nat, touches: Nat]
    BY <1>2 DEF Restart, Disturb
  <2> QED  BY <2>1, <2>2, <2>3, <2>4, KeptAll
<1>3. ASSUME NEW k \in Kinds, ObserveChild(k) PROVE ChildrenInv' /\ Kept
  <2>1. PICK v \in children[k].pend :
           children' = [children EXCEPT ![k] = Observe(@, v)]
    BY <1>3 DEF ObserveChild
  <2>2. /\ Observe(children[k], v) \in Tracked(ChildObj)
        /\ Locked(Observe(children[k], v))
        /\ Observe(children[k], v).now = children[k].now
    BY ObserveType, ObserveLocked, ObserveVersions
  <2>3. queue' \in BOOLEAN /\ UNCHANGED <<keycloak, w, used>>
    BY <1>3 DEF ObserveChild
  <2> QED  BY <2>1, <2>2, <2>3, KeptAll
<1> QED  BY <1>1, <1>2, <1>3

\* What users do to the Keycloak resource.
LEMMA UserInv ==
    ASSUME ChildrenInv, UserWrites \/ UserDeletes
    PROVE  ChildrenInv' /\ Kept
<1> USE DEF ChildrenInv, TypeOK
<1>1. keycloak.now \in KeycloakObj
  BY DEF Tracked
<1>2. UNCHANGED <<children, queue, w>>
  BY DEF UserWrites, UserDeletes
<1>3. used' \in [edits: Nat, disturbances: Nat, collects: Nat, touches: Nat]
  <2>1. \/ used' = [used EXCEPT !.edits = @ + 1]
        \/ used' = [used EXCEPT !.disturbances = @ + 1]
    BY DEF UserWrites, UserDeletes, Disturb
  <2> QED  BY <2>1
<1>4. CASE UserWrites
  <2>1. PICK spec \in Specs :
           \/ keycloak' = Put(keycloak, [NoKeycloak EXCEPT !.live = TRUE,
                              !.uid = keycloak.now.rv + 1, !.spec = spec])
           \/ keycloak' = Put(keycloak, [keycloak.now EXCEPT !.spec = spec])
    BY <1>4 DEF UserWrites
  <2>2. /\ [NoKeycloak EXCEPT !.live = TRUE, !.uid = keycloak.now.rv + 1,
                              !.spec = spec] \in KeycloakObj
        /\ [keycloak.now EXCEPT !.spec = spec] \in KeycloakObj
    <3>1. keycloak.now.rv + 1 \in Nat
      BY <1>1 DEF KeycloakObj
    <3>2. \A n \in Nat : [NoKeycloak EXCEPT !.live = TRUE, !.uid = n,
                                           !.spec = spec] \in KeycloakObj
      BY Absent DEF KeycloakObj
    <3>3. [keycloak.now EXCEPT !.spec = spec] \in KeycloakObj
      BY <1>1 DEF KeycloakObj
    <3> QED  BY <3>1, <3>2, <3>3
  <2>3. keycloak' \in Tracked(KeycloakObj)
    BY <2>1, <2>2, StoreKeycloak
  <2> QED  BY <1>2, <1>3, <2>3, KeptAll
<1>5. CASE UserDeletes
  <2>1. keycloak' \in Tracked(KeycloakObj)
    BY <1>5, Absent, StoreKeycloak DEF UserDeletes
  <2> QED  BY <1>2, <1>3, <2>1, KeptAll
<1> QED  BY <1>4, <1>5

\* A write to one child by somebody else, which deletes it or takes no annotation
\* away.
LEMMA ForeignWrite ==
    ASSUME ChildrenInv, NEW k \in Kinds, NEW v \in ChildObj,
           children' = [children EXCEPT ![k] = Put(children[k], v)],
           v.live => v.ann >= children[k].now.ann,
           used' \in [edits: Nat, disturbances: Nat, collects: Nat, touches: Nat],
           UNCHANGED <<keycloak, queue, w>>
    PROVE  ChildrenInv' /\ Kept
<1> USE DEF ChildrenInv, TypeOK
<1>1. /\ Put(children[k], v) \in Tracked(ChildObj)
      /\ Locked(Put(children[k], v))
      /\ Put(children[k], v).now = [v EXCEPT !.rv = children[k].now.rv + 1]
  BY StoreChild
<1>2. /\ Put(children[k], v).now.live = v.live
      /\ Put(children[k], v).now.ann = v.ann
  BY <1>1 DEF ChildObj
<1>3. \A l \in Kinds : children'[l] = IF l = k THEN Put(children[k], v)
                                      ELSE children[l]
  OBVIOUS
<1>4. children' \in [Kinds -> Tracked(ChildObj)]
  BY <1>1
<1>5. \A l \in Kinds : children[l].now.ann \in Nat
  BY DEF Tracked, ChildObj
<1>6. ChildrenInv'
  <2>1. \A l \in Kinds : Locked(children'[l])
    BY <1>1, <1>3
  <2> QED  BY <1>4, <2>1
<1>7. Kept
  BY <1>2, <1>3, <1>5 DEF Kept
<1> QED  BY <1>6, <1>7

\* Users, the garbage collector, the StatefulSet controller and the import
\* controller.
LEMMA ClusterInv ==
    ASSUME ChildrenInv,
           \/ UpdatePods \/ RollOut
           \/ \E k \in Kinds : UserDrifts(k) \/ Collect(k)
    PROVE  ChildrenInv' /\ Kept
<1>1. NoChild \in ChildObj /\ NoChild.live = FALSE
  BY Absent DEF NoChild
<1>2. \A k \in Kinds : children[k].now \in ChildObj
  BY DEF ChildrenInv, TypeOK, Tracked
<1>3. ASSUME NEW k \in Kinds, UserDrifts(k) PROVE ChildrenInv' /\ Kept
  <2> DEFINE Drifted(host) == [children[k].now EXCEPT !.built = Edited,
                                                      !.host = host]
  <2>1. PICK v : /\ v = NoChild \/ \E host \in Hosts \cup {NoHost} :
                                       v = Drifted(host)
                 /\ children' = [children EXCEPT ![k] = Put(children[k], v)]
    <3>1. children[k].now.host \in Hosts \cup {NoHost}
      BY <1>2 DEF ChildObj
    <3> QED  BY <1>3, <3>1 DEF UserDrifts
  <2>2. \A host \in Hosts \cup {NoHost} :
           /\ Drifted(host) \in ChildObj
           /\ Drifted(host).ann = children[k].now.ann
    BY <1>2 DEF ChildObj
  <2>3. children[k].now.ann \in Nat
    BY <1>2 DEF ChildObj
  <2>4. /\ UNCHANGED <<keycloak, queue, w>>
        /\ used' \in [edits: Nat, disturbances: Nat, collects: Nat, touches: Nat]
    <3>1. /\ UNCHANGED <<keycloak, queue, w>>
          /\ used' = [used EXCEPT !.disturbances = @ + 1]
      BY <1>3 DEF UserDrifts, Disturb
    <3> QED  BY <3>1 DEF ChildrenInv, TypeOK
  <2>5. /\ v \in ChildObj
        /\ v.live => v.ann >= children[k].now.ann
    <3> HIDE DEF Drifted
    <3> QED  BY <1>1, <2>1, <2>2, <2>3
  <2> QED  BY <2>1, <2>4, <2>5, ForeignWrite
<1>4. ASSUME NEW k \in Kinds, Collect(k) PROVE ChildrenInv' /\ Kept
  <2>1. /\ children' = [children EXCEPT ![k] = Put(children[k], NoChild)]
        /\ UNCHANGED <<keycloak, queue, w>>
        /\ used' \in [edits: Nat, disturbances: Nat, collects: Nat, touches: Nat]
    BY <1>4 DEF Collect, ChildrenInv, TypeOK
  <2> QED  BY <1>1, <2>1, ForeignWrite
<1>5. CASE UpdatePods \/ RollOut
  <2> DEFINE k == "statefulset"
             Podded(pods) == [children[k].now EXCEPT !.pods = pods]
             Rolled == [children[k].now EXCEPT !.ann = @ + 1]
  <2>1. k \in Kinds
    BY OrderType
  <2>2. children[k].now.ann \in Nat /\ children[k].now \in ChildObj
    BY <1>2, <2>1 DEF ChildObj
  <2>3. PICK v : /\ v = Rolled \/ \E pods \in {"starting", "serving"} :
                                      v = Podded(pods)
                 /\ children' = [children EXCEPT ![k] = Put(children[k], v)]
    BY <1>5 DEF UpdatePods, RollOut, Touch
  <2>4. \A pods \in {"starting", "serving"} :
           /\ Podded(pods) \in ChildObj
           /\ Podded(pods).ann = children[k].now.ann
    BY <2>2 DEF ChildObj
  <2>5. /\ Rolled \in ChildObj
        /\ Rolled.ann = children[k].now.ann + 1
    BY <2>2 DEF ChildObj
  <2>6. /\ UNCHANGED <<keycloak, queue, w>>
        /\ used' \in [edits: Nat, disturbances: Nat, collects: Nat, touches: Nat]
    BY <1>5 DEF UpdatePods, RollOut, Touch, ChildrenInv, TypeOK
  <2>7. /\ v \in ChildObj
        /\ v.ann >= children[k].now.ann
    <3> HIDE DEF Podded, Rolled, k
    <3> QED  BY <2>2, <2>3, <2>4, <2>5
  <2> HIDE DEF k
  <2> QED  BY <2>1, <2>3, <2>6, <2>7, ForeignWrite
<1> QED  BY <1>3, <1>4, <1>5

\* Every step keeps the invariant, and the annotations of the children that it
\* does not delete.
LEMMA StepInv ==
    ASSUME ChildrenInv, [Next]_vars
    PROVE  ChildrenInv' /\ Kept
<1>1. CASE Reconcile
  <2>1. CASE Dequeue \/ GetKeycloak \/ UpdateStatus
    <3>1. UNCHANGED children
      BY <2>1 DEF Dequeue, GetKeycloak, UpdateStatus
    <3> QED  BY <2>1, <3>1, ReadInv, KeptAll DEF ChildrenInv
  <2> QED  BY <1>1, <2>1, WriteInv DEF Reconcile
<1>2. CASE UNCHANGED vars
  <2>1. ChildrenInv'
    BY <1>2 DEF vars, ChildrenInv, TypeOK
  <2> QED  BY <1>2, <2>1, KeptAll DEF vars, ChildrenInv
<1> QED  BY <1>1, <1>2, WatchInv, UserInv, ClusterInv DEF Next

\* Every state has its type, and no version of a child in a cache or a watch is
\* newer than the stored one or differs from it under its resourceVersion.
THEOREM TypeCorrect == Spec => []TypeOK
<1>1. ChildrenInv /\ [Next]_vars => ChildrenInv'
  BY StepInv
<1>2. ChildrenInv => TypeOK
  BY DEF ChildrenInv
<1> QED  BY <1>1, <1>2, InitInv, PTL DEF Spec

\* No reconcile, of whatever age its caches, takes back the rollout of an import.
THEOREM RolloutsKept == Spec => RolloutsSurvive
<1>1. ChildrenInv /\ [Next]_vars => ChildrenInv'
  BY StepInv
<1>2. ChildrenInv /\ [Next]_vars =>
         [LET v == children["statefulset"].now
              x == children'["statefulset"].now
          IN  v.live /\ x.live => x.ann >= v.ann]_vars
  BY StepInv, OrderType DEF Kept
<1> QED  BY <1>1, <1>2, InitInv, PTL DEF Spec, RolloutsSurvive
=============================================================================
