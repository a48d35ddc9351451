---------------------------- MODULE WakeupProofs ----------------------------
(***************************************************************************)
(* No change is missed by the Keycloak controller.                         *)
(*                                                                         *)
(* A child that a reconcile has put in its place stays there, or an event  *)
(* that queues the resource again is on its way: the event stays in the    *)
(* watch until it is delivered, and is then in the queue.                  *)
(***************************************************************************)
EXTENDS KeycloakInstanceProofs

(***************************************************************************)
(* The order in which a reconcile writes the children.                     *)
(***************************************************************************)
Pos(k) == CHOOSE n \in 1..Len(Order) : Order[n] = k

\* The children that have been written when the worker is at pc.
Before(pc) == IF pc = "status" THEN Kinds
              ELSE {k \in Kinds : Pos(k) < Pos(pc)}

\* The position of a child.
LEMMA Positions ==
    /\ Len(Order) \in Nat
    /\ \A k \in Kinds : Pos(k) \in 1..Len(Order) /\ Order[Pos(k)] = k
    /\ \A n \in 1..Len(Order) : Order[n] \in Kinds /\ Pos(Order[n]) = n
    /\ {"idle", "get", "status"} \cap Kinds = {}
    /\ "route" \in Kinds /\ "statefulset" \in Kinds
    /\ Pos("route") < Pos("statefulset")
<1>1. /\ Order \in Seq(AllKinds) /\ {"route", "statefulset"} \subseteq Kinds
      /\ \A m, n \in 1..Len(Order) : Order[m] = Order[n] => m = n
      /\ \A m, n \in 1..Len(Order) :
            Order[m] = "route" /\ Order[n] = "statefulset" => m < n
  BY ConstantsAssumption
<1>2. Len(Order) \in Nat /\ \A n \in 1..Len(Order) : Order[n] \in AllKinds
  BY <1>1
<1>3. \A k \in Kinds : Pos(k) \in 1..Len(Order) /\ Order[Pos(k)] = k
  BY DEF Kinds, Pos
<1>4. \A n \in 1..Len(Order) : Order[n] \in Kinds
  BY DEF Kinds
<1>5. \A n \in 1..Len(Order) : Pos(Order[n]) = n
  BY <1>1, <1>3, <1>4
<1>6. {"idle", "get", "status"} \cap Kinds = {}
  BY <1>2 DEF Kinds, AllKinds
<1> QED  BY <1>1, <1>2, <1>3, <1>4, <1>5, <1>6

\* Before the first child none is written, and after a child it is, too.
LEMMA Advance ==
    /\ Order[1] \in Kinds /\ Before(Order[1]) = {}
    /\ \A k \in Kinds : /\ Before(After(k)) = Before(k) \cup {k}
                        /\ k \notin Before(k)
    /\ "statefulset" \notin Before("route")
    /\ Before("status") = Kinds
<1>1. 1 \in 1..Len(Order)
  <2>1. Pos("route") \in 1..Len(Order) /\ Len(Order) \in Nat
    BY Positions
  <2> QED  BY <2>1
<1>2. Order[1] \in Kinds /\ Pos(Order[1]) = 1 /\ Order[1] # "status"
  BY <1>1, Positions
<1>3. Before(Order[1]) = {}
  <2>1. \A k \in Kinds : ~(Pos(k) < 1)
    BY Positions
  <2> QED  BY <1>2, <2>1 DEF Before
<1>4. ASSUME NEW k \in Kinds
      PROVE  Before(After(k)) = Before(k) \cup {k} /\ k \notin Before(k)
  <2>1. /\ Pos(k) \in 1..Len(Order) /\ Order[Pos(k)] = k /\ k # "status"
        /\ Len(Order) \in Nat
    BY Positions
  <2>2. Before(k) = {l \in Kinds : Pos(l) < Pos(k)}
    BY <2>1 DEF Before
  <2>3. \A l \in Kinds : /\ Pos(l) \in 1..Len(Order)
                         /\ Pos(l) = Pos(k) => l = k
    BY <2>1, Positions
  <2>4. After(k) = IF Pos(k) = Len(Order) THEN "status" ELSE Order[Pos(k) + 1]
    BY DEF After, Pos
  <2>5. CASE Pos(k) = Len(Order)
    <3>1. \A l \in Kinds : Pos(l) < Pos(k) \/ l = k
      BY <2>1, <2>3, <2>5
    <3>2. Before(After(k)) = Kinds
      BY <2>4, <2>5 DEF Before
    <3> QED  BY <2>1, <2>2, <3>1, <3>2
  <2>6. CASE Pos(k) # Len(Order)
    <3>1. Pos(k) + 1 \in 1..Len(Order)
      BY <2>1, <2>6
    <3>2. /\ After(k) \in Kinds /\ After(k) # "status"
          /\ Pos(After(k)) = Pos(k) + 1
      BY <2>4, <2>6, <3>1, Positions
    <3>3. Before(After(k)) = {l \in Kinds : Pos(l) < Pos(k) + 1}
      BY <3>2 DEF Before
    <3>4. \A l \in Kinds : Pos(l) < Pos(k) + 1 <=> Pos(l) < Pos(k) \/ l = k
      BY <2>1, <2>3
    <3> QED  BY <2>1, <2>2, <3>3, <3>4
  <2> QED  BY <2>5, <2>6
<1>5. "statefulset" \notin Before("route")
  <2>1. /\ "route" # "status" /\ Pos("route") < Pos("statefulset")
        /\ Pos("route") \in 1..Len(Order)
        /\ Pos("statefulset") \in 1..Len(Order)
        /\ Len(Order) \in Nat
    BY Positions
  <2>2. ~(Pos("statefulset") < Pos("route"))
    BY <2>1
  <2> QED  BY <2>1, <2>2 DEF Before
<1> QED  BY <1>2, <1>3, <1>4, <1>5 DEF Before
-----------------------------------------------------------------------------
(***************************************************************************)
(* Events on their way.  KeycloakPasses is the test in ObserveKeycloak.    *)
(***************************************************************************)
KeycloakPasses(old, new) == UpdateEvent(old, new) => old.spec # new.spec

KeycloakWakes == \E y, x : Follows(keycloak, y, x) /\ KeycloakPasses(y, x)

Wakes(k, o) == \E y, x : Follows(o, y, x) /\ ChildPasses(k, y, x)

Woken(q, c) == q \/ \E k \in Kinds : Wakes(k, c[k])

\* A cached resource exists like the stored one, or an event will tell.
KeycloakTold(o) ==
    \A v \in Versions(o) :
        \/ v.live = o.now.live
        \/ \E y, x : Follows(o, y, x) /\ v.rv <= y.rv /\ KeycloakPasses(y, x)

\* The same for a child, with its contents if they count.
Same(k, v, x) == /\ v.live = x.live
                 /\ k \in Versioned => v.built = x.built

ChildTold(k, o) ==
    \A v \in Versions(o) :
        \/ Same(k, v, o.now)
        \/ \E y, x : Follows(o, y, x) /\ v.rv <= y.rv /\ ChildPasses(k, y, x)

\* Resource versions of children and of the resource are numbers.
LEMMA Numbered ==
    /\ \A v \in ChildObj : v.rv \in Nat
    /\ \A v \in KeycloakObj : v.rv \in Nat
BY DEF ChildObj, KeycloakObj

\* A write that is no change or raises an event leaves nothing untold.
LEMMA StoresTold ==
    ASSUME NEW k, NEW o \in Tracked(ChildObj), NEW p \in Tracked(ChildObj),
           Ordered(o), Stores(o, p), ChildTold(k, o),
           Same(k, o.now, p.now) \/ ChildPasses(k, o.now, p.now)
    PROVE  ChildTold(k, p)
<1>1. /\ Ordered(p) /\ Follows(p, o.now, p.now)
      /\ \A y, x : Follows(o, y, x) => Follows(p, y, x)
  BY Numbered, StoresOrdered
<1>2. \A v \in Versions(p) : v \in Versions(o) \/ v = p.now
  BY MovesVersions DEF Moves
<1>3. \A v \in Versions(o) : v.rv <= o.now.rv
  BY DEF Ordered, Locked
<1>4. ASSUME NEW v \in Versions(o)
      PROVE  \/ Same(k, v, p.now)
             \/ \E y, x : /\ Follows(p, y, x) /\ v.rv <= y.rv
                          /\ ChildPasses(k, y, x)
  <2>1. CASE Same(k, v, o.now)
    <3>1. CASE Same(k, o.now, p.now)
      BY <2>1, <3>1 DEF Same
    <3>2. CASE ChildPasses(k, o.now, p.now)
      BY <1>1, <1>3, <3>2
    <3> QED  BY <3>1, <3>2
  <2>2. CASE \E y, x : /\ Follows(o, y, x) /\ v.rv <= y.rv
                       /\ ChildPasses(k, y, x)
    BY <1>1, <2>2
  <2> QED  BY <2>1, <2>2 DEF ChildTold
<1>5. Same(k, p.now, p.now)
  BY DEF Same
<1> QED  BY <1>2, <1>4, <1>5 DEF ChildTold

\* An event leaves nothing untold that it does not tell.
LEMMA ObserveTold ==
    ASSUME NEW k, NEW o \in Tracked(ChildObj), Ordered(o), ChildTold(k, o),
           NEW v \in o.pend, NextEvent(o, v)
    PROVE  ChildTold(k, Observe(o, v))
<1> DEFINE p == Observe(o, v)
<1>1. \A y, x : Follows(o, y, x) => (y = o.seen /\ x = v) \/ Follows(p, y, x)
  BY Numbered, ObserveOrdered
<1>2. p.now = o.now /\ p.seen = v /\ p.pend \subseteq o.pend
  BY DEF Observe, Tracked
<1> HIDE DEF p
<1>3. /\ Versions(p) \subseteq Versions(o)
      /\ \A z \in Versions(p) : o.seen.rv < z.rv /\ z.rv \in Nat
  <2>1. v.rv <= o.now.rv /\ o.seen.rv < v.rv
    BY DEF Ordered, Locked, Versions
  <2>2. /\ \A z \in Versions(o) : z.rv \in Nat
        /\ o.now \in Versions(o) /\ o.seen \in Versions(o)
        /\ o.pend \subseteq Versions(o)
    BY DEF Ordered, Locked, Versions
  <2>3. o.seen.rv < o.now.rv
    BY <2>1, <2>2
  <2>4. Versions(p) \subseteq o.pend \cup {o.now}
    BY <1>2 DEF Versions
  <2> QED  BY <2>2, <2>3, <2>4 DEF Ordered
<1>4. o.seen.rv \in Nat
  BY DEF Ordered, Locked, Versions
<1>5. ASSUME NEW z \in Versions(p), ~Same(k, z, p.now)
      PROVE  \E y, x : /\ Follows(p, y, x) /\ z.rv <= y.rv
                       /\ ChildPasses(k, y, x)
  <2>1. PICK y, x : Follows(o, y, x) /\ z.rv <= y.rv /\ ChildPasses(k, y, x)
    BY <1>2, <1>3, <1>5 DEF ChildTold
  <2>2. y # o.seen
    <3>1. ~(z.rv <= o.seen.rv)
      BY <1>3, <1>4
    <3> QED  BY <2>1, <3>1
  <2> QED  BY <1>1, <2>1, <2>2
<1> QED  BY <1>5 DEF ChildTold, p

\* A cache in step has nothing to be told.
LEMMA InSyncTold ==
    ASSUME NEW k, NEW v
    PROVE  ChildTold(k, InSync(v)) /\ KeycloakTold(InSync(v))
<1>1. Versions(InSync(v)) = {v} /\ InSync(v).now = v
  BY DEF InSync, Versions
<1> QED  BY <1>1 DEF ChildTold, KeycloakTold, Same

\* The same for the resource.
LEMMA StoresKeycloakTold ==
    ASSUME NEW o \in Tracked(KeycloakObj), NEW p \in Tracked(KeycloakObj),
           Ordered(o), Stores(o, p), KeycloakTold(o)
    PROVE  KeycloakTold(p)
<1>1. /\ Ordered(p) /\ Follows(p, o.now, p.now)
      /\ \A y, x : Follows(o, y, x) => Follows(p, y, x)
  BY Numbered, StoresOrdered
<1>2. \A v \in Versions(p) : v \in Versions(o) \/ v = p.now
  BY MovesVersions DEF Moves
<1>3. \A v \in Versions(o) : v.rv <= o.now.rv
  BY DEF Ordered, Locked
<1>4. o.now.live = p.now.live \/ KeycloakPasses(o.now, p.now)
  <2>1. o.now.live \in BOOLEAN /\ p.now.live \in BOOLEAN
    BY DEF Tracked, KeycloakObj
  <2> QED  BY <2>1 DEF KeycloakPasses, UpdateEvent
<1>5. ASSUME NEW v \in Versions(o)
      PROVE  \/ v.live = p.now.live
             \/ \E y, x : /\ Follows(p, y, x) /\ v.rv <= y.rv
                          /\ KeycloakPasses(y, x)
  <2>1. CASE v.live = o.now.live
    BY <1>1, <1>3, <1>4, <2>1
  <2>2. CASE \E y, x : /\ Follows(o, y, x) /\ v.rv <= y.rv
                       /\ KeycloakPasses(y, x)
    BY <1>1, <2>2
  <2> QED  BY <2>1, <2>2 DEF KeycloakTold
<1> QED  BY <1>2, <1>5 DEF KeycloakTold

\* And for an event of the resource.
LEMMA ObserveKeycloakTold ==
    ASSUME NEW o \in Tracked(KeycloakObj), Ordered(o), KeycloakTold(o),
           NEW v \in o.pend, NextEvent(o, v)
    PROVE  KeycloakTold(Observe(o, v))
<1> DEFINE p == Observe(o, v)
<1>1. \A y, x : Follows(o, y, x) => (y = o.seen /\ x = v) \/ Follows(p, y, x)
  BY Numbered, ObserveOrdered
<1>2. p.now = o.now /\ p.seen = v /\ p.pend \subseteq o.pend
  BY DEF Observe, Tracked
<1> HIDE DEF p
<1>3. /\ Versions(p) \subseteq Versions(o)
      /\ \A z \in Versions(p) : o.seen.rv < z.rv /\ z.rv \in Nat
  <2>1. v.rv <= o.now.rv /\ o.seen.rv < v.rv
    BY DEF Ordered, Locked, Versions
  <2>2. /\ \A z \in Versions(o) : z.rv \in Nat
        /\ o.now \in Versions(o) /\ o.seen \in Versions(o)
        /\ o.pend \subseteq Versions(o)
    BY DEF Ordered, Locked, Versions
  <2>3. o.seen.rv < o.now.rv
    BY <2>1, <2>2
  <2>4. Versions(p) \subseteq o.pend \cup {o.now}
    BY <1>2 DEF Versions
  <2> QED  BY <2>2, <2>3, <2>4 DEF Ordered
<1>4. o.seen.rv \in Nat
  BY DEF Ordered, Locked, Versions
<1>5. ASSUME NEW z \in Versions(p), z.live # p.now.live
      PROVE  \E y, x : /\ Follows(p, y, x) /\ z.rv <= y.rv
                       /\ KeycloakPasses(y, x)
  <2>1. PICK y, x : Follows(o, y, x) /\ z.rv <= y.rv /\ KeycloakPasses(y, x)
    BY <1>2, <1>3, <1>5 DEF KeycloakTold
  <2>2. y # o.seen
    <3>1. ~(z.rv <= o.seen.rv)
      BY <1>3, <1>4
    <3> QED  BY <2>1, <3>1
  <2> QED  BY <1>1, <2>1, <2>2
<1> QED  BY <1>5 DEF KeycloakTold, p

\* A step of a child that loses no event; r is the queue after it.
Delivers(k, o, p, r) ==
    \/ p = o \/ Stores(o, p)
    \/ \E v \in o.pend : /\ NextEvent(o, v) /\ p = Observe(o, v)
                         /\ ChildPasses(k, o.seen, v) => r

\* What will wake the controller is delivered or stays on its way.
LEMMA StaysWoken ==
    ASSUME NEW q, NEW r, NEW c \in [Kinds -> Tracked(ChildObj)],
           NEW d \in [Kinds -> Tracked(ChildObj)],
           \A k \in Kinds : Ordered(c[k]),
           q => r,
           \A k \in Kinds : Delivers(k, c[k], d[k], r),
           Woken(q, c)
    PROVE  Woken(r, d)
<1>1. CASE q
  BY <1>1 DEF Woken
<1>2. ASSUME NEW k \in Kinds, Wakes(k, c[k]) PROVE Woken(r, d)
  <2>1. PICK y, x : Follows(c[k], y, x) /\ ChildPasses(k, y, x)
    BY <1>2 DEF Wakes
  <2>2. c[k] \in Tracked(ChildObj) /\ d[k] \in Tracked(ChildObj) /\ Ordered(c[k])
    OBVIOUS
  <2>3. CASE d[k] = c[k]
    BY <1>2, <2>3 DEF Woken
  <2>4. CASE Stores(c[k], d[k])
    <3>1. Follows(d[k], y, x)
      BY <2>1, <2>2, <2>4, Numbered, StoresOrdered
    <3> QED  BY <2>1, <3>1 DEF Wakes, Woken
  <2>5. ASSUME NEW v \in c[k].pend, NextEvent(c[k], v),
               d[k] = Observe(c[k], v), ChildPasses(k, c[k].seen, v) => r
        PROVE  Woken(r, d)
    <3>1. (y = c[k].seen /\ x = v) \/ Follows(d[k], y, x)
      BY <2>1, <2>2, <2>5, Numbered, ObserveOrdered
    <3>2. CASE y = c[k].seen /\ x = v
      BY <2>1, <2>5, <3>2 DEF Woken
    <3>3. CASE Follows(d[k], y, x)
      BY <2>1, <3>3 DEF Wakes, Woken
    <3> QED  BY <3>1, <3>2, <3>3
  <2>6. Delivers(k, c[k], d[k], r)
    OBVIOUS
  <2> QED  BY <2>3, <2>4, <2>5, <2>6, Zenon DEF Delivers
<1> QED  BY <1>1, <1>2 DEF Woken
-----------------------------------------------------------------------------
(***************************************************************************)
(* Children in their place.  In what follows c is the function children,   *)
(* cr the resource they are built for, S the children in question.         *)
(***************************************************************************)
Excused(c, k) == k \notin Versioned /\ c[k].now.built = Edited

InPlace(c, k, cr) ==
    /\ c[k].now.live /\ c[k].now.owner = cr.uid
    /\ c[k].now.built # Edited \/ Excused(c, k)
    /\ k = "statefulset" => c[k].now.built = cr.spec \/ Excused(c, k)

\* The Route has the host, which is the one of the spec if that names one.
Hosted(c, cr, host) ==
    \/ c["route"].now.host = host /\ cr.spec.host \in {host, NoHost}
    \/ Excused(c, "route")

Placed(c, S, cr, host, up) ==
    /\ \A k \in S : InPlace(c, k, cr)
    /\ "route" \in S => Hosted(c, cr, host)
    /\ "statefulset" \in S =>
          /\ c["statefulset"].now.host = host
          /\ up \/ c["statefulset"].now.pods = "starting"

\* A write that takes no child out of its place.
Harmless(k, v, x) ==
    /\ x.live = v.live /\ x.owner = v.owner
    /\ k = "statefulset" => /\ x.host = v.host
                            /\ v.pods = "starting" => x.pods = "starting"
    /\ \/ x.built = v.built /\ x.host = v.host
       \/ k \notin Versioned /\ x.built = Edited

\* Children that are not written stay where they are.
LEMMA SamePlace ==
    ASSUME NEW c, NEW d, NEW S, NEW cr, NEW host, NEW up,
           \A k \in S : d[k].now = c[k].now,
           Placed(c, S, cr, host, up)
    PROVE  Placed(d, S, cr, host, up)
BY DEF Placed, InPlace, Hosted, Excused

\* So does one to which a harmless write is made.
LEMMA HarmlessPlace ==
    ASSUME NEW c, NEW d, NEW S, NEW cr, NEW host, NEW up,
           \A k \in S : d[k].now = c[k].now \/ Harmless(k, c[k].now, d[k].now),
           Placed(c, S, cr, host, up)
    PROVE  Placed(d, S, cr, host, up)
<1>1. ASSUME NEW k \in S PROVE InPlace(d, k, cr)
  <2>1. InPlace(c, k, cr)
    BY DEF Placed
  <2>2. CASE d[k].now = c[k].now
    BY <2>1, <2>2 DEF InPlace, Excused
  <2>3. CASE Harmless(k, c[k].now, d[k].now)
    BY <2>1, <2>3 DEF InPlace, Excused, Harmless
  <2> QED  BY <2>2, <2>3
<1>2. ASSUME "route" \in S PROVE Hosted(d, cr, host)
  <2>1. Hosted(c, cr, host)
    BY <1>2 DEF Placed
  <2>2. CASE d["route"].now = c["route"].now
    BY <2>1, <2>2 DEF Hosted, Excused
  <2>3. CASE Harmless("route", c["route"].now, d["route"].now)
    BY <2>1, <2>3 DEF Hosted, Excused, Harmless
  <2> QED  BY <1>2, <2>2, <2>3
<1>3. ASSUME "statefulset" \in S
      PROVE  /\ d["statefulset"].now.host = host
             /\ up \/ d["statefulset"].now.pods = "starting"
  BY <1>3 DEF Placed, Harmless
<1> QED  BY <1>1, <1>2, <1>3 DEF Placed

-----------------------------------------------------------------------------
(***************************************************************************)
(* The invariant.                                                          *)
(***************************************************************************)
Reconciling == w.pc \in Kinds \cup {"status"}

\* What a reconcile has read is told apart from later versions.
ReadInOrder == Reconciling => Distinguished(w.cr, keycloak)

\* A reconcile of the stored resource has put the children that it has written
\* in their place, or there will be another.
ProgressInv ==
    Reconciling /\ Current(keycloak, w.cr) /\ (At("status") => w.status # "error")
    => \/ Woken(queue, children)
       \/ /\ Placed(children, Before(w.pc), w.cr, w.host, w.up)
          /\ At("status") => w.status = IF w.up THEN "ready" ELSE "waiting"

\* Between reconciles all children are in their place, or there will be another.
RestInv ==
    At("idle") /\ keycloak.now.live /\ keycloak.now.status # "error"
    => \/ Woken(queue, children) \/ KeycloakWakes
       \/ Placed(children, Kinds, keycloak.now, children["statefulset"].now.host,
                 keycloak.now.status # "waiting")

OrderInv == /\ ChildrenInv
            /\ Ordered(keycloak) /\ \A k \in Kinds : Ordered(children[k])

ToldInv == /\ KeycloakTold(keycloak)
           /\ \A k \in Kinds \ {"statefulset"} : ChildTold(k, children[k])

(***************************************************************************)
(* The Keycloaks that have had the same name, told apart by their uids: a  *)
(* later one has a greater uid, and a child only goes over to a later one. *)
(***************************************************************************)
UidsGrow(o) ==
    /\ \A v \in Versions(o) : v.live => v.uid <= v.rv
    /\ \A v, x \in Versions(o) :
          v.live /\ x.live /\ v.rv <= x.rv => v.uid <= x.uid

OwnersGrow(o) ==
    \A v, x \in Versions(o) :
        v.live /\ x.live /\ v.rv <= x.rv => v.owner <= x.owner

\* No resource in store, in the cache or on its way to it is older than uid n.
Precedes(n, o) == /\ n <= o.now.rv
                  /\ \A v \in Versions(o) : v.live => n <= v.uid

\* The owners of a child.
Owners(o) == {v.owner : v \in {x \in Versions(o) : x.live}}

OwnerInv ==
    /\ UidsGrow(keycloak) /\ \A k \in Kinds : OwnersGrow(children[k])
    /\ \A k \in Kinds : \A n \in Owners(children[k]) : Precedes(n, keycloak)
    /\ Reconciling =>
          /\ Precedes(w.cr.uid, keycloak)
          /\ \A k \in Kinds : \A n \in Owners(children[k]) : n <= w.cr.uid

WakeInv == OrderInv /\ ToldInv /\ OwnerInv /\ ReadInOrder /\ ProgressInv /\ RestInv

\* At rest nothing was missed.
LEMMA AtRest == WakeInv => NothingMissed
<1> SUFFICES ASSUME WakeInv, Quiescent, keycloak.now.live,
                    keycloak.now.status # "error"
             PROVE  /\ Settled
                    /\ keycloak.now.status = "waiting" =>
                          ~IsStatefulSetReady(children["statefulset"].now)
  BY DEF NothingMissed
<1>1. At("idle") /\ ~queue /\ keycloak.pend = {}
      /\ \A k \in Kinds : children[k].pend = {}
  BY DEF Quiescent
<1>2. ~Woken(queue, children) /\ ~KeycloakWakes
  BY <1>1 DEF Woken, Wakes, KeycloakWakes, Follows
<1>3. Placed(children, Kinds, keycloak.now, children["statefulset"].now.host,
             keycloak.now.status # "waiting")
  BY <1>1, <1>2 DEF WakeInv, RestInv
<1>4. "route" \in Kinds /\ "statefulset" \in Kinds
  BY Positions
<1>5. Settled
  BY <1>3, <1>4 DEF Placed, InPlace, Hosted, Excused, Settled, Unnoticed
<1>6. keycloak.now.status = "waiting" =>
         ~IsStatefulSetReady(children["statefulset"].now)
  BY <1>3, <1>4 DEF Placed, IsStatefulSetReady
<1> QED  BY <1>5, <1>6

\* The initial states.
LEMMA InitWake == Init => WakeInv
<1> SUFFICES ASSUME Init PROVE WakeInv
  OBVIOUS
<1>1. NoKeycloak.rv \in Nat /\ NoChild.rv \in Nat /\ NoKeycloak.live = FALSE
  BY DEF NoKeycloak, NoChild
<1>2. OrderInv
  BY <1>1, InitInv, InSyncOrdered DEF Init, OrderInv
<1>3. ToldInv
  BY InSyncTold DEF Init, ToldInv
<1>4. At("idle") /\ keycloak.now.live = FALSE
  BY <1>1 DEF Init, At, Idle, InSync
<1>5. ~Reconciling
  BY <1>4, Positions DEF At, Reconciling
<1>6. OwnerInv
  <2>1. Versions(keycloak) = {NoKeycloak}
    BY DEF Init, InSync, Versions
  <2>2. \A k \in Kinds : Versions(children[k]) = {NoChild}
    BY DEF Init, InSync, Versions
  <2>3. NoKeycloak.live = FALSE /\ NoChild.live = FALSE
    BY DEF NoKeycloak, NoChild
  <2> QED  BY <1>5, <2>1, <2>2, <2>3 DEF OwnerInv, UidsGrow, OwnersGrow, Owners
<1> QED  BY <1>2, <1>3, <1>4, <1>5, <1>6
         DEF WakeInv, ReadInOrder, ProgressInv, RestInv
-----------------------------------------------------------------------------
(***************************************************************************)
(* What the steps of the cluster do to a child.                            *)
(***************************************************************************)

\* A version is stored with all its fields.
LEMMA ChildStored ==
    ASSUME NEW o \in Tracked(ChildObj), Locked(o), NEW v \in ChildObj
    PROVE  LET p == Put(o, v) IN
           /\ p \in Tracked(ChildObj) /\ Stores(o, p) /\ p.now \in ChildObj
           /\ p.now.live = v.live /\ p.now.owner = v.owner
           /\ p.now.built = v.built /\ p.now.host = v.host
           /\ p.now.pods = v.pods
<1> DEFINE p == Put(o, v)
<1>1. /\ p \in Tracked(ChildObj) /\ p.now = [v EXCEPT !.rv = o.now.rv + 1]
      /\ p.now \in ChildObj
  BY StoreChild
<1>2. /\ p.now.rv = o.now.rv + 1
      /\ p.now.live = v.live /\ p.now.owner = v.owner
      /\ p.now.built = v.built /\ p.now.host = v.host
      /\ p.now.pods = v.pods
  <2> HIDE DEF p
  <2> QED  BY <1>1 DEF ChildObj
<1>3. p.seen = o.seen /\ p.pend = o.pend \cup {p.now}
  BY DEF Put, Tracked
<1> QED  BY <1>1, <1>2, <1>3 DEF Stores

\* So is one of the resource.
LEMMA KeycloakStored ==
    ASSUME NEW o \in Tracked(KeycloakObj), NEW v \in KeycloakObj
    PROVE  LET p == Put(o, v) IN
           /\ p \in Tracked(KeycloakObj) /\ Stores(o, p)
           /\ p.now.live = v.live /\ p.now.uid = v.uid
           /\ p.now.spec = v.spec /\ p.now.status = v.status
<1> DEFINE p == Put(o, v)
<1>1. p \in Tracked(KeycloakObj)
  BY StoreKeycloak
<1>2. p.now = [v EXCEPT !.rv = o.now.rv + 1]
  BY PutVersions
<1>3. /\ p.now.rv = o.now.rv + 1
      /\ p.now.live = v.live /\ p.now.uid = v.uid
      /\ p.now.spec = v.spec /\ p.now.status = v.status
  <2> HIDE DEF p
  <2> QED  BY <1>2 DEF KeycloakObj
<1>4. p.seen = o.seen /\ p.pend = o.pend \cup {p.now}
  BY DEF Put, Tracked
<1> QED  BY <1>1, <1>3, <1>4 DEF Stores

\* A child is written by somebody else: it stays where it is, or there is an
\* event.
Disturbs(k) ==
    LET v == children[k].now
        x == children'[k].now
    IN  /\ Stores(children[k], children'[k]) /\ v.live
        /\ \A l \in Kinds \ {k} : children'[l] = children[l]
        /\ UNCHANGED <<keycloak, queue, w>>
        /\ x.live => x.owner = v.owner
        /\ ChildPasses(k, v, x) \/ Harmless(k, v, x)

\* What is told of a version by its fields is told of the stored one.
LEMMA Disturbed ==
    ASSUME ChildrenInv, NEW k \in Kinds, NEW v \in ChildObj,
           children[k].now.live, UNCHANGED <<keycloak, queue, w>>,
           v.live => v.owner = children[k].now.owner,
           children' = [children EXCEPT ![k] = Put(children[k], v)],
           ChildPasses(k, children[k].now, v) \/ Harmless(k, children[k].now, v)
    PROVE  Disturbs(k)
<1> DEFINE o == children[k]
           p == Put(o, v)
           x == p.now
<1>1. o \in Tracked(ChildObj) /\ Locked(o)
  BY DEF ChildrenInv, TypeOK
<1>2. /\ Stores(o, p)
      /\ x.live = v.live /\ x.owner = v.owner /\ x.built = v.built
      /\ x.host = v.host /\ x.pods = v.pods
  BY <1>1, ChildStored
<1>3. children'[k] = p /\ \A l \in Kinds \ {k} : children'[l] = children[l]
  BY DEF ChildrenInv, TypeOK
<1> HIDE DEF o, p
<1>4. ChildPasses(k, o.now, v) => ChildPasses(k, o.now, x)
  BY <1>2 DEF ChildPasses, StatefulSetPasses, UpdateEvent, DeleteEvent,
              IsStatefulSetReady
<1>5. Harmless(k, o.now, v) => Harmless(k, o.now, x)
  BY <1>2 DEF Harmless
<1> QED  BY <1>2, <1>3, <1>4, <1>5 DEF Disturbs, o

\* Users, the garbage collector, the StatefulSet controller and the import
\* controller.
LEMMA ClusterDisturbs ==
    ASSUME ChildrenInv,
           \/ UpdatePods \/ RollOut
           \/ \E k \in Kinds : UserDrifts(k) \/ Collect(k)
    PROVE  \E k \in Kinds : Disturbs(k)
<1>1. NoChild \in ChildObj /\ NoChild.live = FALSE
  BY Absent DEF NoChild
<1>2. \A k \in Kinds : children[k].now \in ChildObj
  BY DEF ChildrenInv, TypeOK, Tracked
<1>3. ASSUME NEW k \in Kinds, children[k].now.live
      PROVE  ChildPasses(k, children[k].now, NoChild)
  BY <1>1, <1>3 DEF ChildPasses, StatefulSetPasses, DeleteEvent, UpdateEvent
<1>4. ASSUME NEW k \in Kinds, UserDrifts(k) PROVE Disturbs(k)
  <2> DEFINE v == children[k].now
             Drifted(host) == [v EXCEPT !.built = Edited, !.host = host]
  <2>1. /\ v.live /\ UNCHANGED <<keycloak, queue, w>>
        /\ \/ children' = [children EXCEPT ![k] = Put(children[k], NoChild)]
           \/ \E host \in IF k = "route" THEN Hosts ELSE {v.host} :
                 children' = [children EXCEPT ![k] =
                                 Put(children[k], Drifted(host))]
    BY <1>4 DEF UserDrifts
  <2>2. CASE children' = [children EXCEPT ![k] = Put(children[k], NoChild)]
    BY <1>1, <1>3, <2>1, <2>2, Disturbed
  <2>3. ASSUME NEW host \in IF k = "route" THEN Hosts ELSE {v.host},
               children' = [children EXCEPT ![k] =
                               Put(children[k], Drifted(host))]
        PROVE  Disturbs(k)
    <3>1. v \in ChildObj /\ host \in Hosts \cup {NoHost}
      BY <1>2 DEF ChildObj
    <3> DEFINE x == Drifted(host)
    <3> HIDE DEF v
    <3>2. /\ x \in ChildObj /\ x.live = v.live /\ x.owner = v.owner
          /\ x.built = Edited /\ x.host = host /\ x.pods = v.pods
      BY <3>1 DEF ChildObj
    <3> HIDE DEF x
    <3>3. k = "statefulset" => x.host = v.host /\ k \notin Versioned
      <4>1. k = "statefulset" => k # "route"
        OBVIOUS
      <4> QED  BY <3>2, <4>1, ConstantsAssumption
    <3>4. ChildPasses(k, v, x) \/ Harmless(k, v, x)
      <4>1. CASE k \notin Versioned
        BY <3>2, <3>3, <4>1 DEF Harmless
      <4>2. CASE k \in Versioned /\ x.built = v.built /\ x.host = v.host
        BY <3>2, <3>3, <4>2 DEF Harmless
      <4>3. CASE k \in Versioned /\ ~(x.built = v.built /\ x.host = v.host)
        BY <3>3, <4>3 DEF ChildPasses
      <4> QED  BY <4>1, <4>2, <4>3
    <3> QED  BY <2>1, <2>3, <3>2, <3>4, Disturbed DEF v, x
  <2> QED  BY <2>1, <2>2, <2>3
<1>5. ASSUME NEW k \in Kinds, Collect(k) PROVE Disturbs(k)
  <2>1. /\ children' = [children EXCEPT ![k] = Put(children[k], NoChild)]
        /\ UNCHANGED <<keycloak, queue, w>> /\ children[k].now.live
    BY <1>5 DEF Collect, Orphan
  <2> QED  BY <1>1, <1>3, <2>1, Disturbed
<1>6. CASE UpdatePods \/ RollOut
  <2> DEFINE k == "statefulset"
             v == children[k].now
             Podded(pods) == [v EXCEPT !.pods = pods]
             Rolled == [v EXCEPT !.ann = @ + 1]
  <2>1. k \in Kinds /\ v \in ChildObj /\ v.ann \in Nat
    BY <1>2, OrderType DEF ChildObj
  <2>2. PICK x : /\ x = Rolled \/ \E pods \in {"starting", "serving"} :
                                      x = Podded(pods)
                 /\ children' = [children EXCEPT ![k] = Put(children[k], x)]
                 /\ UNCHANGED <<keycloak, queue, w>> /\ v.live
    BY <1>6 DEF UpdatePods, RollOut, Touch
  <2> HIDE DEF v
  <2>3. /\ x \in ChildObj /\ x.live = v.live /\ x.owner = v.owner
        /\ x.built = v.built /\ x.host = v.host
        /\ x.pods \in {v.pods, "starting", "serving"}
    <3>1. CASE x = Rolled
      BY <2>1, <3>1 DEF ChildObj
    <3>2. ASSUME NEW pods \in {"starting", "serving"}, x = Podded(pods)
          PROVE  /\ x \in ChildObj /\ x.live = v.live /\ x.owner = v.owner
                 /\ x.built = v.built /\ x.host = v.host /\ x.pods = pods
      BY <2>1, <3>2 DEF ChildObj
    <3> QED  BY <2>2, <3>1, <3>2
  <2> HIDE DEF Podded, Rolled
  <2>4. ChildPasses(k, v, x) \/ Harmless(k, v, x)
    <3>1. CASE v.pods = "starting" /\ x.pods # "starting"
      BY <2>2, <2>3, <3>1 DEF ChildPasses, StatefulSetPasses, UpdateEvent,
                              IsStatefulSetReady
    <3>2. CASE ~(v.pods = "starting" /\ x.pods # "starting")
      BY <2>3, <3>2 DEF Harmless
    <3> QED  BY <3>1, <3>2
  <2>5. Disturbs(k)
    <3> HIDE DEF k
    <3> QED  BY <2>1, <2>2, <2>3, <2>4, Disturbed DEF v
  <2> QED  BY <2>1, <2>5
<1> QED  BY <1>4, <1>5, <1>6
-----------------------------------------------------------------------------
(***************************************************************************)
(* What a reconcile does to a child.                                       *)
(***************************************************************************)

\* A version of child k that is built for the resource the worker has read.
BuiltFor(k, x) ==
    /\ x.live /\ x.owner = w.cr.uid /\ x.built # Edited
    /\ k = "statefulset" => x.built = w.cr.spec /\ x.host = w.host
    /\ k = "route" => w.cr.spec.host \in {x.host, NoHost}

\* Build makes such a version.
LEMMA BuildsFor ==
    ASSUME TypeOK, NEW k \in Kinds, NEW old \in ChildObj
    PROVE  BuiltFor(k, Written(k, old))
<1>1. k \in AllKinds /\ ByName # Edited /\ Edited \notin Specs
  BY ConstantsAssumption DEF Kinds
<1>2. w.cr.spec \in Specs
  BY DEF TypeOK, Worker, KeycloakObj
<1>3. Written(k, old) \in ChildObj /\ Written(k, old).live
  BY BuildType
<1> DEFINE b == Build(k, old)
<1>4. /\ b.built # Edited
      /\ k = "statefulset" => b.built = w.cr.spec /\ b.host = w.host
      /\ k = "route" => w.cr.spec.host \in {b.host, NoHost}
      /\ DOMAIN b = DOMAIN old
  <2>1. CASE k = "service"
    BY <1>1, <2>1 DEF Build, BuildService, ChildObj
  <2>2. CASE k = "route"
    <3>1. /\ b.built = ByName /\ b.host = AdmittedHost(w.cr.spec.host, old)
          /\ DOMAIN b = DOMAIN old
      BY <2>2 DEF Build, BuildRoute, ChildObj
    <3> QED  BY <1>1, <2>2, <3>1 DEF AdmittedHost
  <2>3. CASE k = "statefulset"
    <3>1. b.built = w.cr.spec /\ b.host = w.host /\ DOMAIN b = DOMAIN old
      BY <2>3 DEF Build, BuildStatefulSet, ChildObj
    <3> QED  BY <1>1, <1>2, <2>3, <3>1
  <2>4. CASE k = "discovery"
    BY <1>1, <2>4 DEF Build, BuildDiscoveryService, ChildObj
  <2>5. CASE k = "monitor"
    BY <1>1, <2>5 DEF Build, BuildServiceMonitor, ChildObj
  <2> QED  BY <1>1, <2>1, <2>2, <2>3, <2>4, <2>5 DEF AllKinds
<1> HIDE DEF b
<1>5. Written(k, old) = [[b EXCEPT !.live = TRUE] EXCEPT !.owner = w.cr.uid]
  BY DEF Written, SetControllerReference, b
<1>6. /\ Written(k, old).built = b.built /\ Written(k, old).host = b.host
      /\ Written(k, old).owner = w.cr.uid
  BY <1>4, <1>5 DEF ChildObj
<1> QED  BY <1>3, <1>4, <1>6 DEF BuiltFor

\* A child is created or updated, or was found built; what is found in the cache
\* is what is stored, except for the ServiceMonitor, which is not sent.
Writes(k) ==
    /\ Stores(children[k], children'[k]) /\ BuiltFor(k, children'[k].now)
    /\ \A l \in Kinds \ {k} : children'[l] = children[l]
    /\ Proceed(k, children'[k].now)

Finds(k) ==
    LET s == children[k].seen IN
    /\ children' = children /\ BuiltFor(k, s) /\ Proceed(k, s)
    /\ k = "monitor" \/ children[k].now = s

\* The three outcomes of CreateOrUpdate.
LEMMA Outcomes ==
    ASSUME ChildrenInv, NEW k \in Kinds, CreateOrUpdate(k)
    PROVE  /\ At(k) /\ UNCHANGED <<keycloak, queue>>
           /\ (Report("error") /\ children' = children) \/ Writes(k) \/ Finds(k)
<1> DEFINE o == children[k]
           old == IF o.seen.live THEN o.seen ELSE NoChild
           new == Written(k, old)
           accepted == IF old.live THEN Current(o, old) ELSE ~o.now.live
<1>1. /\ o \in Tracked(ChildObj) /\ Locked(o)
      /\ o.now \in ChildObj /\ o.seen \in ChildObj
  BY DEF ChildrenInv, TypeOK, Tracked
<1>2. old \in ChildObj /\ NoChild.live = FALSE
  BY <1>1, Absent DEF NoChild
<1>3. BuiltFor(k, new) /\ new \in ChildObj
  <2> HIDE DEF old
  <2> QED  BY <1>2, BuildsFor, BuildType DEF ChildrenInv
<1>4. At(k) /\ UNCHANGED <<keycloak, queue>>
  BY DEF CreateOrUpdate
<1>5. \/ Report("error") /\ children' = children
      \/ /\ accepted
         /\ children' = [children EXCEPT ![k] = Put(o, new)]
         /\ Proceed(k, Put(o, new).now)
      \/ /\ k # "monitor" => accepted
         /\ new = old /\ Proceed(k, old) /\ children' = children
  BY DEF CreateOrUpdate, Written
<1>6. o.now.live /\ accepted => old = o.now
  <2>1. o.now.live /\ accepted => o.seen.live /\ Current(o, o.seen)
    BY <1>2
  <2> HIDE DEF o
  <2> QED  BY <1>1, <2>1, Accepted
<1>7. CASE /\ accepted
           /\ children' = [children EXCEPT ![k] = Put(o, new)]
           /\ Proceed(k, Put(o, new).now)
  <2> DEFINE x == Put(o, new).now
  <2>1. /\ Stores(o, Put(o, new))
        /\ x.live = new.live /\ x.owner = new.owner
        /\ x.built = new.built /\ x.host = new.host
    <3> HIDE DEF o, new
    <3> QED  BY <1>1, <1>3, ChildStored
  <2> HIDE DEF new, old, accepted
  <2>2. BuiltFor(k, x)
    BY <1>3, <2>1 DEF BuiltFor
  <2>3. children'[k] = Put(o, new) /\ \A l \in Kinds \ {k} : children'[l] = children[l]
    BY <1>7 DEF ChildrenInv, TypeOK
  <2>4. Writes(k)
    BY <1>7, <2>1, <2>2, <2>3 DEF Writes
  <2> QED  BY <1>4, <2>4
<1>8. CASE /\ k # "monitor" => accepted
           /\ new = old /\ Proceed(k, old) /\ children' = children
  <2>1. old.live
    BY <1>3, <1>8 DEF BuiltFor
  <2>2. old = o.seen
    BY <1>2, <2>1
  <2>3. k # "monitor" => o.now = o.seen
    BY <1>6, <1>8, <2>1, <2>2 DEF Current
  <2>4. BuiltFor(k, o.seen)
    BY <1>3, <1>8, <2>2
  <2> HIDE DEF old, new, accepted
  <2>5. Finds(k)
    BY <1>8, <2>2, <2>3, <2>4 DEF Finds
  <2> QED  BY <1>4, <2>5
<1> QED  BY <1>4, <1>5, <1>7, <1>8
-----------------------------------------------------------------------------
(***************************************************************************)
(* The order of the watches, and what they tell; whose a child becomes.    *)
(***************************************************************************)
Tells(k, o, p) ==
    /\ Moves(o, p)
    /\ Stores(o, p) /\ k # "statefulset" =>
          Same(k, o.now, p.now) \/ ChildPasses(k, o.now, p.now)
    /\ p.now.live => \/ o.now.live /\ p.now.owner = o.now.owner
                     \/ Reconciling /\ p.now.owner = w.cr.uid

\* What is not written has nothing to tell.
LEMMA StillTells ==
    ASSUME NEW k, NEW o \in Tracked(ChildObj), NEW p, Moves(o, p), p.now = o.now
    PROVE  Tells(k, o, p)
BY DEF Tells, Same

\* Every step of a child tells.
LEMMA ChildrenTell ==
    ASSUME ChildrenInv, [Next]_vars, NEW k \in Kinds
    PROVE  Tells(k, children[k], children'[k])
<1>1. children[k] \in Tracked(ChildObj) /\ children[k].now \in ChildObj
  BY DEF ChildrenInv, TypeOK, Tracked
<1>2. CASE UNCHANGED children
  BY <1>1, <1>2, StillTells DEF Moves
<1>3. ASSUME NEW l \in Kinds, Writes(l), Reconciling
      PROVE  Tells(k, children[k], children'[k])
  <2>1. CASE k = l
    <3> DEFINE v == children[k].now
               x == children'[k].now
    <3>1. /\ Stores(children[k], children'[k]) /\ x.live
          /\ x.owner = w.cr.uid
      BY <1>3, <2>1 DEF Writes, BuiltFor
    <3>2. v.live \in BOOLEAN
      BY <1>1 DEF ChildObj
    <3> HIDE DEF v, x
    <3>3. k # "statefulset" => Same(k, v, x) \/ ChildPasses(k, v, x)
      <4>1. x.live = TRUE \/ ~UpdateEvent(v, x)
        BY <3>1 DEF UpdateEvent
      <4>2. CASE ~v.live
        BY <4>2 DEF ChildPasses, UpdateEvent
      <4>3. CASE v.live /\ (k \in Versioned => v.built = x.built)
        <5>1. v.live = x.live
          BY <1>3, <2>1, <3>2, <4>3 DEF Writes, BuiltFor, x, UpdateEvent
        <5> QED  BY <3>1, <4>3, <5>1 DEF Same
      <4>4. CASE k \in Versioned /\ v.built # x.built
        BY <4>4 DEF ChildPasses
      <4> QED  BY <4>2, <4>3, <4>4
    <3> QED  BY <1>3, <3>1, <3>3 DEF Tells, Moves, v, x
  <2>2. CASE k # l
    BY <1>1, <1>3, <2>2, StillTells DEF Writes, Moves
  <2> QED  BY <2>1, <2>2
<1>4. ASSUME NEW l \in Kinds, Disturbs(l)
      PROVE  Tells(k, children[k], children'[k])
  <2>1. CASE k = l
    <3>1. /\ Stores(children[k], children'[k])
          /\ \/ ChildPasses(k, children[k].now, children'[k].now)
             \/ Harmless(k, children[k].now, children'[k].now)
          /\ children[k].now.live
          /\ children'[k].now.live =>
                children'[k].now.owner = children[k].now.owner
      BY <1>4, <2>1 DEF Disturbs
    <3>2. Harmless(k, children[k].now, children'[k].now)
             => Same(k, children[k].now, children'[k].now)
      BY DEF Harmless, Same
    <3> QED  BY <3>1, <3>2 DEF Tells, Moves
  <2>2. CASE k # l
    BY <1>1, <1>4, <2>2, StillTells DEF Disturbs, Moves
  <2> QED  BY <2>1, <2>2
<1>5. ASSUME NEW l \in Kinds, CreateOrUpdate(l)
      PROVE  Tells(k, children[k], children'[k])
  BY <1>2, <1>3, <1>5, Outcomes DEF Finds, At, Reconciling
<1>6. ASSUME NEW l \in Kinds, ObserveChild(l)
      PROVE  Tells(k, children[k], children'[k])
  <2>1. PICK v \in children[l].pend :
           /\ NextEvent(children[l], v)
           /\ children' = [children EXCEPT ![l] = Observe(children[l], v)]
    BY <1>6 DEF ObserveChild
  <2>2. children'[k] = IF k = l THEN Observe(children[k], v) ELSE children[k]
    BY <2>1 DEF ChildrenInv, TypeOK
  <2>3. Moves(children[k], children'[k]) /\ children'[k].now = children[k].now
    BY <1>1, <2>1, <2>2, ObserveVersions DEF Moves
  <2> QED  BY <1>1, <2>3, StillTells
<1>7. CASE Restart
  <2>1. children'[k] = Relist(children[k])
    BY <1>7 DEF Restart
  <2> QED  BY <1>1, <2>1, RelistVersions, StillTells DEF Moves
<1>8. CASE \/ Dequeue \/ GetKeycloak \/ UpdateStatus \/ ObserveKeycloak
           \/ UserWrites \/ UserDeletes \/ UNCHANGED vars
  <2>1. UNCHANGED children
    BY <1>8 DEF Dequeue, GetKeycloak, UpdateStatus, ObserveKeycloak, UserWrites,
                UserDeletes, vars
  <2> QED  BY <1>2, <2>1
<1>9. CASE \/ UpdatePods \/ RollOut
           \/ \E l \in Kinds : UserDrifts(l) \/ Collect(l)
  BY <1>4, <1>9, ClusterDisturbs
<1> QED  BY <1>5, <1>6, <1>7, <1>8, <1>9 DEF Next, Reconcile

\* A resource that is written keeps its uid, or is new and has one of its own.
Named(o, p) == p.now.live => \/ o.now.live /\ p.now.uid = o.now.uid
                             \/ p.now.uid = p.now.rv

\* What users write to the resource: it is new, has another spec, or is gone.
LEMMA UserStores ==
    ASSUME ChildrenInv, UserWrites \/ UserDeletes
    PROVE  /\ Stores(keycloak, keycloak') /\ UNCHANGED <<children, queue, w>>
           /\ keycloak'.now.live =>
                 KeycloakPasses(keycloak.now, keycloak'.now)
           /\ Named(keycloak, keycloak')
<1>1. keycloak \in Tracked(KeycloakObj) /\ keycloak.now \in KeycloakObj
  BY DEF ChildrenInv, TypeOK, Tracked
<1>2. NoKeycloak \in KeycloakObj /\ NoKeycloak.live = FALSE
  BY Absent DEF NoKeycloak
<1>3. UNCHANGED <<children, queue, w>>
  BY DEF UserWrites, UserDeletes
<1>4. CASE UserDeletes
  <2>1. keycloak' = Put(keycloak, NoKeycloak)
    BY <1>4 DEF UserDeletes
  <2>2. Stores(keycloak, keycloak') /\ keycloak'.now.live = NoKeycloak.live
    BY <1>1, <1>2, <2>1, KeycloakStored
  <2> QED  BY <1>2, <1>3, <2>2 DEF Named
<1>5. CASE UserWrites
  <2> DEFINE Created(spec) == [NoKeycloak EXCEPT !.live = TRUE,
                                  !.uid = keycloak.now.rv + 1, !.spec = spec]
             Changed(spec) == [keycloak.now EXCEPT !.spec = spec]
  <2>1. \/ ~keycloak.now.live /\ \E spec \in Specs :
              keycloak' = Put(keycloak, Created(spec))
        \/ keycloak.now.live /\ \E spec \in Specs \ {keycloak.now.spec} :
              keycloak' = Put(keycloak, Changed(spec))
    BY <1>5 DEF UserWrites
  <2>2. ASSUME ~keycloak.now.live, NEW spec \in Specs,
               keycloak' = Put(keycloak, Created(spec))
        PROVE  /\ Stores(keycloak, keycloak') /\ Named(keycloak, keycloak')
               /\ KeycloakPasses(keycloak.now, keycloak'.now)
    <3>1. keycloak.now.rv + 1 \in Nat
      BY <1>1 DEF KeycloakObj
    <3>2. \A m \in Nat : [NoKeycloak EXCEPT !.live = TRUE, !.uid = m,
                                           !.spec = spec] \in KeycloakObj
      BY <1>2 DEF KeycloakObj
    <3>3. /\ Created(spec) \in KeycloakObj
          /\ Created(spec).uid = keycloak.now.rv + 1
      BY <1>2, <3>1, <3>2 DEF KeycloakObj
    <3> HIDE DEF Created
    <3>4. /\ Stores(keycloak, keycloak')
          /\ keycloak'.now.uid = keycloak.now.rv + 1
      BY <1>1, <2>2, <3>3, KeycloakStored
    <3> QED  BY <2>2, <3>4 DEF KeycloakPasses, UpdateEvent, Named, Stores
  <2>3. ASSUME keycloak.now.live, NEW spec \in Specs \ {keycloak.now.spec},
               keycloak' = Put(keycloak, Changed(spec))
        PROVE  /\ Stores(keycloak, keycloak') /\ Named(keycloak, keycloak')
               /\ KeycloakPasses(keycloak.now, keycloak'.now)
    <3>1. /\ Changed(spec) \in KeycloakObj /\ Changed(spec).spec = spec
          /\ Changed(spec).uid = keycloak.now.uid
      BY <1>1 DEF KeycloakObj
    <3> HIDE DEF Changed
    <3>2. /\ Stores(keycloak, keycloak') /\ keycloak'.now.spec = spec
          /\ keycloak'.now.uid = keycloak.now.uid
      BY <1>1, <2>3, <3>1, KeycloakStored
    <3> QED  BY <2>3, <3>2 DEF KeycloakPasses, Named
  <2> QED  BY <1>3, <2>1, <2>2, <2>3
<1> QED  BY <1>4, <1>5

\* The status that a reconcile writes.
LEMMA StatusStored ==
    ASSUME ChildrenInv,
           keycloak' = Put(keycloak, [keycloak.now EXCEPT !.status = w.status])
    PROVE  /\ Stores(keycloak, keycloak')
           /\ keycloak'.now.live = keycloak.now.live
           /\ keycloak'.now.uid = keycloak.now.uid
           /\ keycloak'.now.spec = keycloak.now.spec
           /\ keycloak'.now.status = w.status
<1>1. /\ keycloak \in Tracked(KeycloakObj) /\ keycloak.now \in KeycloakObj
      /\ w.status \in Status
  BY DEF ChildrenInv, TypeOK, Tracked, Worker
<1> DEFINE v == [keycloak.now EXCEPT !.status = w.status]
<1>2. /\ v \in KeycloakObj /\ v.live = keycloak.now.live
      /\ v.uid = keycloak.now.uid /\ v.spec = keycloak.now.spec
      /\ v.status = w.status
  BY <1>1 DEF KeycloakObj
<1> HIDE DEF v
<1>3. keycloak' = Put(keycloak, v)
  BY DEF v
<1> QED  BY <1>1, <1>2, <1>3, KeycloakStored

\* Every step of the resource.
LEMMA KeycloakMoves ==
    ASSUME ChildrenInv, [Next]_vars
    PROVE  Moves(keycloak, keycloak') /\ Named(keycloak, keycloak')
<1>1. CASE UNCHANGED keycloak
  BY <1>1 DEF Moves, Named
<1>2. CASE UserWrites \/ UserDeletes
  BY <1>2, UserStores DEF Moves
<1>3. CASE UpdateStatus
  BY <1>1, <1>3, StatusStored DEF UpdateStatus, Moves, Named
<1>4. CASE ObserveKeycloak
  <2>1. PICK v \in keycloak.pend :
           NextEvent(keycloak, v) /\ keycloak' = Observe(keycloak, v)
    BY <1>4 DEF ObserveKeycloak
  <2>2. keycloak'.now = keycloak.now
    BY <2>1, ObserveVersions DEF ChildrenInv, TypeOK
  <2> QED  BY <2>1, <2>2 DEF Moves, Named
<1>5. CASE Restart
  BY <1>5 DEF Restart, Moves, Relist, InSync, Named
<1>6. CASE \/ Dequeue \/ GetKeycloak \/ UpdatePods \/ RollOut \/ UNCHANGED vars
           \/ \E k \in Kinds : \/ CreateOrUpdate(k) \/ ObserveChild(k)
                               \/ UserDrifts(k) \/ Collect(k)
  <2>1. UNCHANGED keycloak
    BY <1>6 DEF Dequeue, GetKeycloak, UpdatePods, RollOut, Touch, vars,
                CreateOrUpdate, ObserveChild, UserDrifts, Collect
  <2> QED  BY <1>1, <2>1
<1> QED  BY <1>2, <1>3, <1>4, <1>5, <1>6 DEF Next, Reconcile

\* The order is kept, and nothing remains untold.
LEMMA OrderStep ==
    ASSUME OrderInv, ToldInv, [Next]_vars
    PROVE  OrderInv' /\ ToldInv'
<1>1. ChildrenInv /\ ChildrenInv'
  BY StepInv DEF OrderInv
<1>2. /\ keycloak \in Tracked(KeycloakObj) /\ keycloak' \in Tracked(KeycloakObj)
      /\ \A k \in Kinds : /\ children[k] \in Tracked(ChildObj)
                          /\ children'[k] \in Tracked(ChildObj)
  BY <1>1 DEF ChildrenInv, TypeOK
<1>3. /\ Moves(keycloak, keycloak')
      /\ \A k \in Kinds : Tells(k, children[k], children'[k])
  BY <1>1, KeycloakMoves, ChildrenTell
<1>4. Ordered(keycloak')
  BY <1>2, <1>3, Numbered, MovesOrdered DEF OrderInv
<1>5. \A k \in Kinds : Ordered(children'[k])
  BY <1>2, <1>3, Numbered, MovesOrdered DEF OrderInv, Tells
<1>6. KeycloakTold(keycloak')
  <2>1. Ordered(keycloak) /\ KeycloakTold(keycloak)
    BY DEF OrderInv, ToldInv
  <2>2. CASE Stores(keycloak, keycloak')
    BY <1>2, <2>1, <2>2, StoresKeycloakTold
  <2>3. CASE keycloak' = Relist(keycloak)
    BY <2>3, InSyncTold DEF Relist
  <2>4. ASSUME NEW v \in keycloak.pend, NextEvent(keycloak, v),
               keycloak' = Observe(keycloak, v)
        PROVE  KeycloakTold(keycloak')
    BY <1>2, <2>1, <2>4, ObserveKeycloakTold
  <2> QED  BY <1>3, <2>1, <2>2, <2>3, <2>4 DEF Moves
<1>7. ASSUME NEW k \in Kinds \ {"statefulset"} PROVE ChildTold(k, children'[k])
  <2> DEFINE o == children[k]
             p == children'[k]
  <2>1. /\ o \in Tracked(ChildObj) /\ p \in Tracked(ChildObj)
        /\ Ordered(o) /\ ChildTold(k, o) /\ Tells(k, o, p)
    BY <1>2, <1>3 DEF OrderInv, ToldInv
  <2> HIDE DEF o, p
  <2>2. ASSUME Stores(o, p) PROVE ChildTold(k, p)
    BY <1>7, <2>1, <2>2, StoresTold DEF Tells
  <2>3. ASSUME p = Relist(o) PROVE ChildTold(k, p)
    BY <2>3, InSyncTold DEF Relist
  <2>4. ASSUME NEW v \in o.pend, NextEvent(o, v), p = Observe(o, v)
        PROVE  ChildTold(k, p)
    BY <2>1, <2>4, ObserveTold
  <2>5. ChildTold(k, p)
    BY <2>1, <2>2, <2>3, <2>4 DEF Tells, Moves
  <2> QED  BY <2>5 DEF p
<1>8. OrderInv'
  BY <1>1, <1>4, <1>5 DEF OrderInv
<1>9. ToldInv'
  BY <1>6, <1>7 DEF ToldInv
<1> QED  BY <1>8, <1>9
-----------------------------------------------------------------------------
(***************************************************************************)
(* Whose the children are.                                                 *)
(***************************************************************************)

\* Uids and owners are numbers.
LEMMA Counted ==
    /\ \A o \in Tracked(KeycloakObj) : \A v \in Versions(o) :
          v.uid \in Nat /\ v.rv \in Nat
    /\ \A o \in Tracked(ChildObj) : \A v \in Versions(o) :
          v.owner \in Nat /\ v.rv \in Nat
    /\ TypeOK => w.cr.uid \in Nat
<1>1. /\ \A o \in Tracked(KeycloakObj) : \A v \in Versions(o) : v \in KeycloakObj
      /\ \A o \in Tracked(ChildObj) : \A v \in Versions(o) : v \in ChildObj
  BY VersionsType
<1>2. TypeOK => w.cr \in KeycloakObj
  BY DEF TypeOK, Worker
<1> QED  BY <1>1, <1>2 DEF KeycloakObj, ChildObj

\* A step of the resource keeps the order of its uids, and what precedes it.
LEMMA UidsStep ==
    ASSUME OrderInv, TypeOK', Moves(keycloak, keycloak'),
           Named(keycloak, keycloak'), UidsGrow(keycloak)
    PROVE  /\ UidsGrow(keycloak')
           /\ \A n \in Nat : Precedes(n, keycloak) => Precedes(n, keycloak')
<1> DEFINE o == keycloak
           p == keycloak'
<1>1. /\ \A v \in Versions(o) : v.uid \in Nat /\ v.rv \in Nat
      /\ \A v \in Versions(p) : v.uid \in Nat /\ v.rv \in Nat
  BY Counted DEF OrderInv, ChildrenInv, TypeOK
<1>2. /\ o \in Tracked(KeycloakObj) /\ o.now \in Versions(o)
      /\ p.now \in Versions(p) /\ \A v \in Versions(o) : v.rv <= o.now.rv
  BY DEF OrderInv, ChildrenInv, TypeOK, Ordered, Locked, Versions
<1>3. \A v \in Versions(p) : v \in Versions(o) \/ v = p.now
  BY <1>2, MovesVersions
<1>4. Named(o, p) /\ UidsGrow(o) /\ Moves(o, p)
  OBVIOUS
<1> HIDE DEF o, p
<1>5. CASE p.now = o.now
  <2>1. Versions(p) \subseteq Versions(o)
    BY <1>2, <1>3, <1>5
  <2>2. UidsGrow(p)
    BY <1>4, <2>1 DEF UidsGrow
  <2>3. \A n \in Nat : Precedes(n, o) => Precedes(n, p)
    BY <1>5, <2>1 DEF Precedes
  <2> QED  BY <2>2, <2>3 DEF o, p
<1>6. CASE p.now.rv = o.now.rv + 1
  <2>1. ASSUME p.now.live
        PROVE  /\ p.now.uid <= p.now.rv
               /\ \A v \in Versions(o) : v.live => v.uid <= p.now.uid
               /\ \A n \in Nat : Precedes(n, o) => n <= p.now.uid
    <3>1. CASE o.now.live /\ p.now.uid = o.now.uid
      <4>1. /\ o.now.uid <= o.now.rv
            /\ \A v \in Versions(o) : v.live => v.uid <= o.now.uid
        BY <1>2, <1>4, <3>1 DEF UidsGrow
      <4>2. \A n \in Nat : Precedes(n, o) => n <= o.now.uid
        BY <1>2, <3>1 DEF Precedes
      <4>3. o.now.uid \in Nat /\ o.now.rv \in Nat
        BY <1>1, <1>2
      <4> QED  BY <1>6, <3>1, <4>1, <4>2, <4>3
    <3>2. CASE p.now.uid = p.now.rv
      <4>1. \A v \in Versions(o) : v.live => v.uid <= v.rv
        BY <1>4 DEF UidsGrow
      <4>2. \A n \in Nat : Precedes(n, o) => n <= o.now.rv
        BY DEF Precedes
      <4>3. o.now.rv \in Nat
        BY <1>1, <1>2
      <4> QED  BY <1>1, <1>2, <1>6, <3>2, <4>1, <4>2, <4>3
    <3> QED  BY <1>4, <2>1, <3>1, <3>2 DEF Named
  <2>2. UidsGrow(p)
    <3> SUFFICES ASSUME NEW v \in Versions(p), NEW x \in Versions(p),
                        v.live, x.live
                 PROVE  v.uid <= v.rv /\ (v.rv <= x.rv => v.uid <= x.uid)
      BY DEF UidsGrow
    <3>1. v.uid <= v.rv
      BY <1>3, <1>4, <2>1 DEF UidsGrow
    <3>2. CASE v \in Versions(o) /\ x \in Versions(o)
      BY <1>4, <3>2 DEF UidsGrow
    <3>3. CASE v \in Versions(o) /\ x = p.now
      BY <2>1, <3>1, <3>3
    <3>4. CASE v = p.now /\ x \in Versions(o)
      <4>1. ~(v.rv <= x.rv)
        BY <1>1, <1>2, <1>6, <3>4
      <4> QED  BY <3>1, <4>1
    <3>5. CASE v = p.now /\ x = p.now
      BY <1>1, <3>1, <3>5
    <3> QED  BY <1>3, <3>2, <3>3, <3>4, <3>5
  <2>3. ASSUME NEW n \in Nat, Precedes(n, o) PROVE Precedes(n, p)
    <3>1. n <= p.now.rv
      BY <1>1, <1>2, <1>6, <2>3 DEF Precedes
    <3>2. \A v \in Versions(p) : v.live => n <= v.uid
      BY <1>3, <2>1, <2>3 DEF Precedes
    <3> QED  BY <3>1, <3>2 DEF Precedes
  <2> QED  BY <2>2, <2>3 DEF o, p
<1>7. p.now = o.now \/ p.now.rv = o.now.rv + 1
  BY <1>2, <1>4, RelistVersions, ObserveVersions DEF Moves, Stores
<1> QED  BY <1>5, <1>6, <1>7

\* A step of a child gives it no owner but the one it has, or the resource that
\* is being reconciled.
LEMMA OwnersStep ==
    ASSUME OrderInv, OwnerInv, TypeOK', NEW k \in Kinds,
           Tells(k, children[k], children'[k])
    PROVE  /\ OwnersGrow(children'[k])
           /\ \A n \in Owners(children'[k]) :
                 n \in Owners(children[k]) \/ (Reconciling /\ n = w.cr.uid)
<1> DEFINE o == children[k]
           p == children'[k]
<1>1. /\ \A v \in Versions(o) : v.owner \in Nat /\ v.rv \in Nat
      /\ \A v \in Versions(p) : v.owner \in Nat /\ v.rv \in Nat
      /\ w.cr.uid \in Nat
  <2>1. TypeOK /\ o \in Tracked(ChildObj) /\ p \in Tracked(ChildObj)
    BY DEF OrderInv, ChildrenInv, TypeOK
  <2> HIDE DEF o, p
  <2> QED  BY <2>1, Counted
<1>2. /\ o \in Tracked(ChildObj) /\ o.now \in Versions(o)
      /\ p.now \in Versions(p) /\ \A v \in Versions(o) : v.rv <= o.now.rv
  BY DEF OrderInv, ChildrenInv, TypeOK, Ordered, Locked, Versions
<1>3. /\ OwnersGrow(o) /\ Tells(k, o, p)
      /\ Reconciling => \A n \in Owners(o) : n <= w.cr.uid
  BY DEF OwnerInv
<1> HIDE DEF o, p
<1>4. \A v \in Versions(p) : v \in Versions(o) \/ v = p.now
  BY <1>2, <1>3, MovesVersions DEF Tells
<1>5. p.now = o.now \/ p.now.rv = o.now.rv + 1
  BY <1>2, <1>3, RelistVersions, ObserveVersions DEF Tells, Moves, Stores
<1>6. \A v \in Versions(o) : v.live => v.owner \in Owners(o)
  BY DEF Owners
<1>7. ASSUME p.now.live
      PROVE  /\ \A v \in Versions(o) : v.live => v.owner <= p.now.owner
             /\ \/ p.now.owner \in Owners(o)
                \/ Reconciling /\ p.now.owner = w.cr.uid
  <2>1. CASE o.now.live /\ p.now.owner = o.now.owner
    BY <1>2, <1>3, <1>6, <2>1 DEF OwnersGrow
  <2>2. CASE Reconciling /\ p.now.owner = w.cr.uid
    BY <1>3, <1>6, <2>2
  <2> QED  BY <1>3, <1>7, <2>1, <2>2 DEF Tells
<1>8. OwnersGrow(p)
  <2> SUFFICES ASSUME NEW v \in Versions(p), NEW x \in Versions(p),
                      v.live, x.live, v.rv <= x.rv
               PROVE  v.owner <= x.owner
    BY DEF OwnersGrow
  <2>1. CASE v \in Versions(o) /\ x \in Versions(o)
    BY <1>3, <2>1 DEF OwnersGrow
  <2>2. CASE v \in Versions(o) /\ x = p.now
    BY <1>7, <2>2
  <2>3. CASE v = p.now /\ x \in Versions(o)
    <3>1. CASE p.now = o.now
      BY <1>2, <1>3, <2>3, <3>1 DEF OwnersGrow
    <3>2. CASE p.now.rv = o.now.rv + 1
      BY <1>1, <1>2, <2>3, <3>2
    <3> QED  BY <1>5, <3>1, <3>2
  <2>4. CASE v = p.now /\ x = p.now
    BY <1>1, <2>4
  <2> QED  BY <1>4, <2>1, <2>2, <2>3, <2>4
<1>9. ASSUME NEW n \in Owners(p)
      PROVE  n \in Owners(o) \/ (Reconciling /\ n = w.cr.uid)
  <2>1. PICK v \in Versions(p) : v.live /\ n = v.owner
    BY <1>9 DEF Owners
  <2> QED  BY <1>4, <1>6, <1>7, <2>1
<1> QED  BY <1>8, <1>9 DEF o, p

\* What the worker has read, if anything, is what it had read or is in the cache.
LEMMA ReadsStep ==
    ASSUME ChildrenInv, [Next]_vars, Reconciling'
    PROVE  \/ Reconciling /\ w'.cr = w.cr
           \/ /\ keycloak.seen.live /\ w'.cr = keycloak.seen
              /\ UNCHANGED children
<1>1. w \in Worker
  BY DEF ChildrenInv, TypeOK
<1>2. w'.pc \notin {"idle", "get"} /\ Idle.pc = "idle"
  BY Positions DEF Reconciling, Idle
<1>3. CASE UNCHANGED w
  BY <1>3 DEF Reconciling
<1>4. CASE Dequeue
  BY <1>1, <1>2, <1>4 DEF Dequeue, Worker
<1>5. CASE GetKeycloak
  BY <1>1, <1>2, <1>5 DEF GetKeycloak, Done, Worker
<1>6. CASE UpdateStatus \/ Restart
  BY <1>2, <1>6 DEF UpdateStatus, Done, Requeue, Restart
<1>7. ASSUME NEW k \in Kinds, CreateOrUpdate(k)
      PROVE  Reconciling /\ w'.cr = w.cr
  <2>1. At(k) /\ w'.cr = w.cr
    BY <1>1, <1>7 DEF CreateOrUpdate, Report, Proceed, Worker
  <2> QED  BY <2>1 DEF At, Reconciling
<1>8. CASE \/ ObserveKeycloak \/ UserWrites \/ UserDeletes \/ UpdatePods
           \/ RollOut \/ UNCHANGED vars
           \/ \E k \in Kinds : ObserveChild(k) \/ UserDrifts(k) \/ Collect(k)
  <2>1. UNCHANGED w
    BY <1>8 DEF ObserveKeycloak, UserWrites, UserDeletes, UpdatePods, RollOut,
                Touch, vars, ObserveChild, UserDrifts, Collect
  <2> QED  BY <1>3, <2>1
<1> QED  BY <1>4, <1>5, <1>6, <1>7, <1>8 DEF Next, Reconcile

\* Owners stay in order.
LEMMA OwnerStep ==
    ASSUME OrderInv, OwnerInv, TypeOK', [Next]_vars
    PROVE  OwnerInv'
<1>1. ChildrenInv /\ TypeOK
  BY DEF OrderInv, ChildrenInv
<1>2. /\ Moves(keycloak, keycloak') /\ Named(keycloak, keycloak')
      /\ \A k \in Kinds : Tells(k, children[k], children'[k])
  BY <1>1, KeycloakMoves, ChildrenTell
<1>3. /\ UidsGrow(keycloak')
      /\ \A n \in Nat : Precedes(n, keycloak) => Precedes(n, keycloak')
  BY <1>2, UidsStep DEF OwnerInv
<1>4. ASSUME NEW k \in Kinds
      PROVE  /\ OwnersGrow(children'[k])
             /\ \A n \in Owners(children'[k]) :
                   n \in Owners(children[k]) \/ (Reconciling /\ n = w.cr.uid)
  BY <1>2, OwnersStep
<1>5. /\ w.cr.uid \in Nat
      /\ \A k \in Kinds : \A n \in Owners(children[k]) : n \in Nat
  BY <1>1, Counted DEF TypeOK, Owners
<1>6. ASSUME NEW k \in Kinds, NEW n \in Owners(children'[k])
      PROVE  Precedes(n, keycloak')
  BY <1>3, <1>4, <1>5 DEF OwnerInv
<1>7. ASSUME Reconciling'
      PROVE  /\ Precedes(w'.cr.uid, keycloak')
             /\ \A k \in Kinds : \A n \in Owners(children'[k]) : n <= w'.cr.uid
  <2>1. CASE Reconciling /\ w'.cr = w.cr
    <3>1. \A k \in Kinds : \A n \in Owners(children'[k]) : n <= w.cr.uid
      BY <1>4, <1>5, <2>1 DEF OwnerInv
    <3>2. Precedes(w.cr.uid, keycloak')
      BY <1>3, <1>5, <2>1 DEF OwnerInv
    <3> QED  BY <2>1, <3>1, <3>2
  <2>2. CASE /\ keycloak.seen.live /\ w'.cr = keycloak.seen
             /\ UNCHANGED children
    <3>1. /\ keycloak.seen \in Versions(keycloak)
          /\ keycloak.now \in Versions(keycloak)
      BY DEF Versions
    <3>2. \A v \in Versions(keycloak) : keycloak.seen.rv <= v.rv
      BY DEF OrderInv, Ordered, Behind
    <3>3. /\ keycloak.seen.uid \in Nat /\ keycloak.seen.rv \in Nat
          /\ keycloak.now.rv \in Nat
      BY <1>1, <3>1, Counted DEF TypeOK
    <3>4. keycloak.seen.uid <= keycloak.seen.rv
      BY <2>2, <3>1 DEF OwnerInv, UidsGrow
    <3>5. \A v \in Versions(keycloak) : v.live => keycloak.seen.uid <= v.uid
      BY <2>2, <3>1, <3>2 DEF OwnerInv, UidsGrow
    <3>6. Precedes(keycloak.seen.uid, keycloak)
      BY <3>1, <3>2, <3>3, <3>4, <3>5 DEF Precedes
    <3>7. \A k \in Kinds : \A n \in Owners(children[k]) : n <= keycloak.seen.uid
      BY <2>2, <3>1 DEF OwnerInv, Precedes
    <3> QED  BY <1>3, <2>2, <3>3, <3>6, <3>7
  <2> QED  BY <1>1, <1>7, <2>1, <2>2, ReadsStep
<1> QED  BY <1>3, <1>4, <1>6, <1>7 DEF OwnerInv
-----------------------------------------------------------------------------
(***************************************************************************)
(* Every step keeps the children in their place or wakes the controller.   *)
(***************************************************************************)

\* The worker is in one place.
LEMMA Places ==
    /\ w.pc \in {"idle", "get"} => ~Reconciling
    /\ Reconciling => w.pc \notin {"idle", "get"}
    /\ \A k \in Kinds : At(k) => Reconciling /\ ~At("status") /\ ~At("idle")
BY Positions DEF Reconciling, At

\* What the worker has read stays told apart while it keeps it.
LEMMA StillRead ==
    ASSUME OrderInv, OrderInv', ReadInOrder, Reconciling, w'.cr = w.cr,
           Moves(keycloak, keycloak')
    PROVE  Distinguished(w'.cr, keycloak')
<1>1. keycloak \in Tracked(KeycloakObj) /\ keycloak' \in Tracked(KeycloakObj)
  BY DEF OrderInv, ChildrenInv, TypeOK
<1>2. w.cr.rv \in Nat /\ Distinguished(w.cr, keycloak)
  BY DEF OrderInv, ChildrenInv, TypeOK, Worker, KeycloakObj, ReadInOrder
<1> QED  BY <1>1, <1>2, Numbered, MovesDistinguished

\* A step that does nothing to the worker, the stored resource and the places of
\* the children, or wakes the controller.
LEMMA Carried ==
    ASSUME WakeInv, OrderInv', Moves(keycloak, keycloak'),
           w' = w, keycloak'.now = keycloak.now,
           KeycloakWakes => KeycloakWakes' \/ queue',
           Woken(queue, children) => Woken(queue', children'),
           \/ Woken(queue', children')
           \/ \A k \in Kinds :
                 \/ children'[k].now = children[k].now
                 \/ Harmless(k, children[k].now, children'[k].now)
    PROVE  ReadInOrder' /\ ProgressInv' /\ RestInv'
<1>1. ReadInOrder'
  BY StillRead DEF WakeInv, ReadInOrder, Reconciling
<1>2. ASSUME ~Woken(queue', children')
      PROVE  \A k \in Kinds :
                 \/ children'[k].now = children[k].now
                 \/ Harmless(k, children[k].now, children'[k].now)
  BY <1>2
<1>3. ProgressInv'
  <2> SUFFICES ASSUME Reconciling', Current(keycloak', w'.cr),
                      w'.pc = "status" => w'.status # "error",
                      ~Woken(queue', children')
               PROVE  /\ Placed(children', Before(w'.pc), w'.cr, w'.host, w'.up)
                      /\ w'.pc = "status" =>
                            w'.status = IF w'.up THEN "ready" ELSE "waiting"
    BY DEF ProgressInv, At
  <2>1. Reconciling /\ Current(keycloak, w.cr) /\ ~Woken(queue, children)
    BY DEF Reconciling, Current
  <2>2. /\ Placed(children, Before(w.pc), w.cr, w.host, w.up)
        /\ w.pc = "status" => w.status = IF w.up THEN "ready" ELSE "waiting"
    BY <2>1 DEF WakeInv, ProgressInv, At
  <2>3. \A k \in Before(w.pc) : k \in Kinds
    BY DEF Before
  <2>4. Placed(children', Before(w.pc), w.cr, w.host, w.up)
    BY <1>2, <2>2, <2>3, HarmlessPlace
  <2> QED  BY <2>2, <2>4
<1>4. RestInv'
  <2> SUFFICES ASSUME w'.pc = "idle", keycloak'.now.live,
                      keycloak'.now.status # "error",
                      ~Woken(queue', children'), ~KeycloakWakes'
               PROVE  Placed(children', Kinds, keycloak'.now,
                             children'["statefulset"].now.host,
                             keycloak'.now.status # "waiting")
    BY DEF RestInv, At
  <2>1. ~queue'
    BY DEF Woken
  <2>2. Placed(children, Kinds, keycloak.now, children["statefulset"].now.host,
               keycloak.now.status # "waiting")
    BY <2>1 DEF WakeInv, RestInv, At
  <2>3. Placed(children', Kinds, keycloak.now,
               children["statefulset"].now.host,
               keycloak.now.status # "waiting")
    BY <1>2, <2>2, HarmlessPlace
  <2>4. children'["statefulset"].now.host = children["statefulset"].now.host
    BY <2>3, Positions DEF Placed
  <2> QED  BY <2>3, <2>4
<1> QED  BY <1>1, <1>3, <1>4

\* Events.
LEMMA EventWake ==
    ASSUME WakeInv, OrderInv',
           ObserveKeycloak \/ \E k \in Kinds : ObserveChild(k)
    PROVE  ReadInOrder' /\ ProgressInv' /\ RestInv'
<1>1. /\ keycloak \in Tracked(KeycloakObj) /\ Ordered(keycloak)
      /\ children \in [Kinds -> Tracked(ChildObj)]
      /\ children' \in [Kinds -> Tracked(ChildObj)]
      /\ \A k \in Kinds : Ordered(children[k])
  BY DEF WakeInv, OrderInv, ChildrenInv, TypeOK
<1>2. CASE ObserveKeycloak
  <2>1. PICK v \in keycloak.pend :
           /\ NextEvent(keycloak, v) /\ keycloak' = Observe(keycloak, v)
           /\ queue' = (queue \/ KeycloakPasses(keycloak.seen, v))
    BY <1>2 DEF ObserveKeycloak, KeycloakPasses
  <2>2. UNCHANGED <<children, w>>
    BY <1>2 DEF ObserveKeycloak
  <2>3. Moves(keycloak, keycloak') /\ keycloak'.now = keycloak.now
    BY <1>1, <2>1, ObserveVersions DEF Moves
  <2>4. ASSUME KeycloakWakes PROVE KeycloakWakes' \/ queue'
    <3>1. PICK y, x : Follows(keycloak, y, x) /\ KeycloakPasses(y, x)
      BY <2>4 DEF KeycloakWakes
    <3>2. (y = keycloak.seen /\ x = v) \/ Follows(keycloak', y, x)
      BY <1>1, <2>1, <3>1, Numbered, ObserveOrdered
    <3> QED  BY <2>1, <3>1, <3>2 DEF KeycloakWakes
  <2>5. Woken(queue, children) => Woken(queue', children')
    BY <2>1, <2>2 DEF Woken
  <2> QED  BY <2>2, <2>3, <2>4, <2>5, Carried
<1>3. ASSUME NEW k \in Kinds, ObserveChild(k)
      PROVE  ReadInOrder' /\ ProgressInv' /\ RestInv'
  <2>1. PICK v \in children[k].pend :
           /\ NextEvent(children[k], v)
           /\ children' = [children EXCEPT ![k] = Observe(children[k], v)]
           /\ queue' = (queue \/ ChildPasses(k, children[k].seen, v))
    BY <1>3 DEF ObserveChild
  <2>2. UNCHANGED <<keycloak, w>>
    BY <1>3 DEF ObserveChild
  <2>3. \A l \in Kinds : children'[l] = IF l = k THEN Observe(children[k], v)
                                        ELSE children[l]
    BY <1>1, <2>1
  <2>4. \A l \in Kinds : children'[l].now = children[l].now
    BY <1>1, <2>3, ObserveVersions
  <2>5. \A l \in Kinds : Delivers(l, children[l], children'[l], queue')
    BY <2>1, <2>3 DEF Delivers
  <2>6. Woken(queue, children) => Woken(queue', children')
    <3>1. queue => queue'
      BY <2>1
    <3> QED  BY <1>1, <2>5, <3>1, StaysWoken, Zenon
  <2>7. KeycloakWakes => KeycloakWakes'
    BY <2>2 DEF KeycloakWakes
  <2> QED  BY <2>2, <2>4, <2>6, <2>7, Carried DEF Moves
<1> QED  BY <1>2, <1>3

\* Writes to a child by somebody else.
LEMMA DisturbWake ==
    ASSUME WakeInv, OrderInv', NEW k \in Kinds, Disturbs(k)
    PROVE  ReadInOrder' /\ ProgressInv' /\ RestInv'
<1>1. /\ children \in [Kinds -> Tracked(ChildObj)]
      /\ children' \in [Kinds -> Tracked(ChildObj)]
      /\ \A l \in Kinds : Ordered(children[l])
  BY DEF WakeInv, OrderInv, ChildrenInv, TypeOK
<1>2. /\ Stores(children[k], children'[k]) /\ UNCHANGED <<keycloak, queue, w>>
      /\ \A l \in Kinds : l = k \/ children'[l] = children[l]
      /\ \/ ChildPasses(k, children[k].now, children'[k].now)
         \/ Harmless(k, children[k].now, children'[k].now)
  BY DEF Disturbs
<1>3. Woken(queue, children) => Woken(queue', children')
  <2>1. queue => queue'
    BY <1>2
  <2>2. \A l \in Kinds : Delivers(l, children[l], children'[l], queue')
    BY <1>2 DEF Delivers
  <2> QED  BY <1>1, <2>1, <2>2, StaysWoken, Zenon
<1>4. Follows(children'[k], children[k].now, children'[k].now)
  BY <1>1, <1>2, Numbered, StoresOrdered
<1>5. \/ Woken(queue', children')
      \/ \A l \in Kinds :
            \/ children'[l].now = children[l].now
            \/ Harmless(l, children[l].now, children'[l].now)
  BY <1>2, <1>4 DEF Woken, Wakes
<1>6. KeycloakWakes => KeycloakWakes'
  BY <1>2 DEF KeycloakWakes
<1> QED  BY <1>2, <1>3, <1>5, <1>6, Carried DEF Moves

\* Users write or delete the resource.
LEMMA UserWake ==
    ASSUME WakeInv, OrderInv', UserWrites \/ UserDeletes
    PROVE  ReadInOrder' /\ ProgressInv' /\ RestInv'
<1>1. /\ keycloak \in Tracked(KeycloakObj) /\ keycloak' \in Tracked(KeycloakObj)
      /\ Ordered(keycloak) /\ ChildrenInv
  BY DEF WakeInv, OrderInv, ChildrenInv, TypeOK
<1>2. /\ Stores(keycloak, keycloak') /\ UNCHANGED <<children, queue, w>>
      /\ keycloak'.now.live => KeycloakPasses(keycloak.now, keycloak'.now)
  BY <1>1, UserStores
<1>3. ReadInOrder'
  BY <1>2, StillRead DEF WakeInv, ReadInOrder, Reconciling, Moves
<1>4. Reconciling' => ~Current(keycloak', w'.cr)
  <2>1. Reconciling' => w.cr.rv <= keycloak.now.rv
    BY <1>2 DEF WakeInv, ReadInOrder, Reconciling, Distinguished
  <2>2. /\ w.cr.rv \in Nat /\ keycloak.now.rv \in Nat
        /\ keycloak'.now.rv = keycloak.now.rv + 1
    BY <1>1, <1>2 DEF ChildrenInv, TypeOK, Worker, KeycloakObj, Tracked, Stores
  <2> QED  BY <1>2, <2>1, <2>2 DEF Current
<1>5. Follows(keycloak', keycloak.now, keycloak'.now)
  BY <1>1, <1>2, Numbered, StoresOrdered
<1>6. keycloak'.now.live => KeycloakWakes'
  BY <1>2, <1>5 DEF KeycloakWakes
<1> QED  BY <1>3, <1>4, <1>6 DEF ProgressInv, RestInv

\* The start of a reconcile, and a restart.
LEMMA StartWake ==
    ASSUME WakeInv, OrderInv', Dequeue \/ GetKeycloak \/ Restart
    PROVE  ReadInOrder' /\ ProgressInv' /\ RestInv'
<1>1. w \in Worker /\ w' \in Worker /\ keycloak \in Tracked(KeycloakObj)
  BY DEF WakeInv, OrderInv, ChildrenInv, TypeOK
<1>2. Idle.pc = "idle"
  BY DEF Idle
<1>3. ASSUME w'.pc \in {"idle", "get"} PROVE ReadInOrder' /\ ProgressInv'
  BY <1>3, Positions DEF ReadInOrder, ProgressInv, Reconciling
<1>4. CASE Dequeue
  <2>1. w'.pc = "get"
    BY <1>1, <1>4 DEF Dequeue, Worker
  <2> QED  BY <1>3, <2>1 DEF RestInv, At
<1>5. CASE GetKeycloak
  <2>1. CASE ~keycloak.seen.live /\ w' = Idle
    <3>1. UNCHANGED keycloak
      BY <1>5 DEF GetKeycloak
    <3>2. keycloak.seen \in Versions(keycloak)
      BY DEF Versions
    <3>3. keycloak.now.live => KeycloakWakes
      <4>1. \/ keycloak.seen.live = keycloak.now.live
            \/ \E y, x : Follows(keycloak, y, x) /\ KeycloakPasses(y, x)
        BY <3>2 DEF WakeInv, ToldInv, KeycloakTold
      <4> QED  BY <2>1, <4>1 DEF KeycloakWakes
    <3>4. keycloak'.now.live => KeycloakWakes'
      BY <3>1, <3>3 DEF KeycloakWakes
    <3> QED  BY <1>2, <1>3, <2>1, <3>4 DEF RestInv
  <2>2. CASE w' = [w EXCEPT !.pc = Order[1], !.cr = keycloak.seen]
    <3>1. w'.pc = Order[1] /\ w'.cr = keycloak.seen
      BY <1>1, <2>2 DEF Worker
    <3>2. /\ Order[1] \in Kinds /\ Before(Order[1]) = {}
          /\ Order[1] \notin {"idle", "status"}
      BY Advance, Positions
    <3>3. Distinguished(keycloak.seen, keycloak)
      BY DEF WakeInv, OrderInv, Ordered, Locked, Versions, Distinguished
    <3>4. UNCHANGED <<keycloak, children, queue>>
      BY <1>5, <2>2, <3>1, <3>2, <1>2 DEF GetKeycloak, Done
    <3>5. Placed(children', {}, w'.cr, w'.host, w'.up)
      BY DEF Placed
    <3>6. ReadInOrder'
      BY <3>1, <3>3, <3>4 DEF ReadInOrder
    <3>7. ProgressInv'
      BY <3>1, <3>2, <3>5 DEF ProgressInv, At
    <3>8. RestInv'
      BY <3>1, <3>2 DEF RestInv, At
    <3> QED  BY <3>6, <3>7, <3>8
  <2> QED  BY <1>5, <2>1, <2>2 DEF GetKeycloak, Done
<1>6. CASE Restart
  <2>1. w' = Idle /\ (keycloak.now.live => queue')
    BY <1>6 DEF Restart
  <2>2. keycloak'.now = keycloak.now
    BY <1>1, <1>6, RelistVersions DEF Restart
  <2>3. RestInv'
    BY <2>1, <2>2 DEF RestInv, Woken
  <2> QED  BY <1>2, <1>3, <2>1, <2>3
<1> QED  BY <1>4, <1>5, <1>6

\* The end of a reconcile: the status is written, or the resource is queued.
LEMMA StatusWake ==
    ASSUME WakeInv, OrderInv', UpdateStatus
    PROVE  ReadInOrder' /\ ProgressInv' /\ RestInv'
<1>1. ChildrenInv /\ keycloak \in Tracked(KeycloakObj)
  BY DEF WakeInv, OrderInv, ChildrenInv, TypeOK
<1>2. w' = Idle /\ w'.pc = "idle" /\ UNCHANGED children /\ At("status")
  BY DEF UpdateStatus, Done, Requeue, Idle
<1>3. ReadInOrder' /\ ProgressInv'
  BY <1>2, Positions DEF ReadInOrder, ProgressInv, Reconciling
<1>4. CASE queue'
  BY <1>3, <1>4 DEF RestInv, Woken
<1>5. CASE /\ Current(keycloak, w.cr) /\ UNCHANGED queue
           /\ keycloak' = Put(keycloak,
                              [keycloak.now EXCEPT !.status = w.status])
  <2>1. /\ keycloak'.now.live = keycloak.now.live
        /\ keycloak'.now.uid = keycloak.now.uid
        /\ keycloak'.now.spec = keycloak.now.spec
        /\ keycloak'.now.status = w.status
    BY <1>1, <1>5, StatusStored
  <2>2. Reconciling
    BY <1>2 DEF At, Reconciling
  <2>3. w.cr = keycloak.now
    BY <1>5, <2>2 DEF WakeInv, ReadInOrder, Distinguished, Current
  <2> SUFFICES ASSUME w.status # "error", ~Woken(queue, children)
               PROVE  Placed(children, Kinds, keycloak'.now,
                             children["statefulset"].now.host,
                             keycloak'.now.status # "waiting")
    BY <1>2, <1>3, <1>5, <2>1 DEF RestInv
  <2>4. /\ Placed(children, Before(w.pc), w.cr, w.host, w.up)
        /\ w.status = IF w.up THEN "ready" ELSE "waiting"
    BY <1>2, <1>5, <2>2 DEF WakeInv, ProgressInv
  <2>5. Before(w.pc) = Kinds
    BY <1>2, Advance DEF At
  <2>6. Placed(children, Kinds, keycloak.now, w.host, w.status # "waiting")
    <3>1. w.up => w.status # "waiting"
      BY <2>4
    <3> QED  BY <2>3, <2>4, <2>5, <3>1 DEF Placed
  <2>7. children["statefulset"].now.host = w.host
    BY <2>6, Positions DEF Placed
  <2> QED  BY <2>1, <2>6, <2>7 DEF Placed, InPlace, Hosted
<1> QED  BY <1>4, <1>5 DEF UpdateStatus, Done, Requeue

\* The worker after a child.
LEMMA Proceeded ==
    ASSUME TypeOK, NEW k \in Kinds, NEW child \in ChildObj, Proceed(k, child)
    PROVE  /\ w'.pc = After(k) /\ w'.cr = w.cr
           /\ w'.host = IF k = "route" THEN child.host ELSE w.host
           /\ w'.up = IF k = "statefulset" THEN IsStatefulSetReady(child)
                      ELSE w.up
           /\ w'.status = IF w'.up THEN "ready" ELSE "waiting"
           /\ w'.pc \in Kinds \cup {"status"}
<1> DEFINE up == IF k = "statefulset" THEN IsStatefulSetReady(child) ELSE w.up
           host == IF k = "route" THEN child.host ELSE w.host
           status == IF up THEN "ready" ELSE "waiting"
<1>1. w' = [w EXCEPT !.pc = After(k), !.up = up, !.status = status,
                     !.host = host]
  BY DEF Proceed
<1>2. w \in Worker /\ After(k) \in Kinds \cup {"status"}
  BY OrderType DEF TypeOK
<1> HIDE DEF up, host, status
<1>3. /\ w'.pc = After(k) /\ w'.cr = w.cr /\ w'.host = host /\ w'.up = up
      /\ w'.status = status
  BY <1>1, <1>2 DEF Worker
<1> QED  BY <1>2, <1>3 DEF up, host, status

\* A child that is built for the resource is in its place, next to those that
\* were written before it.
LEMMA Advanced ==
    ASSUME OrderInv, NEW k \in Kinds, NEW child \in ChildObj,
           Proceed(k, child), BuiltFor(k, child),
           NEW d, \A l \in Kinds \ {k} : d[l].now = children[l].now,
           \/ d[k].now = child
           \/ /\ k = "monitor" /\ Same(k, child, d[k].now)
              /\ d[k].now.owner = child.owner,
           Placed(children, Before(k), w.cr, w.host, w.up)
    PROVE  Placed(d, Before(w'.pc), w'.cr, w'.host, w'.up)
<1>1. /\ w'.pc = After(k) /\ w'.cr = w.cr
      /\ w'.host = IF k = "route" THEN child.host ELSE w.host
      /\ w'.up = IF k = "statefulset" THEN IsStatefulSetReady(child) ELSE w.up
  BY Proceeded DEF OrderInv, ChildrenInv
<1>2. /\ Before(w'.pc) = Before(k) \cup {k} /\ k \notin Before(k)
      /\ \A l \in Before(k) : l \in Kinds
      /\ "statefulset" \in Before(k) => k # "route"
  BY <1>1, Advance DEF Before
<1>3. Placed(d, Before(k), w.cr, w.host, w.up)
  BY <1>2, SamePlace
<1>4. InPlace(d, k, w.cr)
  <2>1. CASE d[k].now = child
    BY <2>1 DEF BuiltFor, InPlace
  <2>2. CASE /\ k = "monitor" /\ Same(k, child, d[k].now)
             /\ d[k].now.owner = child.owner
    BY <2>2 DEF BuiltFor, InPlace, Same, Excused
  <2> QED  BY <2>1, <2>2
<1>5. "route" \in Before(w'.pc) => Hosted(d, w.cr, w'.host)
  <2>1. CASE k = "route"
    BY <1>1, <2>1 DEF Hosted, BuiltFor
  <2>2. CASE k # "route"
    BY <1>1, <1>2, <1>3, <2>2 DEF Placed
  <2> QED  BY <2>1, <2>2
<1>6. "statefulset" \in Before(w'.pc) =>
         /\ d["statefulset"].now.host = w'.host
         /\ w'.up \/ d["statefulset"].now.pods = "starting"
  <2>1. CASE k = "statefulset"
    BY <1>1, <2>1 DEF BuiltFor, IsStatefulSetReady
  <2>2. CASE k # "statefulset"
    BY <1>1, <1>2, <1>3, <2>2 DEF Placed
  <2> QED  BY <2>1, <2>2
<1> QED  BY <1>1, <1>2, <1>3, <1>4, <1>5, <1>6 DEF Placed

\* A reconcile writes or finds a child, or reports an error.
LEMMA WorkWake ==
    ASSUME WakeInv, OrderInv', NEW k \in Kinds, CreateOrUpdate(k)
    PROVE  ReadInOrder' /\ ProgressInv' /\ RestInv'
<1>1. /\ ChildrenInv /\ TypeOK /\ w \in Worker
      /\ children \in [Kinds -> Tracked(ChildObj)]
      /\ children' \in [Kinds -> Tracked(ChildObj)]
      /\ \A l \in Kinds : Ordered(children[l])
  BY DEF WakeInv, OrderInv, ChildrenInv, TypeOK
<1>2. /\ At(k) /\ UNCHANGED <<keycloak, queue>>
      /\ (Report("error") /\ children' = children) \/ Writes(k) \/ Finds(k)
  BY <1>1, Outcomes
<1>3. Reconciling /\ ~At("status")
  BY <1>2, Places
<1>4. ASSUME w'.cr = w.cr PROVE ReadInOrder'
  BY <1>2, <1>3, <1>4, StillRead DEF WakeInv, ReadInOrder, Moves
<1>5. CASE Report("error")
  <2>1. w'.pc = "status" /\ w'.status = "error" /\ w'.cr = w.cr
    BY <1>1, <1>5 DEF Report, Worker
  <2> QED  BY <1>4, <2>1 DEF ProgressInv, RestInv, At
<1>6. ASSUME NEW child \in ChildObj, Proceed(k, child), BuiltFor(k, child),
             \A l \in Kinds \ {k} : children'[l].now = children[l].now,
             Woken(queue, children) => Woken(queue, children'),
             \/ Woken(queue, children')
             \/ children'[k].now = child
             \/ /\ k = "monitor" /\ Same(k, child, children'[k].now)
                /\ children'[k].now.owner = child.owner
      PROVE  ReadInOrder' /\ ProgressInv' /\ RestInv'
  <2>1. /\ w'.cr = w.cr /\ w'.pc \in Kinds \cup {"status"}
        /\ w'.status = IF w'.up THEN "ready" ELSE "waiting"
    BY <1>1, <1>6, Proceeded
  <2>2. RestInv'
    BY <2>1, Positions DEF RestInv, At
  <2>3. ProgressInv'
    <3> SUFFICES ASSUME Current(keycloak, w.cr), ~Woken(queue, children')
                 PROVE  Placed(children', Before(w'.pc), w'.cr, w'.host, w'.up)
      BY <1>2, <2>1 DEF ProgressInv
    <3>1. Placed(children, Before(k), w.cr, w.host, w.up)
      BY <1>2, <1>3, <1>6 DEF WakeInv, ProgressInv, At
    <3> QED  BY <1>6, <3>1, Advanced DEF WakeInv
  <2> QED  BY <1>4, <2>1, <2>2, <2>3
<1>7. CASE Writes(k)
  <2>1. /\ Stores(children[k], children'[k])
        /\ \A l \in Kinds : l = k \/ children'[l] = children[l]
        /\ Proceed(k, children'[k].now) /\ BuiltFor(k, children'[k].now)
    BY <1>7 DEF Writes
  <2>2. children'[k].now \in ChildObj
    BY <1>1 DEF Tracked
  <2>3. Woken(queue, children) => Woken(queue, children')
    <3>1. queue => queue
      OBVIOUS
    <3>2. \A l \in Kinds : Delivers(l, children[l], children'[l], queue)
      BY <2>1 DEF Delivers
    <3> QED  BY <1>1, <3>1, <3>2, StaysWoken, Zenon
  <2> QED  BY <1>6, <2>1, <2>2, <2>3
<1>8. CASE Finds(k)
  <2> DEFINE s == children[k].seen
  <2>1. /\ children' = children /\ BuiltFor(k, s) /\ Proceed(k, s)
        /\ k = "monitor" \/ children[k].now = s
    BY <1>8 DEF Finds
  <2>2. s \in ChildObj /\ s \in Versions(children[k])
    BY <1>1 DEF Tracked, Versions
  <2>3. \/ Woken(queue, children')
        \/ children'[k].now = s
        \/ /\ k = "monitor" /\ Same(k, s, children'[k].now)
           /\ children'[k].now.owner = s.owner
    <3>1. CASE k = "monitor"
      <4>1. \/ Same(k, s, children[k].now)
            \/ \E y, x : Follows(children[k], y, x) /\ ChildPasses(k, y, x)
        BY <2>2, <3>1 DEF WakeInv, ToldInv, ChildTold
      <4>2. Same(k, s, children[k].now) => children[k].now.owner = s.owner
        <5> SUFFICES ASSUME Same(k, s, children[k].now)
                     PROVE  children[k].now.owner = s.owner
          OBVIOUS
        <5>1. /\ children[k].now \in Versions(children[k])
              /\ s.rv <= children[k].now.rv
          BY <1>1, <2>2 DEF Versions, Ordered, Locked
        <5>2. /\ s.live /\ children[k].now.live /\ s.owner = w.cr.uid
          BY <2>1 DEF BuiltFor, Same
        <5>3. s.owner <= children[k].now.owner
          BY <2>2, <5>1, <5>2 DEF WakeInv, OwnerInv, OwnersGrow
        <5>4. children[k].now.owner <= w.cr.uid
          BY <1>3, <5>1, <5>2 DEF WakeInv, OwnerInv, Owners
        <5>5. children[k].now.owner \in Nat /\ w.cr.uid \in Nat
          BY <1>1, <5>1, Counted DEF TypeOK
        <5> QED  BY <5>2, <5>3, <5>4, <5>5
      <4> QED  BY <2>1, <3>1, <4>1, <4>2 DEF Woken, Wakes
    <3> QED  BY <2>1, <3>1
  <2> HIDE DEF s
  <2> QED  BY <1>6, <2>1, <2>2, <2>3
<1> QED  BY <1>2, <1>5, <1>7, <1>8

\* Every step keeps the invariant.
LEMMA StepWake ==
    ASSUME WakeInv, [Next]_vars
    PROVE  WakeInv'
<1>1. OrderInv' /\ ToldInv' /\ OwnerInv'
  <2>1. OrderInv' /\ ToldInv'
    BY OrderStep DEF WakeInv
  <2>2. TypeOK'
    BY <2>1 DEF OrderInv, ChildrenInv
  <2> QED  BY <2>1, <2>2, OwnerStep DEF WakeInv
<1> SUFFICES ReadInOrder' /\ ProgressInv' /\ RestInv'
  BY <1>1 DEF WakeInv
<1>2. CASE Reconcile
  BY <1>1, <1>2, StartWake, StatusWake, WorkWake DEF Reconcile
<1>3. CASE ObserveKeycloak \/ \E k \in Kinds : ObserveChild(k)
  BY <1>1, <1>3, EventWake
<1>4. CASE Restart
  BY <1>1, <1>4, StartWake
<1>5. CASE UserWrites \/ UserDeletes
  BY <1>1, <1>5, UserWake
<1>6. CASE \/ UpdatePods \/ RollOut
           \/ \E k \in Kinds : UserDrifts(k) \/ Collect(k)
  <2>1. ChildrenInv
    BY DEF WakeInv, OrderInv
  <2> QED  BY <1>1, <1>6, <2>1, ClusterDisturbs, DisturbWake
<1>7. CASE UNCHANGED vars
  <2>1. UNCHANGED <<keycloak, children, queue, w>>
    BY <1>7 DEF vars
  <2>2. KeycloakWakes => KeycloakWakes'
    BY <2>1 DEF KeycloakWakes
  <2> QED  BY <1>1, <2>1, <2>2, Carried DEF Moves
<1> QED  BY <1>2, <1>3, <1>4, <1>5, <1>6, <1>7 DEF Next

\* Whatever users, the cluster and restarts do, and however late the caches are:
\* when everything has come to rest, a Keycloak without an error has all its
\* children in their place and does not wait for pods that are ready.
THEOREM ChangesNoticed == Spec => []NothingMissed
<1>1. WakeInv /\ [Next]_vars => WakeInv'
  BY StepWake
<1> QED  BY <1>1, InitWake, AtRest, PTL DEF Spec
=============================================================================
