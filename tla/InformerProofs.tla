--------------------------- MODULE InformerProofs ---------------------------
(***************************************************************************)
(* Lemmas about one object, its cache and its watch.                       *)
(***************************************************************************)
EXTENDS Informer, TLAPS

\* What the API server stores is tracked like what it replaces.
LEMMA PutType ==
    ASSUME NEW V, NEW o \in Tracked(V), NEW v,
           [v EXCEPT !.rv = o.now.rv + 1] \in V
    PROVE  Put(o, v) \in Tracked(V)
BY DEF Put, Tracked

\* Observing a pending version keeps the object tracked.
LEMMA ObserveType ==
    ASSUME NEW V, NEW o \in Tracked(V), NEW v \in o.pend
    PROVE  Observe(o, v) \in Tracked(V)
BY DEF Observe, Tracked

\* An object whose cache is in step is tracked.
LEMMA InSyncType ==
    ASSUME NEW V, NEW v \in V
    PROVE  InSync(v) \in Tracked(V)
BY DEF InSync, Tracked

\* The list after a restart of the operator keeps an object tracked.
LEMMA RelistType ==
    ASSUME NEW V, NEW o \in Tracked(V)
    PROVE  Relist(o) \in Tracked(V)
BY InSyncType DEF Relist, Tracked

\* What an operation on an object adds to its versions.
LEMMA PutVersions ==
    ASSUME NEW V, NEW o \in Tracked(V), NEW v
    PROVE  /\ Put(o, v).now = [v EXCEPT !.rv = o.now.rv + 1]
           /\ Versions(Put(o, v)) \subseteq Versions(o) \cup {Put(o, v).now}
BY DEF Put, Versions, Tracked

\* A watch event brings no version that was not there.
LEMMA ObserveVersions ==
    ASSUME NEW V, NEW o \in Tracked(V), NEW v \in o.pend
    PROVE  /\ Observe(o, v).now = o.now
           /\ Versions(Observe(o, v)) \subseteq Versions(o)
BY DEF Observe, Versions, Tracked

\* A list after a restart brings no version that was not there.
LEMMA RelistVersions ==
    ASSUME NEW V, NEW o \in Tracked(V)
    PROVE  /\ Relist(o).now = o.now
           /\ Versions(Relist(o)) \subseteq Versions(o)
BY DEF Relist, InSync, Versions, Tracked

\* The versions of an object have its type.
LEMMA VersionsType ==
    ASSUME NEW V, NEW o \in Tracked(V), NEW v \in Versions(o)
    PROVE  v \in V
BY DEF Versions, Tracked

-----------------------------------------------------------------------------
(***************************************************************************)
(* The optimistic lock: no version is newer than the stored one, and a     *)
(* version with its resourceVersion is the stored one.                     *)
(***************************************************************************)
Locked(o) ==
    \A v \in Versions(o) : /\ v.rv \in Nat /\ v.rv <= o.now.rv
                           /\ v.rv = o.now.rv => v = o.now

\* An update that is accepted was made from the version that it replaces.
LEMMA Accepted ==
    ASSUME NEW o, Locked(o), Current(o, o.seen)
    PROVE  o.seen = o.now
BY DEF Locked, Current, Versions

\* A write keeps the lock.
LEMMA PutLocked ==
    ASSUME NEW V, NEW o \in Tracked(V), Locked(o), NEW v,
           Put(o, v).now.rv = o.now.rv + 1
    PROVE  Locked(Put(o, v))
<1>1. Versions(Put(o, v)) \subseteq Versions(o) \cup {Put(o, v).now}
  BY PutVersions
<1>2. o.now.rv \in Nat /\ \A x \in Versions(o) : x.rv \in Nat /\ x.rv <= o.now.rv
  BY DEF Locked, Versions
<1> QED  BY <1>1, <1>2 DEF Locked

\* A watch event keeps it.
LEMMA ObserveLocked ==
    ASSUME NEW V, NEW o \in Tracked(V), Locked(o), NEW v \in o.pend
    PROVE  Locked(Observe(o, v))
BY ObserveVersions DEF Locked

\* A list after a restart keeps it.
LEMMA RelistLocked ==
    ASSUME NEW V, NEW o \in Tracked(V), Locked(o)
    PROVE  Locked(Relist(o))
BY RelistVersions DEF Locked

\* A cache that is in step has the lock.
LEMMA InSyncLocked ==
    ASSUME NEW v, v.rv \in Nat
    PROVE  Locked(InSync(v))
BY DEF Locked, InSync, Versions
-----------------------------------------------------------------------------
(***************************************************************************)
(* How a step may change an object: it stores a version, the watch delivers*)
(* one, or the cache is filled again.                                      *)
(***************************************************************************)
Stores(o, p) == /\ p.now.rv = o.now.rv + 1
                /\ p.seen = o.seen /\ p.pend = o.pend \cup {p.now}

Moves(o, p) == \/ p = o \/ Stores(o, p) \/ p = Relist(o)
               \/ \E v \in o.pend : NextEvent(o, v) /\ p = Observe(o, v)

\* A step of an object adds at most the version it stores.
LEMMA MovesVersions ==
    ASSUME NEW V, NEW o \in Tracked(V), NEW p, Moves(o, p)
    PROVE  \A v \in Versions(p) : v \in Versions(o) \/ v = p.now
<1>1. CASE Stores(o, p)
  BY <1>1 DEF Stores, Versions
<1>2. CASE p = Relist(o)
  BY <1>2, RelistVersions
<1>3. ASSUME NEW x \in o.pend, p = Observe(o, x)
      PROVE  \A v \in Versions(p) : v \in Versions(o)
  BY <1>3, ObserveVersions
<1> QED  BY <1>1, <1>2, <1>3 DEF Moves

\* The optimistic lock tells v from every other version of o that is or will be
\* stored.
Distinguished(v, o) == /\ v.rv <= o.now.rv
                       /\ v.rv = o.now.rv => v = o.now

\* The cache is behind every other version.
Behind(o) == \A v \in Versions(o) : o.seen.rv <= v.rv

\* What a reader took from the cache stays told apart, whatever happens to the
\* object.
LEMMA MovesDistinguished ==
    ASSUME NEW V, \A v \in V : v.rv \in Nat,
           NEW o \in Tracked(V), NEW p \in Tracked(V), Moves(o, p),
           NEW v, v.rv \in Nat, Distinguished(v, o)
    PROVE  Distinguished(v, p)
<1>1. o.now.rv \in Nat
  BY DEF Tracked
<1>2. CASE Stores(o, p)
  BY <1>1, <1>2 DEF Stores, Distinguished
<1>3. CASE p.now = o.now
  BY <1>3 DEF Distinguished
<1>4. p = Relist(o) => p.now = o.now
  BY DEF Relist, InSync
<1>5. \A x \in o.pend : p = Observe(o, x) => p.now = o.now
  BY DEF Observe, Tracked
<1> QED  BY <1>2, <1>3, <1>4, <1>5 DEF Moves

\* Every step keeps the lock and the cache behind; the cache only moves on.
LEMMA MovesInOrder ==
    ASSUME NEW V, \A v \in V : v.rv \in Nat,
           NEW o \in Tracked(V), NEW p \in Tracked(V), Moves(o, p),
           Locked(o), Behind(o)
    PROVE  Locked(p) /\ Behind(p) /\ o.seen.rv <= p.seen.rv
<1>1. /\ \A v \in Versions(o) : v.rv \in Nat
      /\ \A v \in Versions(p) : v.rv \in Nat
  BY VersionsType
<1>2. /\ o.now \in Versions(o) /\ o.seen \in Versions(o)
      /\ o.pend \subseteq Versions(o)
      /\ p.now \in Versions(p) /\ p.seen \in Versions(p)
  BY DEF Versions
<1>3. Locked(p)
  <2> SUFFICES ASSUME NEW v \in Versions(p) PROVE Distinguished(v, p)
    BY <1>1 DEF Locked, Distinguished
  <2>1. CASE v \in Versions(o)
    <3>1. Distinguished(v, o)
      BY <2>1 DEF Locked, Distinguished
    <3> QED  BY <1>1, <3>1, MovesDistinguished
  <2>2. CASE v = p.now
    BY <1>1, <2>2 DEF Distinguished
  <2> QED  BY <2>1, <2>2, MovesVersions
<1>4. CASE p = o
  BY <1>1, <1>2, <1>3, <1>4
<1>5. CASE Stores(o, p)
  <2>1. \A v \in Versions(p) : o.seen.rv <= v.rv
    BY <1>1, <1>2, <1>5 DEF Stores, Versions, Behind
  <2> QED  BY <1>1, <1>2, <1>3, <1>5, <2>1 DEF Stores, Behind
<1>6. CASE p = Relist(o)
  BY <1>1, <1>2, <1>3, <1>6 DEF Relist, InSync, Versions, Behind
<1>7. ASSUME NEW v \in o.pend, NextEvent(o, v), p = Observe(o, v)
      PROVE  Behind(p) /\ o.seen.rv <= p.seen.rv
  <2>1. p.seen = v /\ p.now = o.now /\ p.pend \subseteq o.pend
    BY <1>7 DEF Observe, Tracked
  <2>2. v.rv <= o.now.rv
    BY <1>2, <1>7 DEF Locked
  <2> QED  BY <1>1, <1>2, <1>7, <2>1, <2>2 DEF NextEvent, Versions, Behind
<1> QED  BY <1>3, <1>4, <1>5, <1>6, <1>7 DEF Moves
-----------------------------------------------------------------------------
(***************************************************************************)
(* The order of a watch: every version that is written is delivered, under *)
(* a resourceVersion of its own, after the one that the cache holds.       *)
(***************************************************************************)
Ordered(o) ==
    /\ Locked(o) /\ Behind(o)
    /\ o.now \in o.pend \cup {o.seen}
    /\ \A v \in o.pend : o.seen.rv < v.rv
    /\ \A v, x \in Versions(o) : v.rv = x.rv => v = x

\* The watch delivers x right after y, which it delivers or has delivered last.
Follows(o, y, x) == y \in Versions(o) /\ x \in o.pend /\ x.rv = y.rv + 1

\* A cache that is in step is in order.
LEMMA InSyncOrdered ==
    ASSUME NEW v, v.rv \in Nat
    PROVE  Ordered(InSync(v))
<1>1. InSync(v).now = v /\ InSync(v).seen = v /\ InSync(v).pend = {}
  BY DEF InSync
<1>2. Versions(InSync(v)) = {v}
  BY <1>1 DEF Versions
<1> HIDE DEF Versions
<1> QED  BY <1>1, <1>2, InSyncLocked DEF Ordered, Behind

\* A write keeps the order, and is delivered after what it replaces.
LEMMA StoresOrdered ==
    ASSUME NEW V, \A v \in V : v.rv \in Nat,
           NEW o \in Tracked(V), NEW p \in Tracked(V), Stores(o, p), Ordered(o)
    PROVE  /\ Ordered(p) /\ Follows(p, o.now, p.now)
           /\ \A y, x : Follows(o, y, x) => Follows(p, y, x)
<1>1. Locked(p) /\ Behind(p)
  BY MovesInOrder DEF Moves, Ordered
<1>2. /\ \A v \in Versions(o) : v.rv \in Nat /\ v.rv <= o.now.rv
      /\ o.now.rv \in Nat /\ o.seen.rv \in Nat /\ o.seen.rv <= o.now.rv
      /\ p.now.rv = o.now.rv + 1
  BY DEF Ordered, Locked, Versions, Stores
<1>3. Versions(o) = o.pend \cup {o.seen}
  BY DEF Ordered, Versions
<1>4. /\ p.seen = o.seen /\ p.pend = o.pend \cup {p.now}
      /\ Versions(p) = Versions(o) \cup {p.now}
  BY <1>3 DEF Stores, Versions
<1>5. \A v \in p.pend : p.seen.rv < v.rv
  BY <1>2, <1>4 DEF Ordered
<1>6. \A v \in Versions(o) : v.rv # p.now.rv
  BY <1>2
<1>7. \A v, x \in Versions(p) : v.rv = x.rv => v = x
  BY <1>4, <1>6 DEF Ordered
<1>8. Ordered(p)
  BY <1>1, <1>4, <1>5, <1>7 DEF Ordered
<1>9. Follows(p, o.now, p.now)
  BY <1>2, <1>4 DEF Follows, Versions
<1> QED  BY <1>4, <1>8, <1>9 DEF Follows

\* An event keeps the order: what it delivers follows the version in the cache,
\* and what follows another version still does.
LEMMA ObserveOrdered ==
    ASSUME NEW V, \A v \in V : v.rv \in Nat,
           NEW o \in Tracked(V), Ordered(o), NEW v \in o.pend, NextEvent(o, v)
    PROVE  /\ Ordered(Observe(o, v))
           /\ \A y, x : Follows(o, y, x) => \/ y = o.seen /\ x = v
                                            \/ Follows(Observe(o, v), y, x)
<1> DEFINE p == Observe(o, v)
<1>1. p \in Tracked(V) /\ Moves(o, p)
  BY ObserveType DEF Moves
<1>2. p.now = o.now /\ p.seen = v /\ p.pend = o.pend \ {v}
  BY DEF Observe, Tracked
<1> HIDE DEF p
<1>3. Locked(p) /\ Behind(p)
  BY <1>1, MovesInOrder DEF Ordered
<1>4. /\ Versions(o) = o.pend \cup {o.seen}
      /\ \A x \in Versions(o) : x.rv \in Nat
      /\ \A x \in o.pend : v.rv <= x.rv /\ o.seen.rv < x.rv
      /\ \A x, y \in Versions(o) : x.rv = y.rv => x = y
  BY DEF Ordered, Versions, NextEvent, Locked
<1>5. Versions(p) = o.pend /\ o.now \in o.pend
  <2>1. o.now # o.seen
    <3>1. v.rv <= o.now.rv /\ o.seen.rv < v.rv
      BY <1>4 DEF Ordered, Locked
    <3>2. v.rv \in Nat /\ o.seen.rv \in Nat
      BY <1>4
    <3> QED  BY <3>1, <3>2
  <2>2. o.now \in o.pend
    BY <2>1 DEF Ordered
  <2> QED  BY <1>2, <2>2 DEF Versions
<1>6. \A x \in p.pend : p.seen.rv < x.rv
  BY <1>2, <1>4
<1>7. Ordered(p)
  <2>1. p.now \in p.pend \cup {p.seen}
    BY <1>2, <1>5
  <2>2. \A x, y \in Versions(p) : x.rv = y.rv => x = y
    BY <1>4, <1>5
  <2> QED  BY <1>3, <1>6, <2>1, <2>2 DEF Ordered
<1>8. ASSUME NEW y, NEW x, Follows(o, y, x)
      PROVE  (y = o.seen /\ x = v) \/ Follows(p, y, x)
  <2>1. /\ y \in Versions(o) /\ x \in o.pend /\ x.rv = y.rv + 1
        /\ x.rv \in Nat /\ y.rv \in Nat /\ v.rv \in Nat /\ v.rv <= x.rv
    BY <1>4, <1>8 DEF Follows
  <2>2. CASE y \in o.pend
    <3>1. v.rv <= y.rv
      BY <1>4, <2>2
    <3>2. x # v
      BY <2>1, <3>1
    <3> QED  BY <1>2, <1>5, <2>1, <2>2, <3>2 DEF Follows
  <2>3. CASE y = o.seen
    <3>1. y.rv < v.rv
      BY <1>4, <2>3
    <3>2. v.rv = x.rv
      BY <2>1, <3>1
    <3> QED  BY <1>4, <2>1, <2>3, <3>2
  <2> QED  BY <1>4, <2>1, <2>2, <2>3
<1> QED  BY <1>7, <1>8 DEF p

\* Every step keeps the order.
LEMMA MovesOrdered ==
    ASSUME NEW V, \A v \in V : v.rv \in Nat,
           NEW o \in Tracked(V), NEW p \in Tracked(V), Moves(o, p), Ordered(o)
    PROVE  Ordered(p)
<1>1. CASE Stores(o, p)
  BY <1>1, StoresOrdered
<1>2. CASE p = Relist(o)
  <2>1. o.now.rv \in Nat
    BY DEF Tracked
  <2> QED  BY <1>2, <2>1, InSyncOrdered DEF Relist
<1>3. ASSUME NEW v \in o.pend, NextEvent(o, v), p = Observe(o, v)
      PROVE  Ordered(p)
  BY <1>3, ObserveOrdered
<1> QED  BY <1>1, <1>2, <1>3 DEF Moves
=============================================================================
