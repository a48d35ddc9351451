-------------------------- MODULE ProtectionProofs --------------------------
(***************************************************************************)
(* The KeycloakImport controller only writes for resources that will be    *)
(* cleaned up.  The worker decides on what a cache shows, so the proof is  *)
(* about every version of a resource that the cache or the watch may still *)
(* hold: if one of them has the finalizer and is not under deletion, the   *)
(* finalizer has not been removed since.                                   *)
(***************************************************************************)
EXTENDS RealmImportProofs

\* Resources are told apart by their resourceVersion, and caches are behind.
ImportOrder == \A i \in Imports : Locked(imports[i]) /\ Behind(imports[i])

\* A resource that some cache or watch shows with the finalizer, and not under
\* deletion, still has it.
FinalizerHeld ==
    \A i \in Imports : \A v \in Versions(imports[i]) :
        v.live /\ v.fin /\ ~v.del => Protected(i)

Writing == {"getKeycloak", "secret", "listJobs", "createJob"}
Cleaning == {"cleanJobs", "cleanSecrets", "removeFinalizer"}

\* The worker goes on to write for a resource that has the finalizer, and to
\* remove the finalizer from one that the cache shows under deletion.
WorkerGuarded ==
    /\ w.pc \in Writing => Protected(w.key)
    /\ w.pc \in Cleaning => /\ w.cr.del
                            /\ w.cr.rv <= imports[w.key].seen.rv
                            /\ Distinguished(w.cr, imports[w.key])

ProtectInv == TypeOK /\ ImportOrder /\ FinalizerHeld /\ WorkerGuarded

-----------------------------------------------------------------------------
\* The resourceVersions of imports are numbers.
LEMMA ImportVersions ==
    /\ \A v \in ImportObj : v.rv \in Nat
    /\ TypeOK => /\ \A i \in Imports :
                       /\ imports[i] \in Tracked(ImportObj)
                       /\ imports[i].now \in ImportObj
                       /\ imports[i].seen \in ImportObj
                 /\ w.key \in Imports /\ w.cr \in ImportObj
BY DEF TypeOK, Tracked, ImportObj, Worker

\* Put stores a version of an import.
LEMMA PutImport ==
    ASSUME NEW o \in Tracked(ImportObj), NEW v \in ImportObj
    PROVE  /\ Stores(o, Put(o, v))
           /\ Put(o, v).now.live = v.live /\ Put(o, v).now.fin = v.fin
           /\ Put(o, v).now.del = v.del
BY DEF Stores, Put, Tracked, ImportObj

\* What a step may do to an import that is not the removal of its finalizer.
Keeps(o, p) == /\ Moves(o, p)
               /\ o.now.live /\ o.now.fin => p.now.live /\ p.now.fin

\* A watch event or a list after a restart keeps the stored version.
LEMMA CacheKeeps ==
    ASSUME NEW o \in Tracked(ImportObj)
    PROVE  /\ Keeps(o, o) /\ Keeps(o, Relist(o))
           /\ \A v \in o.pend : NextEvent(o, v) => Keeps(o, Observe(o, v))
<1>1. Relist(o).now = o.now
  BY DEF Relist, InSync
<1>2. \A v \in o.pend : Observe(o, v).now = o.now
  BY DEF Observe, Tracked
<1> QED  BY <1>1, <1>2 DEF Keeps, Moves

\* Users edit, delete and release an import without touching the finalizer.
LEMMA UserKeeps ==
    ASSUME TypeOK, NEW i \in Imports,
           \/ CreateImport(i) \/ EditImport(i)
           \/ DeleteImport(i) \/ ReleaseImport(i)
    PROVE  \A x \in Imports : Keeps(imports[x], imports'[x])
<1> DEFINE o == imports[i]
<1>1. /\ imports \in [Imports -> Tracked(ImportObj)]
      /\ o \in Tracked(ImportObj) /\ o.now \in ImportObj
      /\ \A x \in Imports : Keeps(imports[x], imports[x])
  BY ImportVersions, CacheKeeps DEF TypeOK
<1>2. ASSUME NEW v \in ImportObj, imports' = [imports EXCEPT ![i] = Put(o, v)],
             o.now.live /\ o.now.fin => v.live /\ v.fin
      PROVE  \A x \in Imports : Keeps(imports[x], imports'[x])
  <2>1. Keeps(o, Put(o, v))
    BY <1>1, <1>2, PutImport DEF Keeps, Moves
  <2> QED  BY <1>1, <1>2, <2>1
<1>3. CASE CreateImport(i)
  <2>1. PICK spec \in Specs, other \in Others :
           imports' = [imports EXCEPT ![i] =
               Put(@, [NoImport EXCEPT !.live = TRUE, !.spec = spec,
                                       !.other = other])]
    BY <1>3 DEF CreateImport
  <2> DEFINE v == [NoImport EXCEPT !.live = TRUE, !.spec = spec,
                                   !.other = other]
  <2>2. v \in ImportObj
    BY Absent, ConstantsAssumption DEF ImportObj
  <2>3. imports' = [imports EXCEPT ![i] = Put(o, v)] /\ ~o.now.live
    BY <1>1, <1>3, <2>1 DEF CreateImport
  <2> HIDE DEF v
  <2> QED  BY <1>2, <2>2, <2>3
<1>4. CASE EditImport(i)
  <2>1. PICK spec \in Specs :
           imports' = [imports EXCEPT ![i] =
               Put(@, [@.now EXCEPT !.spec = spec])]
    BY <1>4 DEF EditImport
  <2> DEFINE v == [o.now EXCEPT !.spec = spec]
  <2>2. v \in ImportObj /\ v.live = o.now.live /\ v.fin = o.now.fin
    BY <1>1 DEF ImportObj
  <2>3. imports' = [imports EXCEPT ![i] = Put(o, v)]
    BY <1>1, <2>1
  <2> HIDE DEF v
  <2> QED  BY <1>2, <2>2, <2>3
<1>5. CASE DeleteImport(i)
  <2> DEFINE v == IF o.now.fin \/ o.now.other
                  THEN [o.now EXCEPT !.del = TRUE]
                  ELSE [o.now EXCEPT !.live = FALSE]
  <2>1. v \in ImportObj /\ (o.now.live /\ o.now.fin => v.live /\ v.fin)
    BY <1>1 DEF ImportObj
  <2>2. imports' = [imports EXCEPT ![i] = Put(o, v)]
    BY <1>1, <1>5 DEF DeleteImport, Remove
  <2> HIDE DEF v
  <2> QED  BY <1>2, <2>1, <2>2
<1>6. CASE ReleaseImport(i)
  <2> DEFINE v == [o.now EXCEPT !.other = FALSE, !.live = o.now.fin]
  <2>1. v \in ImportObj /\ (o.now.live /\ o.now.fin => v.live /\ v.fin)
    BY <1>1 DEF ImportObj
  <2>2. imports' = [imports EXCEPT ![i] = Put(o, v)]
    BY <1>1, <1>6 DEF ReleaseImport
  <2> HIDE DEF v
  <2> QED  BY <1>2, <2>1, <2>2
<1> QED  BY <1>3, <1>4, <1>5, <1>6

\* The worker stores an import when it adds the finalizer and when it reports.
LEMMA WorkerKeeps ==
    ASSUME TypeOK, AddFinalizer \/ UpdateStatus
    PROVE  \A x \in Imports : Keeps(imports[x], imports'[x])
<1> DEFINE o == imports[w.key]
<1>1. /\ imports \in [Imports -> Tracked(ImportObj)]
      /\ o \in Tracked(ImportObj) /\ o.now \in ImportObj
      /\ \A x \in Imports : Keeps(imports[x], imports[x])
      /\ w.key \in Imports /\ w.status \in Status
  BY ImportVersions, CacheKeeps DEF TypeOK, Worker
<1>2. ASSUME NEW v \in ImportObj,
             imports' = [imports EXCEPT ![w.key] = Put(o, v)],
             o.now.live /\ o.now.fin => v.live /\ v.fin
      PROVE  \A x \in Imports : Keeps(imports[x], imports'[x])
  <2>1. Keeps(o, Put(o, v))
    BY <1>1, <1>2, PutImport DEF Keeps, Moves
  <2> QED  BY <1>1, <1>2, <2>1
<1>3. CASE UNCHANGED imports
  BY <1>1, <1>3
<1>4. CASE AddFinalizer
  <2> DEFINE v == [o.now EXCEPT !.fin = TRUE]
  <2>1. v \in ImportObj /\ (o.now.live /\ o.now.fin => v.live /\ v.fin)
    BY <1>1 DEF ImportObj
  <2>2. imports' = [imports EXCEPT ![w.key] = Put(o, v)] \/ UNCHANGED imports
    BY <1>4 DEF AddFinalizer
  <2> HIDE DEF v
  <2> QED  BY <1>2, <1>3, <2>1, <2>2
<1>5. CASE UpdateStatus
  <2> DEFINE v == [o.now EXCEPT !.status = w.status]
  <2>1. v \in ImportObj /\ (o.now.live /\ o.now.fin => v.live /\ v.fin)
    BY <1>1 DEF ImportObj
  <2>2. imports' = [imports EXCEPT ![w.key] = Put(o, v)] \/ UNCHANGED imports
    BY <1>5 DEF UpdateStatus
  <2> HIDE DEF v
  <2> QED  BY <1>2, <1>3, <2>1, <2>2
<1> QED  BY <1>4, <1>5

\* Every step but RemoveFinalizer leaves the finalizer where it is.
LEMMA FinalizerKept ==
    ASSUME TypeOK, Next, ~RemoveFinalizer
    PROVE  \A x \in Imports : Keeps(imports[x], imports'[x])
<1>1. /\ imports \in [Imports -> Tracked(ImportObj)]
      /\ \A x \in Imports : imports[x] \in Tracked(ImportObj)
  BY DEF TypeOK
<1>2. CASE UNCHANGED imports
  BY <1>1, <1>2, CacheKeeps
<1>3. CASE AddFinalizer \/ UpdateStatus
  BY <1>3, WorkerKeeps
<1>4. ASSUME NEW i \in Imports,
             \/ CreateImport(i) \/ EditImport(i)
             \/ DeleteImport(i) \/ ReleaseImport(i)
      PROVE  \A x \in Imports : Keeps(imports[x], imports'[x])
  BY <1>4, UserKeeps
<1>5. ASSUME NEW i \in Imports, ObserveImport(i)
      PROVE  \A x \in Imports : Keeps(imports[x], imports'[x])
  BY <1>1, <1>5, CacheKeeps DEF ObserveImport
<1>6. CASE Restart \/ Relaunch
  BY <1>1, <1>6, CacheKeeps DEF Restart, Relaunch, Start
<1> QED
  BY <1>2, <1>3, <1>4, <1>5, <1>6
     DEF Next, Reconcile, Watch, User, InstanceWriter, JobController, Dequeue,
         GetImport, CleanJobs, CleanSecrets, GetKeycloak, ApplySecret, ListJobs,
         CreateJob, Rollout, ObserveKeycloak, ObserveStatefulSet, ObserveSecret,
         ObserveJob, ObserveSource, EditSource, UserVars, WriteKeycloak,
         WriteStatefulSet, StartPod, PodSucceeds, JobCompletes, PodFails,
         KillPod, JobGone, objects
-----------------------------------------------------------------------------
\* Steps that keep the finalizers keep what is known of the versions.
LEMMA KeepsOrder ==
    ASSUME ProtectInv, TypeOK',
           \A x \in Imports : Keeps(imports[x], imports'[x])
    PROVE  /\ ImportOrder' /\ FinalizerHeld'
           /\ \A x \in Imports : /\ Protected(x) => Protected(x)'
                                 /\ imports[x].seen.rv <= imports'[x].seen.rv
           /\ \A x \in Imports, v \in ImportObj :
                 Distinguished(v, imports[x]) => Distinguished(v, imports'[x])
<1>1. \A x \in Imports : /\ imports[x] \in Tracked(ImportObj)
                         /\ imports'[x] \in Tracked(ImportObj)
                         /\ Moves(imports[x], imports'[x])
  BY DEF ProtectInv, TypeOK, Keeps
<1>2. \A v \in ImportObj : v.rv \in Nat
  BY ImportVersions
<1>3. ASSUME NEW x \in Imports
      PROVE  /\ Locked(imports'[x]) /\ Behind(imports'[x])
             /\ imports[x].seen.rv <= imports'[x].seen.rv
  BY <1>1, <1>2, MovesInOrder DEF ProtectInv, ImportOrder
<1>4. ASSUME NEW x \in Imports, NEW v \in ImportObj, Distinguished(v, imports[x])
      PROVE  Distinguished(v, imports'[x])
  BY <1>1, <1>2, <1>4, MovesDistinguished
<1>5. ASSUME NEW x \in Imports, Protected(x)
      PROVE  Protected(x)'
  BY <1>5 DEF Protected, Keeps
<1>6. ASSUME NEW x \in Imports, NEW v \in Versions(imports'[x]),
             v.live, v.fin, ~v.del
      PROVE  Protected(x)'
  <2>1. CASE v \in Versions(imports[x])
    BY <1>5, <1>6, <2>1 DEF ProtectInv, FinalizerHeld
  <2>2. CASE v = imports'[x].now
    BY <1>6, <2>2 DEF Protected
  <2> QED  BY <1>1, <2>1, <2>2, MovesVersions
<1> QED  BY <1>3, <1>4, <1>5, <1>6 DEF ImportOrder, FinalizerHeld

\* RemoveFinalizer replaces a version that is under deletion and that the cache
\* has reached, so that no older version is left to be read.
LEMMA RemoveFinalizerProtect ==
    ASSUME ProtectInv, TypeOK', RemoveFinalizer
    PROVE  ProtectInv'
<1> DEFINE o == imports[w.key]
           v == IF o.now.other THEN [o.now EXCEPT !.fin = FALSE]
                ELSE [o.now EXCEPT !.fin = FALSE, !.live = FALSE]
<1>1. /\ imports \in [Imports -> Tracked(ImportObj)]
      /\ o \in Tracked(ImportObj) /\ o.now \in ImportObj
      /\ w.key \in Imports /\ w.cr \in ImportObj /\ w \in Worker
      /\ w.pc \in Cleaning
  BY ImportVersions DEF ProtectInv, TypeOK, RemoveFinalizer, At, Cleaning
<1>2. v \in ImportObj /\ ~v.fin
  BY <1>1 DEF ImportObj
<1>3. WithoutFinalizer(o) = Put(o, v)
  BY DEF WithoutFinalizer
<1> HIDE DEF v
<1>4. w'.pc \in {"addFinalizer", "idle"}
  <2>1. ASSUME NEW c, w' = [w EXCEPT !.pc = "addFinalizer", !.cr = c]
        PROVE  w'.pc = "addFinalizer"
    BY <1>1, <2>1 DEF Worker
  <2>2. \/ \E c : w' = [w EXCEPT !.pc = "addFinalizer", !.cr = c]
        \/ w' = Idle
    BY DEF RemoveFinalizer, Requeue
  <2>3. w' = Idle => w'.pc = "idle"
    BY DEF Idle
  <2> QED  BY <2>1, <2>2, <2>3
<1>5. WorkerGuarded'
  BY <1>4 DEF WorkerGuarded, Writing, Cleaning
<1>6. CASE UNCHANGED imports
  BY <1>5, <1>6 DEF ProtectInv, ImportOrder, FinalizerHeld, Protected
<1>7. CASE Current(o, w.cr) /\ imports' = [imports EXCEPT ![w.key] = Put(o, v)]
  <2>1. Stores(o, Put(o, v)) /\ ~Put(o, v).now.fin
    BY <1>1, <1>2, PutImport
  <2>2. o.now.del
    BY <1>1, <1>7 DEF ProtectInv, WorkerGuarded, Distinguished, Current
  <2>3. /\ o.now.rv \in Nat /\ o.seen.rv \in Nat /\ w.cr.rv \in Nat
        /\ \A x \in Versions(o) : x.rv \in Nat
    BY <1>1, VersionsType, ImportVersions DEF Versions
  <2>4. \A x \in Versions(o) : x = o.now
    <3>1. o.now.rv <= o.seen.rv
      BY <1>1, <1>7 DEF ProtectInv, WorkerGuarded, Current
    <3>2. \A x \in Versions(o) : x.rv = o.now.rv
      BY <1>1, <2>3, <3>1 DEF ProtectInv, ImportOrder, Locked, Behind
    <3> QED  BY <1>1, <3>2 DEF ProtectInv, ImportOrder, Locked
  <2>5. ASSUME NEW x \in Imports
        PROVE  /\ Moves(imports[x], imports'[x])
               /\ imports'[x] \in Tracked(ImportObj)
    BY <1>1, <1>7, <2>1 DEF Moves, TypeOK
  <2>6. ImportOrder'
    BY <1>1, <2>5, MovesInOrder, ImportVersions DEF ProtectInv, ImportOrder
  <2>7. ASSUME NEW x \in Imports, NEW u \in Versions(imports'[x]),
               u.live, u.fin, ~u.del
        PROVE  Protected(x)'
    <3>1. CASE x = w.key
      <4>1. imports'[x] = Put(o, v)
        BY <1>1, <1>7, <3>1
      <4>2. u \in Versions(o) \/ u = Put(o, v).now
        BY <1>1, <2>5, <2>7, <3>1, <4>1, MovesVersions
      <4> QED  BY <2>1, <2>2, <2>4, <2>7, <4>2
    <3>2. CASE x # w.key
      <4>1. imports'[x] = imports[x]
        BY <1>1, <1>7, <3>2
      <4> QED  BY <2>7, <4>1 DEF ProtectInv, FinalizerHeld, Protected
    <3> QED  BY <3>1, <3>2
  <2> QED  BY <1>5, <2>6, <2>7 DEF ProtectInv, FinalizerHeld
<1> QED  BY <1>3, <1>6, <1>7 DEF RemoveFinalizer

\* What the worker knows is kept while it rests, and by steps that end a
\* reconcile or only move it on.
LEMMA WorkerStays ==
    ASSUME ProtectInv, TypeOK',
           \A x \in Imports : Keeps(imports[x], imports'[x]),
           \/ w' = w
           \/ w'.pc \notin Writing \cup Cleaning
           \/ /\ w'.key = w.key /\ w'.cr = w.cr
              /\ \/ w.pc \in Writing /\ w'.pc \in Writing
                 \/ w.pc \in Cleaning /\ w'.pc \in Cleaning
    PROVE  ProtectInv'
<1>1. ImportOrder' /\ FinalizerHeld'
  BY KeepsOrder
<1>2. CASE w'.pc \notin Writing \cup Cleaning
  BY <1>1, <1>2 DEF ProtectInv, WorkerGuarded
<1>3. ASSUME w'.key = w.key, w'.cr = w.cr,
             w'.pc \in Writing => w.pc \in Writing,
             w'.pc \in Cleaning => w.pc \in Cleaning
      PROVE  ProtectInv'
  <2>1. /\ w.key \in Imports /\ w.cr \in ImportObj
        /\ w.cr.rv \in Nat /\ imports[w.key].seen.rv \in Nat
        /\ imports'[w.key].seen.rv \in Nat
    BY ImportVersions DEF ProtectInv, TypeOK, Tracked
  <2>2. /\ Protected(w.key) => /\ imports'[w.key].now.live
                                /\ imports'[w.key].now.fin
        /\ imports[w.key].seen.rv <= imports'[w.key].seen.rv
        /\ Distinguished(w.cr, imports[w.key])
              => Distinguished(w.cr, imports'[w.key])
    BY <2>1, KeepsOrder DEF Protected
  <2>3. w'.pc \in Writing => Protected(w.key)'
    BY <1>3, <2>2 DEF ProtectInv, WorkerGuarded, Protected
  <2>4. w'.pc \in Cleaning => /\ w'.cr.del
                              /\ w'.cr.rv <= imports'[w'.key].seen.rv
                              /\ Distinguished(w'.cr, imports'[w'.key])
    BY <1>3, <2>1, <2>2 DEF ProtectInv, WorkerGuarded
  <2> QED  BY <1>1, <2>3, <2>4 DEF ProtectInv, WorkerGuarded, Protected
<1>4. Writing \cap Cleaning = {}
  BY DEF Writing, Cleaning
<1> QED  BY <1>2, <1>3, <1>4
\* GetImport takes the import from the cache.
LEMMA GetImportProtect ==
    ASSUME ProtectInv, TypeOK', GetImport
    PROVE  ProtectInv'
<1> DEFINE c == imports[w.key].seen
<1>1. /\ UNCHANGED imports /\ w \in Worker /\ w.key \in Imports
      /\ c \in Versions(imports[w.key]) /\ c.rv \in Nat
  BY ImportVersions DEF GetImport, objects, ProtectInv, TypeOK, Versions
<1>2. \A x \in Imports : Keeps(imports[x], imports'[x])
  BY <1>1, CacheKeeps DEF ProtectInv, TypeOK
<1>3. ImportOrder' /\ FinalizerHeld'
  BY <1>2, KeepsOrder
<1>4. CASE Done
  BY <1>2, <1>4, WorkerStays DEF Done, Idle, Writing, Cleaning
<1>5. CASE /\ c.live /\ (c.del => c.fin)
           /\ w' = [w EXCEPT !.cr = c, !.pc = Branch(c)]
  <2>1. w'.cr = c /\ w'.key = w.key /\ w'.pc = Branch(c)
    BY <1>1, <1>5 DEF Worker
  <2>2. CASE c.del
    <3>1. w'.pc = "cleanJobs" /\ Distinguished(c, imports[w.key])
      BY <1>1, <2>1, <2>2 DEF Branch, ProtectInv, ImportOrder, Locked, Distinguished
    <3>2. WorkerGuarded'
      BY <1>1, <2>1, <2>2, <3>1 DEF WorkerGuarded, Writing, Cleaning
    <3> QED  BY <1>3, <3>2 DEF ProtectInv
  <2>3. CASE ~c.del /\ c.fin
    <3>1. w'.pc = "getKeycloak" /\ Protected(w.key)
      BY <1>1, <1>5, <2>1, <2>3 DEF Branch, ProtectInv, FinalizerHeld
    <3>2. WorkerGuarded'
      BY <1>1, <2>1, <3>1 DEF WorkerGuarded, Writing, Cleaning, Protected
    <3> QED  BY <1>3, <3>2 DEF ProtectInv
  <2>4. CASE ~c.del /\ ~c.fin
    BY <1>2, <2>1, <2>4, WorkerStays DEF Branch, Writing, Cleaning
  <2> QED  BY <2>2, <2>3, <2>4
<1> QED  BY <1>4, <1>5 DEF GetImport

\* AddFinalizer goes on with a resource that has it.
LEMMA AddFinalizerProtect ==
    ASSUME ProtectInv, TypeOK', AddFinalizer
    PROVE  ProtectInv'
<1> DEFINE o == imports[w.key]
           v == [o.now EXCEPT !.fin = TRUE]
<1>1. /\ imports \in [Imports -> Tracked(ImportObj)]
      /\ o \in Tracked(ImportObj) /\ o.now \in ImportObj
      /\ w.key \in Imports /\ w \in Worker
  BY ImportVersions DEF ProtectInv, TypeOK
<1>2. \A x \in Imports : Keeps(imports[x], imports'[x])
  BY WorkerKeeps DEF ProtectInv
<1>3. ImportOrder' /\ FinalizerHeld'
  BY <1>2, KeepsOrder
<1>4. CASE Requeue
  BY <1>2, <1>4, WorkerStays DEF Requeue, Idle, Writing, Cleaning
<1>5. CASE /\ Current(o, w.cr) /\ imports' = [imports EXCEPT ![w.key] = Put(o, v)]
           /\ w' = [w EXCEPT !.pc = "getKeycloak", !.cr = Put(o, v).now]
  <2>1. v \in ImportObj /\ v.fin /\ v.live = o.now.live
    BY <1>1 DEF ImportObj
  <2>2. Put(o, v).now.fin /\ Put(o, v).now.live = o.now.live
    BY <1>1, <2>1, PutImport
  <2>3. /\ imports'[w.key] = Put(o, v)
        /\ w'.pc = "getKeycloak" /\ w'.key = w.key
    BY <1>1, <1>5 DEF Worker
  <2> HIDE DEF v
  <2>4. WorkerGuarded'
    BY <1>5, <2>2, <2>3
       DEF WorkerGuarded, Writing, Cleaning, Protected, Current
  <2> QED  BY <1>3, <2>4 DEF ProtectInv
<1> QED  BY <1>4, <1>5 DEF AddFinalizer

\* The steps between, which store no import.
LEMMA MiddleProtect ==
    ASSUME ProtectInv, TypeOK',
           \/ CleanJobs \/ CleanSecrets \/ GetKeycloak \/ ApplySecret
           \/ ListJobs \/ CreateJob \/ Rollout
    PROVE  ProtectInv'
<1>1. /\ UNCHANGED imports /\ w \in Worker
      /\ \A x \in Imports : imports[x] \in Tracked(ImportObj)
  BY DEF CleanJobs, CleanSecrets, GetKeycloak, ApplySecret, ListJobs, CreateJob,
         Rollout, objects, ProtectInv, TypeOK
<1>2. \A x \in Imports : Keeps(imports[x], imports'[x])
  BY <1>1, CacheKeeps
<1>3. CASE Requeue
  BY <1>2, <1>3, WorkerStays DEF Requeue, Idle, Writing, Cleaning
<1>4. ASSUME NEW st, Report(st) PROVE ProtectInv'
  <2>1. w'.pc = "status"
    BY <1>1, <1>4 DEF Report, Worker
  <2> QED  BY <1>2, <2>1, WorkerStays DEF Writing, Cleaning
<1>5. ASSUME NEW pc, Goto(pc) PROVE w'.pc = pc /\ w'.key = w.key /\ w'.cr = w.cr
  BY <1>1, <1>5 DEF Goto, Worker
<1>6. ASSUME w'.key = w.key, w'.cr = w.cr,
             \/ w.pc \in Writing /\ w'.pc \in Writing
             \/ w.pc \in Cleaning /\ w'.pc \in Cleaning
      PROVE  ProtectInv'
  BY <1>2, <1>6, WorkerStays
<1>7. CASE CleanJobs
  <2>1. w.pc = "cleanJobs" /\ (Requeue \/ Goto("cleanSecrets"))
    BY <1>7 DEF CleanJobs, At
  <2> QED  BY <1>3, <1>5, <1>6, <2>1 DEF Cleaning
<1>8. CASE CleanSecrets
  <2>1. w.pc = "cleanSecrets" /\ (Requeue \/ Goto("removeFinalizer"))
    BY <1>8 DEF CleanSecrets, At
  <2> QED  BY <1>3, <1>5, <1>6, <2>1 DEF Cleaning
<1>9. CASE GetKeycloak
  <2>1. /\ w.pc = "getKeycloak"
        /\ \/ Report("error") \/ Report("waiting")
           \/ \E sts : w' = [w EXCEPT !.pc = "secret", !.sts = sts]
    BY <1>9 DEF GetKeycloak, At
  <2>2. \A sts : w' = [w EXCEPT !.pc = "secret", !.sts = sts] =>
            w'.pc = "secret" /\ w'.key = w.key /\ w'.cr = w.cr
    BY <1>1 DEF Worker
  <2> QED  BY <1>4, <1>6, <2>1, <2>2 DEF Writing
<1>10. CASE ApplySecret
  <2>1. /\ w.pc = "secret"
        /\ \/ Requeue \/ Report("error")
           \/ \E ver : w' = [w EXCEPT !.pc = "listJobs", !.ver = ver]
    BY <1>10 DEF ApplySecret, At
  <2>2. \A ver : w' = [w EXCEPT !.pc = "listJobs", !.ver = ver] =>
            w'.pc = "listJobs" /\ w'.key = w.key /\ w'.cr = w.cr
    BY <1>1 DEF Worker
  <2> QED  BY <1>3, <1>4, <1>6, <2>1, <2>2 DEF Writing
<1>11. CASE ListJobs
  <2>1. /\ w.pc = "listJobs"
        /\ \/ Report("error") \/ Goto("createJob")
           \/ \E b : w' = [w EXCEPT !.pc = "rollout", !.completed = b]
    BY <1>11 DEF ListJobs, At
  <2>2. \A b : w' = [w EXCEPT !.pc = "rollout", !.completed = b] =>
            w'.pc = "rollout"
    BY <1>1 DEF Worker
  <2>3. w'.pc = "rollout" => ProtectInv'
    BY <1>2, WorkerStays DEF Writing, Cleaning
  <2> QED  BY <1>4, <1>5, <1>6, <2>1, <2>2, <2>3 DEF Writing
<1>12. CASE CreateJob \/ Rollout
  BY <1>3, <1>4, <1>12 DEF CreateJob, Rollout
<1> QED  BY <1>7, <1>8, <1>9, <1>10, <1>11, <1>12

\* Before anything happens there is no import.
LEMMA InitProtect == Init => ProtectInv
<1> SUFFICES ASSUME Init PROVE ProtectInv
  OBVIOUS
<1>1. TypeOK
  BY InitType
<1>2. \A i \in Imports : Versions(imports[i]) = {NoImport}
                         /\ imports[i].now = NoImport /\ imports[i].seen = NoImport
  BY DEF Init, InSync, Versions
<1>3. NoImport.rv = 0 /\ ~NoImport.live
  BY DEF NoImport
<1>4. ImportOrder /\ FinalizerHeld
  BY <1>2, <1>3 DEF ImportOrder, FinalizerHeld, Locked, Behind
<1>5. WorkerGuarded
  BY DEF Init, Idle, WorkerGuarded, Writing, Cleaning
<1> QED  BY <1>1, <1>4, <1>5 DEF ProtectInv

\* Every step keeps the invariant.
LEMMA NextProtect == ProtectInv /\ [Next]_vars => ProtectInv'
<1> SUFFICES ASSUME ProtectInv, [Next]_vars PROVE ProtectInv'
  OBVIOUS
<1>1. TypeOK'
  BY TypeStep DEF ProtectInv
<1>2. CASE UNCHANGED vars
  BY <1>1, <1>2 DEF vars, objects, ProtectInv, ImportOrder, FinalizerHeld,
                    WorkerGuarded, Protected
<1>3. CASE RemoveFinalizer
  BY <1>1, <1>3, RemoveFinalizerProtect
<1>4. CASE Next /\ ~RemoveFinalizer
  <2>1. \A x \in Imports : Keeps(imports[x], imports'[x])
    BY <1>4, FinalizerKept DEF ProtectInv
  <2>2. CASE \/ GetImport \/ CleanJobs \/ CleanSecrets \/ AddFinalizer
             \/ GetKeycloak \/ ApplySecret \/ ListJobs \/ CreateJob \/ Rollout
    BY <1>1, <2>2, GetImportProtect, AddFinalizerProtect, MiddleProtect
  <2>3. CASE w' = w \/ w'.pc \notin Writing \cup Cleaning
    BY <1>1, <2>1, <2>3, WorkerStays
  <2>4. CASE UpdateStatus
    <3>1. w' = Idle
      BY <2>4 DEF UpdateStatus, Done, Requeue
    <3> QED  BY <2>3, <3>1 DEF Idle, Writing, Cleaning
  <2>5. ASSUME NEW i \in Imports, Dequeue(i) PROVE ProtectInv'
    <3>1. w'.pc = "get"
      BY <2>5 DEF Dequeue, ProtectInv, TypeOK, Worker
    <3> QED  BY <2>3, <3>1 DEF Writing, Cleaning
  <2>6. CASE Watch \/ Restart \/ Relaunch
    <3>1. w' = w \/ w' = Down \/ w' = Idle
      BY <2>6 DEF Watch, ObserveImport, ObserveKeycloak, ObserveStatefulSet,
                  ObserveSecret, ObserveJob, ObserveSource, handleSecretChanged,
                  Restart, Relaunch, Start
    <3> QED  BY <2>3, <3>1 DEF Idle, Down, Writing, Cleaning
  <2>7. CASE User \/ InstanceWriter \/ \E s \in Slots : JobController(s)
    <3>1. w' = w
      BY <2>7 DEF User, InstanceWriter, JobController, CreateImport, EditImport,
                  DeleteImport, ReleaseImport, EditSource, UserVars,
                  WriteKeycloak, WriteStatefulSet, StartPod, PodSucceeds,
                  JobCompletes, PodFails, KillPod, JobGone
    <3> QED  BY <2>3, <3>1
  <2> QED  BY <1>4, <2>2, <2>4, <2>5, <2>6, <2>7 DEF Next, Reconcile
<1> QED  BY <1>2, <1>3, <1>4

\* The finalizer guards what the worker is about to write, for any lag of the
\* caches and any sequence of deletions, crashes and edits.
THEOREM Protection == Spec => []ProtectInv
BY InitProtect, NextProtect, PTL DEF Spec
-----------------------------------------------------------------------------
\* Import secrets are stored by ApplySecret for the import of the worker, or
\* removed.
LEMMA SecretWrites ==
    ASSUME TypeOK, Next, NEW s \in Slots, secrets'[s].now # secrets[s].now,
           secrets'[s].now.live
    PROVE  w.pc = "secret" /\ secrets'[s].now.owner = w.key
<1> DEFINE t == Slot(w.key, w.cr.spec)
           o == secrets[t]
<1>1. /\ secrets \in [Slots -> Tracked(SecretObj)]
      /\ t \in Slots /\ o \in Tracked(SecretObj) /\ o.now \in SecretObj
      /\ w.key \in Imports
  BY SlotType DEF TypeOK, Worker, ImportObj, Tracked
<1>2. ~(UNCHANGED secrets)
  OBVIOUS
<1>3. CASE CleanSecrets
  <2>1. secrets' = [secrets EXCEPT ![t] = Remove(o)]
    BY <1>2, <1>3 DEF CleanSecrets
  <2>2. s = t /\ secrets'[s] = Remove(o)
    BY <1>1, <2>1
  <2>3. ~Remove(o).now.live
    BY <1>1 DEF Remove, Put, Tracked, SecretObj
  <2> QED  BY <2>2, <2>3
<1>4. CASE ApplySecret
  <2> DEFINE v == [o.now EXCEPT !.live = TRUE, !.owner = w.key,
                                !.data = Content(w.cr.spec)]
  <2>1. w.pc = "secret" /\ secrets' = [secrets EXCEPT ![t] = Put(o, v)]
    BY <1>2, <1>4 DEF ApplySecret, At
  <2>2. s = t /\ secrets'[s] = Put(o, v)
    BY <1>1, <2>1
  <2>3. Put(o, v).now.owner = w.key
    BY <1>1 DEF Put, Tracked, SecretObj
  <2> QED  BY <2>1, <2>2, <2>3
<1>5. ASSUME NEW x \in Slots, ObserveSecret(x) PROVE FALSE
  <2>1. \A y \in Slots : \A v \in secrets[y].pend :
           Observe(secrets[y], v).now = secrets[y].now
    BY <1>1 DEF Observe, Tracked
  <2> QED  BY <1>1, <1>5, <2>1 DEF ObserveSecret
<1>6. CASE Restart \/ Relaunch
  <2>1. secrets'[s].now = secrets[s].now
    BY <1>6 DEF Restart, Relaunch, Start, Relist, InSync
  <2> QED  BY <2>1
<1> QED
  BY <1>2, <1>3, <1>4, <1>5, <1>6
     DEF Next, Reconcile, Watch, User, InstanceWriter, JobController, Dequeue,
         GetImport, CleanJobs, RemoveFinalizer, AddFinalizer, GetKeycloak,
         ListJobs, CreateJob, Rollout, UpdateStatus, ObserveImport,
         ObserveKeycloak, ObserveStatefulSet, ObserveJob, ObserveSource,
         CreateImport, EditImport, DeleteImport, ReleaseImport, EditSource,
         UserVars, WriteKeycloak, WriteStatefulSet, StartPod, PodSucceeds,
         JobCompletes, PodFails, KillPod, JobGone, objects

\* Import jobs are created by CreateJob for the import of the worker.
LEMMA JobWrites ==
    ASSUME TypeOK, Next, NEW s \in Slots, jobs'[s].now.uid # jobs[s].now.uid
    PROVE  w.pc = "createJob" /\ jobs'[s].now.owner = w.key
<1> DEFINE t == Slot(w.key, w.cr.spec)
<1>1. /\ jobs \in [Slots -> Tracked(JobObj)]
      /\ \A x \in Slots : jobs[x] \in Tracked(JobObj) /\ jobs[x].now \in JobObj
      /\ t \in Slots /\ w.key \in Imports
  BY SlotType DEF TypeOK, Worker, ImportObj, Tracked
<1>2. ASSUME NEW x \in Slots, NEW v \in JobObj, v.uid = jobs[x].now.uid,
             jobs' = [jobs EXCEPT ![x] = Put(jobs[x], v)]
      PROVE  FALSE
  <2>1. Put(jobs[x], v).now.uid = v.uid
    BY <1>1 DEF Put, Tracked, JobObj
  <2> QED  BY <1>1, <1>2, <2>1
<1>3. ASSUME NEW x \in Slots, NEW p, p.now.uid = jobs[x].now.uid,
             jobs' = [jobs EXCEPT ![x] = p]
      PROVE  FALSE
  BY <1>1, <1>3
<1>4. ASSUME NEW x \in Slots
      PROVE  /\ DeleteForeground(jobs[x]).now.uid = jobs[x].now.uid
             /\ Remove(jobs[x]).now.uid = jobs[x].now.uid
             /\ \A v \in jobs[x].pend : Observe(jobs[x], v).now = jobs[x].now
  BY <1>1, ZenonT(30) DEF DeleteForeground, Remove, Put, Observe, Tracked, JobObj
<1>5. CASE UNCHANGED jobs
  BY <1>5
<1>6. CASE CleanJobs \/ ListJobs
  BY <1>1, <1>3, <1>4, <1>5, <1>6 DEF CleanJobs, ListJobs
<1>7. CASE CreateJob
  <2> DEFINE v == NewJob(jobs[t])
  <2>1. w.pc = "createJob" /\ jobs' = [jobs EXCEPT ![t] = Put(jobs[t], v)]
    BY <1>5, <1>7 DEF CreateJob, At
  <2>2. s = t /\ jobs'[s] = Put(jobs[t], v)
    BY <1>1, <2>1
  <2>3. Put(jobs[t], v).now.owner = w.key
    BY <1>1 DEF NewJob, Put, Tracked
  <2> QED  BY <2>1, <2>2, <2>3
<1>8. ASSUME NEW x \in Slots, ObserveJob(x) PROVE FALSE
  BY <1>1, <1>3, <1>4, <1>8 DEF ObserveJob
<1>9. CASE Restart \/ Relaunch
  <2>1. jobs'[s].now = jobs[s].now
    BY <1>9 DEF Restart, Relaunch, Start, Relist, InSync
  <2> QED  BY <2>1
<1>10. ASSUME NEW x \in Slots, JobCompletes(x) \/ PodFails(x) PROVE FALSE
  <2> DEFINE j == jobs[x].now
  <2>1. \A ph \in {"complete", "failed"} :
           /\ [j EXCEPT !.phase = ph] \in JobObj
           /\ [j EXCEPT !.phase = ph].uid = j.uid
    BY <1>1 DEF JobObj
  <2>2. \E ph \in {"complete", "failed"} :
           jobs' = [jobs EXCEPT ![x] = Put(jobs[x], [j EXCEPT !.phase = ph])]
    BY <1>1, <1>10 DEF JobCompletes, PodFails
  <2> QED  BY <1>2, <2>1, <2>2
<1>11. ASSUME NEW x \in Slots, JobGone(x) PROVE FALSE
  BY <1>1, <1>3, <1>4, <1>11 DEF JobGone
<1> QED
  BY <1>5, <1>6, <1>7, <1>8, <1>9, <1>10, <1>11
     DEF Next, Reconcile, Watch, User, InstanceWriter, JobController, Dequeue,
         GetImport, CleanSecrets, RemoveFinalizer, AddFinalizer, GetKeycloak,
         ApplySecret, Rollout, UpdateStatus, ObserveImport, ObserveKeycloak,
         ObserveStatefulSet, ObserveSecret, ObserveSource, CreateImport,
         EditImport, DeleteImport, ReleaseImport, EditSource, UserVars,
         WriteKeycloak, WriteStatefulSet, StartPod, PodSucceeds, KillPod, objects

\* The operator writes import secrets and creates import jobs only for resources
\* that exist with the finalizer.
THEOREM ProtectedWrites == Spec => WritesAreProtected
<1> DEFINE Step(s) == /\ secrets'[s].now # secrets[s].now /\ secrets'[s].now.live
                            => Protected(secrets'[s].now.owner)
                      /\ jobs'[s].now.uid # jobs[s].now.uid
                            => Protected(jobs'[s].now.owner)
<1>1. ProtectInv /\ [Next]_vars => [\A s \in Slots : Step(s)]_vars
  <2> SUFFICES ASSUME ProtectInv, Next, NEW s \in Slots PROVE Step(s)
    OBVIOUS
  <2>1. TypeOK /\ (w.pc \in Writing => Protected(w.key))
    BY DEF ProtectInv, WorkerGuarded
  <2>2. ASSUME secrets'[s].now # secrets[s].now, secrets'[s].now.live
        PROVE  Protected(secrets'[s].now.owner)
    BY <2>1, <2>2, SecretWrites DEF Writing
  <2>3. ASSUME jobs'[s].now.uid # jobs[s].now.uid
        PROVE  Protected(jobs'[s].now.owner)
    BY <2>1, <2>3, JobWrites DEF Writing
  <2> QED  BY <2>2, <2>3
<1> QED  BY <1>1, Protection, PTL DEF Spec, WritesAreProtected
=============================================================================
