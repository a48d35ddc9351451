------------------------ MODULE RealmLifecycleProofs ------------------------
(***************************************************************************)
(* The KeycloakImport controller implements the life cycle of a realm, and *)
(* its writes of the StatefulSet lose no rollout.                          *)
(*                                                                         *)
(* ImportInv says what has been imported.  That a rollout never goes back  *)
(* is about caches of different age: the StatefulSet is read first, then   *)
(* the secret, then the job.                                               *)
(***************************************************************************)
EXTENDS RealmImportProofs

\* The cache of a secret is behind every other version of it.
CacheOrder ==
    \A s \in Slots : \A v \in Versions(secrets[s]) : secrets[s].seen.rv <= v.rv

\* No StatefulSet is annotated with a version that the cache of the secret does
\* not show yet.
AnnotationsSeen ==
    \A k \in Instances : \A v \in Versions(statefulsets[k]) : \A i \in Imports :
        v.ann[i] <= secrets[<<NamespaceOf[k], NameOf[i]>>].seen.rv

\* Versions of a StatefulSet are told apart by their resourceVersion, so that
\* the optimistic lock compares contents.
LockInv ==
    \A k \in Instances : \A v \in Versions(statefulsets[k]) :
        Distinguished(v, statefulsets[k])

\* The worker holds a StatefulSet that existed, with annotations that the cache
\* of the secrets showed by then; from ApplySecret on none for this import is
\* newer than the version it works on.  That version is in the cache by the
\* time a job for it is found: if ApplySecret has just stored it, no job is.
WorkerOrder ==
    LET s == Slot(w.key, w.cr.spec)
        k == w.cr.spec.target
    IN  w.pc \in Critical =>
            /\ w.sts.live /\ Distinguished(w.sts, statefulsets[k])
            /\ \A i \in Imports :
                   w.sts.ann[i] <= secrets[<<NamespaceOf[k], NameOf[i]>>].seen.rv
            /\ w.pc \in {"listJobs", "rollout"} => w.sts.ann[w.key] <= w.ver
            /\ w.pc = "listJobs" =>
                   \/ w.ver <= secrets[s].seen.rv
                   \/ \A v \in Versions(jobs[s]) : v.ver < w.ver
            /\ w.pc = "rollout" => w.ver <= secrets[s].seen.rv

OrderInv == CacheOrder /\ AnnotationsSeen /\ LockInv /\ WorkerOrder

-----------------------------------------------------------------------------
\* Put stores a version.
LEMMA PutStores ==
    /\ \A o \in Tracked(SecretObj), v \in SecretObj : Stores(o, Put(o, v))
    /\ \A o \in Tracked(StatefulSetObj), v \in StatefulSetObj :
           Stores(o, Put(o, v))
<1>1. ASSUME NEW o \in Tracked(SecretObj), NEW v \in SecretObj
      PROVE  Stores(o, Put(o, v))
  BY DEF Stores, Put, Tracked, SecretObj
<1>2. ASSUME NEW o \in Tracked(StatefulSetObj), NEW v \in StatefulSetObj
      PROVE  Stores(o, Put(o, v))
  BY DEF Stores, Put, Tracked, StatefulSetObj
<1> QED  BY <1>1, <1>2

\* The resourceVersions of secrets and StatefulSets are numbers.
LEMMA ResourceVersions ==
    /\ \A o \in Tracked(SecretObj) : \A v \in Versions(o) : v.rv \in Nat
    /\ \A o \in Tracked(StatefulSetObj) : \A v \in Versions(o) : v.rv \in Nat
<1>1. ASSUME NEW o \in Tracked(SecretObj), NEW v \in Versions(o)
      PROVE  v.rv \in Nat
  <2>1. v \in SecretObj
    BY VersionsType
  <2> QED  BY <2>1 DEF SecretObj
<1>2. ASSUME NEW o \in Tracked(StatefulSetObj), NEW v \in Versions(o)
      PROVE  v.rv \in Nat
  <2>1. v \in StatefulSetObj
    BY VersionsType
  <2> QED  BY <2>1 DEF StatefulSetObj
<1> QED  BY <1>1, <1>2

\* A cache that is behind every version stays so, and only moves forward.
LEMMA MovesCache ==
    ASSUME NEW o \in Tracked(SecretObj), NEW p \in Tracked(SecretObj),
           Moves(o, p),
           \A v \in Versions(o) : o.seen.rv <= v.rv /\ v.rv <= o.now.rv
    PROVE  /\ o.seen.rv <= p.seen.rv
           /\ \A v \in Versions(p) : p.seen.rv <= v.rv
<1>1. /\ \A v \in Versions(o) : v.rv \in Nat
      /\ \A v \in Versions(p) : v.rv \in Nat
  BY ResourceVersions
<1>2. o.now \in Versions(o) /\ o.seen \in Versions(o) /\ o.pend \subseteq Versions(o)
  BY DEF Versions
<1>3. CASE p = o
  BY <1>1, <1>2, <1>3
<1>4. CASE Stores(o, p)
  BY <1>1, <1>2, <1>4 DEF Stores, Versions
<1>5. CASE p = Relist(o)
  BY <1>1, <1>2, <1>5 DEF Relist, InSync, Versions
<1>6. ASSUME NEW v \in o.pend, NextEvent(o, v), p = Observe(o, v)
      PROVE  /\ o.seen.rv <= p.seen.rv
             /\ \A x \in Versions(p) : p.seen.rv <= x.rv
  <2>1. p.seen = v /\ p.now = o.now /\ p.pend \subseteq o.pend
    BY <1>6 DEF Observe, Tracked
  <2> QED  BY <1>1, <1>2, <1>6, <2>1 DEF NextEvent, Versions
<1> QED  BY <1>3, <1>4, <1>5, <1>6 DEF Moves

\* The optimistic lock keeps telling versions apart.
LEMMA MovesLock ==
    ASSUME NEW o \in Tracked(StatefulSetObj), NEW p \in Tracked(StatefulSetObj),
           Moves(o, p), NEW v \in StatefulSetObj, Distinguished(v, o)
    PROVE  Distinguished(v, p)
<1>1. v.rv \in Nat /\ o.now.rv \in Nat
  BY DEF StatefulSetObj, Tracked
<1>2. CASE Stores(o, p)
  BY <1>1, <1>2 DEF Stores, Distinguished
<1>3. CASE p.now = o.now
  BY <1>3 DEF Distinguished
<1>4. p = Relist(o) => p.now = o.now
  BY DEF Relist, InSync
<1>5. \A x \in o.pend : p = Observe(o, x) => p.now = o.now
  BY DEF Observe, Tracked
<1> QED  BY <1>2, <1>3, <1>4, <1>5 DEF Moves

\* Secrets are stored by CleanSecrets and ApplySecret alone.
LEMMA SecretsMove ==
    ASSUME TypeOK, TypeOK', Next
    PROVE  \A s \in Slots : Moves(secrets[s], secrets'[s])
<1> DEFINE t == Slot(w.key, w.cr.spec)
           o == secrets[t]
<1>1. /\ secrets \in [Slots -> Tracked(SecretObj)]
      /\ t \in Slots /\ o \in Tracked(SecretObj) /\ o.now \in SecretObj
      /\ w.key \in Imports
  BY SlotType DEF TypeOK, Worker, ImportObj, Tracked
<1>2. CASE UNCHANGED secrets
  BY <1>2 DEF Moves
<1>3. CASE CleanSecrets
  <2>1. Stores(o, Remove(o))
    <3>1. [o.now EXCEPT !.live = FALSE] \in SecretObj
      BY <1>1 DEF SecretObj
    <3> QED  BY <1>1, <3>1, PutStores DEF Remove
  <2> QED  BY <1>1, <1>3, <2>1 DEF CleanSecrets, Moves
<1>4. CASE ApplySecret
  <2> DEFINE v == [o.now EXCEPT !.live = TRUE, !.owner = w.key,
                                !.data = Content(w.cr.spec)]
  <2>1. CASE secrets' = [secrets EXCEPT ![t] = Put(o, v)]
    <3>1. Stores(o, Put(o, v))
      BY <1>1 DEF Stores, Put, Tracked, SecretObj
    <3> QED  BY <1>1, <2>1, <3>1 DEF Moves
  <2> QED  BY <1>2, <1>4, <2>1 DEF ApplySecret
<1>5. ASSUME NEW s \in Slots, ObserveSecret(s)
      PROVE  \A x \in Slots : Moves(secrets[x], secrets'[x])
  BY <1>1, <1>5 DEF ObserveSecret, Moves
<1>6. CASE Restart \/ Relaunch
  BY <1>1, <1>6 DEF Restart, Relaunch, Start, Moves
<1> QED
  BY <1>2, <1>3, <1>4, <1>5, <1>6
     DEF Next, Reconcile, Watch, User, InstanceWriter, JobController, Dequeue,
         GetImport, CleanJobs, RemoveFinalizer, AddFinalizer, GetKeycloak,
         ListJobs, CreateJob, Rollout, UpdateStatus, ObserveImport,
         ObserveKeycloak, ObserveStatefulSet, ObserveJob, ObserveSource,
         CreateImport, EditImport, DeleteImport, ReleaseImport, EditSource,
         UserVars, WriteKeycloak, WriteStatefulSet, StartPod, PodSucceeds,
         JobCompletes, PodFails, KillPod, JobGone, objects

\* StatefulSets are stored by Rollout and by the writers of the instance.
LEMMA StatefulSetsMove ==
    ASSUME TypeOK, TypeOK', Next
    PROVE  \A k \in Instances : Moves(statefulsets[k], statefulsets'[k])
<1>1. /\ statefulsets \in [Instances -> Tracked(StatefulSetObj)]
      /\ \A k \in Instances : /\ statefulsets[k].now \in StatefulSetObj
                              /\ statefulsets[k] \in Tracked(StatefulSetObj)
      /\ w.cr.spec.target \in Instances /\ w.sts \in StatefulSetObj
      /\ w.key \in Imports /\ w.ver \in Nat
  BY SlotType DEF TypeOK, Worker, ImportObj, Tracked
<1>2. CASE UNCHANGED statefulsets
  BY <1>2 DEF Moves
<1>3. CASE Rollout
  <2> DEFINE k == w.cr.spec.target
             v == [w.sts EXCEPT !.ann[w.key] = w.ver]
  <2>1. v \in StatefulSetObj
    BY <1>1 DEF StatefulSetObj
  <2>2. Stores(statefulsets[k], Put(statefulsets[k], v))
    BY <1>1, <2>1, PutStores
  <2> QED  BY <1>1, <1>3, <2>2 DEF Rollout, Moves
<1>4. ASSUME NEW k \in Instances, WriteStatefulSet(k)
      PROVE  \A x \in Instances : Moves(statefulsets[x], statefulsets'[x])
  <2> DEFINE o == statefulsets[k]
  <2>1. /\ [o.now EXCEPT !.live = FALSE] \in StatefulSetObj
        /\ [NoStatefulSet EXCEPT !.live = TRUE] \in StatefulSetObj
    BY <1>1, Absent DEF StatefulSetObj
  <2>2. /\ Stores(o, Put(o, o.now)) /\ Stores(o, Remove(o))
        /\ Stores(o, Put(o, [NoStatefulSet EXCEPT !.live = TRUE]))
    BY <1>1, <2>1, PutStores DEF Remove
  <2> QED  BY <1>1, <1>4, <2>2 DEF WriteStatefulSet, Moves
<1>5. ASSUME NEW k \in Instances, ObserveStatefulSet(k)
      PROVE  \A x \in Instances : Moves(statefulsets[x], statefulsets'[x])
  BY <1>1, <1>5 DEF ObserveStatefulSet, Moves
<1>6. CASE Restart \/ Relaunch
  BY <1>1, <1>6 DEF Restart, Relaunch, Start, Moves
<1> QED
  BY <1>2, <1>3, <1>4, <1>5, <1>6
     DEF Next, Reconcile, Watch, User, InstanceWriter, JobController, Dequeue,
         GetImport, CleanJobs, CleanSecrets, RemoveFinalizer, AddFinalizer,
         GetKeycloak, ApplySecret, ListJobs, CreateJob, UpdateStatus,
         ObserveImport, ObserveKeycloak, ObserveSecret, ObserveJob,
         ObserveSource, CreateImport, EditImport, DeleteImport, ReleaseImport,
         EditSource, UserVars, WriteKeycloak, StartPod, PodSucceeds,
         JobCompletes, PodFails, KillPod, JobGone, objects

\* The parts of the invariant on caches and locks are preserved by every step
\* that annotates a StatefulSet only with versions that the cache shows.
LEMMA OrderStep ==
    ASSUME ImportInv, OrderInv, TypeOK', Next, WorkerOrder',
           \A k \in Instances : \A v \in Versions(statefulsets'[k]) :
               \/ v \in Versions(statefulsets[k])
               \/ \A i \in Imports :
                     v.ann[i] <= secrets[<<NamespaceOf[k], NameOf[i]>>].seen.rv
    PROVE  OrderInv'
<1>1. TypeOK
  BY DEF ImportInv
<1>2. \A s \in Slots : /\ secrets[s].seen.rv <= secrets'[s].seen.rv
                       /\ \A v \in Versions(secrets'[s]) :
                              secrets'[s].seen.rv <= v.rv
  BY <1>1, SecretsMove, MovesCache
     DEF ImportInv, SecretInv, OrderInv, CacheOrder, TypeOK
<1>3. \A s \in Slots : secrets[s].seen.rv \in Nat /\ secrets'[s].seen.rv \in Nat
  BY <1>1, ResourceVersions DEF TypeOK, Versions
<1>4. CacheOrder'
  BY <1>2 DEF CacheOrder
<1>5. AnnotationsSeen'
  <2> SUFFICES ASSUME NEW k \in Instances, NEW v \in Versions(statefulsets'[k]),
                      NEW i \in Imports
               PROVE  v.ann[i] <= secrets'[<<NamespaceOf[k], NameOf[i]>>].seen.rv
    BY DEF AnnotationsSeen
  <2>1. v.ann[i] <= secrets[<<NamespaceOf[k], NameOf[i]>>].seen.rv
    BY DEF OrderInv, AnnotationsSeen
  <2>2. v.ann[i] \in Nat
    BY VersionTypes DEF TypeOK
  <2> QED  BY <1>2, <1>3, <2>1, <2>2, SlotOf
<1>6. LockInv'
  <2> SUFFICES ASSUME NEW k \in Instances, NEW v \in Versions(statefulsets'[k])
               PROVE  Distinguished(v, statefulsets'[k])
    BY DEF LockInv
  <2>1. /\ statefulsets[k] \in Tracked(StatefulSetObj)
        /\ statefulsets'[k] \in Tracked(StatefulSetObj)
        /\ Moves(statefulsets[k], statefulsets'[k])
    BY <1>1, StatefulSetsMove DEF TypeOK
  <2>2. CASE v \in Versions(statefulsets[k])
    <3>1. v \in StatefulSetObj /\ Distinguished(v, statefulsets[k])
      BY <2>1, <2>2, VersionsType DEF OrderInv, LockInv
    <3> QED  BY <2>1, <3>1, MovesLock
  <2>3. CASE v = statefulsets'[k].now
    <3>1. v.rv \in Nat
      BY <2>1, ResourceVersions
    <3> QED  BY <2>3, <3>1 DEF Distinguished
  <2> QED  BY <2>1, <2>2, <2>3, MovesVersions
<1> QED  BY <1>4, <1>5, <1>6 DEF OrderInv

\* What the worker holds stays in order while it rests, and is kept by a step
\* that changes neither the StatefulSet it holds nor the version it works on.
LEMMA WorkerKeeps ==
    ASSUME ImportInv, OrderInv, TypeOK', Next, w.pc \in Critical,
           w'.key = w.key, w'.cr = w.cr, w'.sts = w.sts
    PROVE  LET k == w'.cr.spec.target
           IN  /\ w'.sts.live /\ Distinguished(w'.sts, statefulsets'[k])
               /\ \A i \in Imports :
                     w'.sts.ann[i] <= secrets'[<<NamespaceOf[k], NameOf[i]>>].seen.rv
               /\ \A s \in Slots : \A n \in Nat :
                     n <= secrets[s].seen.rv => n <= secrets'[s].seen.rv
<1> DEFINE k == w.cr.spec.target
<1>1. TypeOK
  BY DEF ImportInv
<1>2. /\ k \in Instances /\ w.sts \in StatefulSetObj
      /\ \A i \in Imports : w.sts.ann[i] \in Nat
  BY <1>1, SlotType DEF TypeOK, Worker, ImportObj, StatefulSetObj
<1>3. /\ w.sts.live /\ Distinguished(w.sts, statefulsets[k])
      /\ \A i \in Imports : w.sts.ann[i] <= secrets[<<NamespaceOf[k], NameOf[i]>>].seen.rv
  BY DEF OrderInv, WorkerOrder
<1>4. Distinguished(w.sts, statefulsets'[k])
  BY <1>1, <1>2, <1>3, StatefulSetsMove, MovesLock DEF TypeOK
<1>5. \A s \in Slots : /\ secrets[s].seen.rv <= secrets'[s].seen.rv
                       /\ secrets[s].seen.rv \in Nat
                       /\ secrets'[s].seen.rv \in Nat
  BY <1>1, SecretsMove, MovesCache, ResourceVersions
     DEF ImportInv, SecretInv, OrderInv, CacheOrder, TypeOK, Versions
<1> QED  BY <1>2, <1>3, <1>4, <1>5, SlotOf

\* A step that leaves the worker alone and creates no job.
LEMMA WorkerRests ==
    ASSUME ImportInv, OrderInv, TypeOK', Next,
           w' = w \/ w'.pc \notin Critical,
           \A s \in Slots : \A v \in Versions(jobs'[s]) :
               \E u \in Versions(jobs[s]) : v.ver = u.ver
    PROVE  WorkerOrder'
<1>1. CASE w'.pc \notin Critical
  BY <1>1 DEF WorkerOrder
<1>2. CASE w' = w /\ w.pc \in Critical
  <2> DEFINE s == Slot(w.key, w.cr.spec)
             k == w.cr.spec.target
  <2>1. /\ s \in Slots /\ w.ver \in Nat
    BY Numbers
  <2>2. /\ w.sts.live /\ Distinguished(w.sts, statefulsets'[k])
        /\ \A i \in Imports :
              w.sts.ann[i] <= secrets'[<<NamespaceOf[k], NameOf[i]>>].seen.rv
        /\ w.ver <= secrets[s].seen.rv => w.ver <= secrets'[s].seen.rv
    BY <1>2, <2>1, WorkerKeeps
  <2>3. /\ w.pc \in {"listJobs", "rollout"} => w.sts.ann[w.key] <= w.ver
        /\ w.pc = "listJobs" => \/ w.ver <= secrets[s].seen.rv
                                \/ \A v \in Versions(jobs[s]) : v.ver < w.ver
        /\ w.pc = "rollout" => w.ver <= secrets[s].seen.rv
    BY <1>2 DEF OrderInv, WorkerOrder
  <2>4. (\A v \in Versions(jobs[s]) : v.ver < w.ver)
        => \A v \in Versions(jobs'[s]) : v.ver < w.ver
    BY <2>1
  <2> HIDE DEF s, k
  <2>5. w' = w
    BY <1>2
  <2> QED  BY <2>2, <2>3, <2>4, <2>5 DEF WorkerOrder, s, k
<1> QED  BY <1>1, <1>2

\* The same, when no StatefulSet is written either.
LEMMA RestOrder ==
    ASSUME ImportInv, OrderInv, TypeOK', Next,
           w' = w \/ w'.pc \notin Critical,
           \A s \in Slots : \A v \in Versions(jobs'[s]) :
               \E u \in Versions(jobs[s]) : v.ver = u.ver,
           \A k \in Instances :
               Versions(statefulsets'[k]) \subseteq Versions(statefulsets[k])
    PROVE  OrderInv'
<1>1. WorkerOrder'
  BY WorkerRests
<1> QED  BY <1>1, OrderStep

\* Before anything happens there is nothing to be out of order.
LEMMA InitOrder == Init => OrderInv
<1> SUFFICES ASSUME Init PROVE OrderInv
  OBVIOUS
<1>1. CacheOrder
  <2>1. \A s \in Slots : /\ secrets[s].seen = NoSecret
                         /\ Versions(secrets[s]) = {NoSecret}
    BY DEF Init, InSync, Versions
  <2>2. NoSecret.rv = 0
    BY DEF NoSecret
  <2> QED  BY <2>1, <2>2 DEF CacheOrder
<1>2. AnnotationsSeen
  <2>1. \A s \in Slots : secrets[s].seen.rv = 0
    BY DEF Init, InSync, NoSecret
  <2>2. PICK kc \in [Instances -> [live: BOOLEAN, rv: {0}, ready: BOOLEAN]] :
           statefulsets = [k \in Instances |->
               InSync([NoStatefulSet EXCEPT !.live = kc[k].live])]
    BY DEF Init
  <2>3. ASSUME NEW k \in Instances, NEW v \in Versions(statefulsets[k])
        PROVE  v.ann = [i \in Imports |-> 0]
    <3>1. statefulsets[k] = InSync([NoStatefulSet EXCEPT !.live = kc[k].live])
      BY <2>2
    <3>2. v = [NoStatefulSet EXCEPT !.live = kc[k].live]
      BY <2>3, <3>1 DEF InSync, Versions
    <3> QED  BY <3>2 DEF NoStatefulSet
  <2> QED  BY <2>1, <2>3, SlotOf DEF AnnotationsSeen
<1>3. LockInv
  <2> DEFINE x(kc, k) == [NoStatefulSet EXCEPT !.live = kc[k].live]
  <2> PICK kc \in [Instances -> [live: BOOLEAN, rv: {0}, ready: BOOLEAN]] :
         statefulsets = [k \in Instances |-> InSync(x(kc, k))]
    BY DEF Init
  <2> HIDE DEF x
  <2>1. \A k \in Instances : Versions(statefulsets[k]) = {statefulsets[k].now}
    BY DEF InSync, Versions
  <2>2. \A k \in Instances : statefulsets[k].now.rv = 0
    BY DEF Init, InSync, NoStatefulSet
  <2> QED  BY <2>1, <2>2 DEF LockInv, Distinguished
<1>4. WorkerOrder
  BY DEF Init, Idle, WorkerOrder, Critical
<1> QED  BY <1>1, <1>2, <1>3, <1>4 DEF OrderInv

\* GetKeycloak takes the StatefulSet from the cache.
LEMMA GetKeycloakOrder ==
    ASSUME ImportInv, OrderInv, TypeOK', Next, GetKeycloak
    PROVE  OrderInv'
<1> DEFINE k == w.cr.spec.target
           sts == statefulsets[k].seen
<1>1. UNCHANGED <<secrets, jobs, statefulsets>> /\ k \in Instances
  BY Numbers DEF GetKeycloak, objects
<1>2. CASE sts.live /\ w' = [w EXCEPT !.pc = "secret", !.sts = sts]
  <2>1. w'.pc = "secret" /\ w'.sts = sts /\ w'.cr = w.cr /\ w'.key = w.key
    BY <1>2, Numbers DEF Worker
  <2>2. sts \in Versions(statefulsets[k])
    BY DEF Versions
  <2>3. WorkerOrder'
    BY <1>1, <1>2, <2>1, <2>2 DEF WorkerOrder, OrderInv, LockInv, AnnotationsSeen
  <2> QED  BY <1>1, <2>3, OrderStep
<1>3. ASSUME NEW st \in Status, Report(st) PROVE OrderInv'
  <2>1. w'.pc \notin Critical
    BY <1>3, Numbers DEF Report, Worker, Critical
  <2> QED  BY <1>1, <2>1, RestOrder
<1> QED  BY <1>2, <1>3 DEF GetKeycloak, Status

\* ApplySecret leaves with a version that the cache shows, or with one that no
\* job has yet.
LEMMA ApplySecretOrder ==
    ASSUME ImportInv, OrderInv, TypeOK', Next, ApplySecret
    PROVE  OrderInv'
<1> DEFINE s == Slot(w.key, w.cr.spec)
           k == w.cr.spec.target
           o == secrets[s]
           v == [o.now EXCEPT !.live = TRUE, !.owner = w.key,
                              !.data = Content(w.cr.spec)]
<1>1. /\ UNCHANGED <<jobs, statefulsets>> /\ w.pc \in Critical
      /\ s \in Slots /\ w.key \in Imports /\ s = <<NamespaceOf[k], NameOf[w.key]>>
      /\ o \in Tracked(SecretObj)
  BY Numbers DEF ApplySecret, At, Critical, Slot
<1>2. /\ o.seen.rv \in Nat /\ o.now.rv \in Nat /\ o.seen.rv <= o.now.rv
      /\ w.sts.ann[w.key] \in Nat /\ w.sts.ann[w.key] <= o.seen.rv
  BY <1>1, Numbers, ResourceVersions
     DEF ImportInv, SecretInv, Versions, OrderInv, WorkerOrder, Worker,
         StatefulSetObj
<1>3. ASSUME NEW ver \in Nat, w' = [w EXCEPT !.pc = "listJobs", !.ver = ver],
             w.sts.ann[w.key] <= ver,
             ver <= o.seen.rv \/ \A x \in Versions(jobs[s]) : x.ver < ver
      PROVE  OrderInv'
  <2>1. /\ w'.pc = "listJobs" /\ w'.ver = ver /\ w'.key = w.key
        /\ w'.cr = w.cr /\ w'.sts = w.sts
    BY <1>3, Numbers DEF Worker
  <2>2. /\ w.sts.live /\ Distinguished(w.sts, statefulsets'[k])
        /\ \A i \in Imports :
              w.sts.ann[i] <= secrets'[<<NamespaceOf[k], NameOf[i]>>].seen.rv
        /\ ver <= secrets[s].seen.rv => ver <= secrets'[s].seen.rv
    BY <1>1, <2>1, WorkerKeeps
  <2>3. WorkerOrder'
    BY <1>1, <1>3, <2>1, <2>2 DEF WorkerOrder
  <2> QED  BY <1>1, <2>3, OrderStep
<1>4. CASE w' = [w EXCEPT !.pc = "listJobs", !.ver = o.seen.rv]
  <2> DEFINE ver == o.seen.rv
  <2>1. /\ ver \in Nat /\ w.sts.ann[w.key] <= ver /\ ver <= o.seen.rv
        /\ w' = [w EXCEPT !.pc = "listJobs", !.ver = ver]
    BY <1>2, <1>4
  <2> HIDE DEF ver
  <2> QED  BY <1>3, <2>1
<1>5. CASE w' = [w EXCEPT !.pc = "listJobs", !.ver = Put(o, v).now.rv]
  <2>1. Put(o, v).now.rv = o.now.rv + 1
    BY <1>1 DEF Put, Tracked, SecretObj
  <2>2. \A x \in Versions(jobs[s]) : x.ver \in Nat /\ x.ver <= o.now.rv
    BY <1>1, Numbers, VersionTypes DEF ImportInv, JobInv
  <2>3. /\ o.now.rv + 1 \in Nat /\ w.sts.ann[w.key] <= o.now.rv + 1
        /\ \A x \in Versions(jobs[s]) : x.ver < o.now.rv + 1
    BY <1>2, <2>2
  <2>4. w' = [w EXCEPT !.pc = "listJobs", !.ver = o.now.rv + 1]
    BY <1>5, <2>1
  <2> QED  BY <1>3, <2>3, <2>4
<1>6. CASE w'.pc \notin Critical
  BY <1>1, <1>6, RestOrder
<1>7. CASE Report("error")
  <2>1. w'.pc \notin Critical
    BY <1>7, Numbers DEF Report, Worker, Critical
  <2> QED  BY <1>6, <2>1
<1>8. CASE Requeue
  <2>1. w'.pc \notin Critical
    BY <1>8 DEF Requeue, Idle, Critical
  <2> QED  BY <1>6, <2>1
<1> QED  BY <1>4, <1>5, <1>7, <1>8 DEF ApplySecret

\* A job that ListJobs finds for the version it works on tells that the cache
\* of the secret shows that version.
LEMMA ListJobsOrder ==
    ASSUME ImportInv, OrderInv, TypeOK', Next, ListJobs
    PROVE  OrderInv'
<1> DEFINE s == Slot(w.key, w.cr.spec)
           k == w.cr.spec.target
           o == jobs[s]
<1>1. /\ UNCHANGED <<secrets, statefulsets>> /\ w.pc = "listJobs"
      /\ w.pc \in Critical /\ s \in Slots /\ w.ver \in Nat /\ w.key \in Imports
  BY Numbers DEF ListJobs, At, Critical
<1>2. /\ w.sts.ann[w.key] <= w.ver
      /\ \/ w.ver <= secrets[s].seen.rv
         \/ \A v \in Versions(o) : v.ver < w.ver
  BY <1>1 DEF OrderInv, WorkerOrder
<1>3. ASSUME w'.key = w.key, w'.cr = w.cr, w'.sts = w.sts, w'.ver = w.ver,
             w'.pc \in {"createJob", "rollout"},
             w'.pc = "rollout" => w.ver <= secrets[s].seen.rv
      PROVE  OrderInv'
  <2>1. /\ w.sts.live /\ Distinguished(w.sts, statefulsets'[k])
        /\ \A i \in Imports :
              w.sts.ann[i] <= secrets'[<<NamespaceOf[k], NameOf[i]>>].seen.rv
    BY <1>1, <1>3, WorkerKeeps
  <2>2. WorkerOrder'
    BY <1>1, <1>2, <1>3, <2>1 DEF WorkerOrder
  <2> QED  BY <1>1, <2>2, OrderStep
<1>4. ASSUME NEW b, o.seen.ver = w.ver,
             w' = [w EXCEPT !.pc = "rollout", !.completed = b]
      PROVE  OrderInv'
  <2>1. /\ w'.key = w.key /\ w'.cr = w.cr /\ w'.sts = w.sts
        /\ w'.ver = w.ver /\ w'.pc = "rollout"
    BY <1>4, Numbers DEF Worker
  <2>2. w.ver <= secrets[s].seen.rv
    BY <1>1, <1>2, <1>4 DEF Versions
  <2> QED  BY <1>3, <2>1, <2>2
<1>5. CASE Goto("createJob")
  <2>1. /\ w'.key = w.key /\ w'.cr = w.cr /\ w'.sts = w.sts
        /\ w'.ver = w.ver /\ w'.pc = "createJob"
    BY <1>5, Numbers DEF Goto, Worker
  <2> QED  BY <1>3, <2>1
<1>6. CASE Report("error") /\ UNCHANGED jobs
  <2>1. w'.pc \notin Critical
    BY <1>6, Numbers DEF Report, Worker, Critical
  <2> QED  BY <1>1, <1>6, <2>1, RestOrder
<1> QED  BY <1>4, <1>5, <1>6 DEF ListJobs

\* Steps of the worker that leave the critical part, whatever they do to jobs.
LEMMA LeaveOrder ==
    ASSUME ImportInv, OrderInv, TypeOK', Next, CreateJob \/ CleanJobs
    PROVE  OrderInv'
<1>1. UNCHANGED statefulsets
  BY DEF CreateJob, CleanJobs
<1>2. w'.pc \notin Critical
  <2>1. ASSUME NEW st \in Status, Report(st) PROVE w'.pc \notin Critical
    BY <2>1, Numbers DEF Report, Worker, Critical
  <2>2. CASE Requeue
    BY <2>2 DEF Requeue, Idle, Critical
  <2>3. CASE Goto("cleanSecrets")
    BY <2>3, Numbers DEF Goto, Worker, Critical
  <2> QED  BY <2>1, <2>2, <2>3 DEF CreateJob, CleanJobs, Status
<1>3. WorkerOrder'
  BY <1>2 DEF WorkerOrder
<1> QED  BY <1>1, <1>3, OrderStep

\* Rollout annotates with a version that the cache of the secret shows.
LEMMA RolloutOrder ==
    ASSUME ImportInv, OrderInv, TypeOK', Next, Rollout
    PROVE  OrderInv'
<1> DEFINE s == Slot(w.key, w.cr.spec)
           k == w.cr.spec.target
           v == [w.sts EXCEPT !.ann[w.key] = w.ver]
           new == Put(statefulsets[k], v)
<1>1. /\ UNCHANGED <<secrets, jobs>> /\ w.pc = "rollout" /\ w.pc \in Critical
      /\ s = <<NamespaceOf[k], NameOf[w.key]>> /\ k \in Instances /\ w.key \in Imports
      /\ w.sts \in StatefulSetObj
      /\ statefulsets \in [Instances -> Tracked(StatefulSetObj)]
  BY Numbers DEF Rollout, At, Critical, Slot, Worker, ImportInv, TypeOK
<1>2. w'.pc \notin Critical
  <2>1. CASE Report("ready")
    BY <2>1, Numbers DEF Report, Worker, Critical
  <2>2. CASE Requeue
    BY <2>2 DEF Requeue, Idle, Critical
  <2> QED  BY <2>1, <2>2 DEF Rollout
<1>3. CASE UNCHANGED statefulsets
  BY <1>1, <1>2, <1>3, RestOrder
<1>4. CASE statefulsets' = [statefulsets EXCEPT ![k] = new]
  <2>1. /\ statefulsets'[k] = new
        /\ \A x \in Instances \ {k} : statefulsets'[x] = statefulsets[x]
    BY <1>1, <1>4
  <2>2. \A i \in Imports :
           new.now.ann[i] <= secrets[<<NamespaceOf[k], NameOf[i]>>].seen.rv
    <3>1. \A i \in Imports :
             new.now.ann[i] = IF i = w.key THEN w.ver ELSE w.sts.ann[i]
      <4>1. \A i \in Imports :
               v.ann[i] = IF i = w.key THEN w.ver ELSE w.sts.ann[i]
        BY <1>1 DEF StatefulSetObj
      <4>2. v = [w.sts EXCEPT !.ann = v.ann]
        BY <1>1 DEF StatefulSetObj
      <4>3. DOMAIN v = {"live", "rv", "ann"}
        BY <1>1 DEF StatefulSetObj
      <4> HIDE DEF v
      <4>4. new.now = [v EXCEPT !.rv = statefulsets[k].now.rv + 1]
        BY <1>1 DEF Put, Tracked
      <4>5. new.now.ann = v.ann
        BY <4>3, <4>4
      <4> QED  BY <4>1, <4>5
    <3>2. w.ver <= secrets[s].seen.rv
      BY <1>1 DEF OrderInv, WorkerOrder
    <3>3. \A i \in Imports :
             w.sts.ann[i] <= secrets[<<NamespaceOf[k], NameOf[i]>>].seen.rv
      BY <1>1 DEF OrderInv, WorkerOrder
    <3> QED  BY <1>1, <3>1, <3>2, <3>3
  <2>3. \A x \in Versions(new) : x \in Versions(statefulsets[k]) \/ x = new.now
    BY <1>1, PutVersions
  <2> HIDE DEF new
  <2>4. \A x \in Instances : \A y \in Versions(statefulsets'[x]) :
           \/ y \in Versions(statefulsets[x])
           \/ \A i \in Imports : y.ann[i] <= secrets[<<NamespaceOf[x], NameOf[i]>>].seen.rv
    BY <2>1, <2>2, <2>3
  <2>5. WorkerOrder'
    BY <1>2 DEF WorkerOrder
  <2> QED  BY <2>4, <2>5, OrderStep
<1> QED  BY <1>3, <1>4 DEF Rollout

\* The writers of the instance keep the annotations or start without any.
LEMMA WriteStatefulSetOrder ==
    ASSUME ImportInv, OrderInv, TypeOK', Next,
           NEW k \in Instances, WriteStatefulSet(k)
    PROVE  OrderInv'
<1> DEFINE o == statefulsets[k]
<1>1. /\ UNCHANGED <<secrets, jobs, w>> /\ o \in Tracked(StatefulSetObj)
      /\ o.now \in StatefulSetObj
      /\ statefulsets \in [Instances -> Tracked(StatefulSetObj)]
      /\ statefulsets' \in [Instances -> Tracked(StatefulSetObj)]
  BY DEF WriteStatefulSet, ImportInv, TypeOK, Tracked
<1>2. \/ statefulsets'[k].now.ann = o.now.ann
      \/ statefulsets'[k].now.ann = [i \in Imports |-> 0]
  <2>1. /\ Put(o, o.now).now.ann = o.now.ann
        /\ Remove(o).now.ann = o.now.ann
        /\ Put(o, [NoStatefulSet EXCEPT !.live = TRUE]).now.ann
              = [i \in Imports |-> 0]
    BY <1>1 DEF Put, Remove, NoStatefulSet, Tracked, StatefulSetObj
  <2> QED  BY <1>1, <2>1 DEF WriteStatefulSet
<1>3. \A x \in Instances \ {k} : statefulsets'[x] = statefulsets[x]
  BY <1>1 DEF WriteStatefulSet
<1>4. \A i \in Imports :
         statefulsets'[k].now.ann[i] <= secrets[<<NamespaceOf[k], NameOf[i]>>].seen.rv
  <2>1. \A i \in Imports : secrets[<<NamespaceOf[k], NameOf[i]>>].seen.rv \in Nat
    BY SlotOf, Numbers, ResourceVersions DEF Versions
  <2>2. \A i \in Imports : o.now.ann[i] <= secrets[<<NamespaceOf[k], NameOf[i]>>].seen.rv
    BY DEF OrderInv, AnnotationsSeen, Versions
  <2> QED  BY <1>2, <2>1, <2>2
<1>5. \A x \in Instances : \A v \in Versions(statefulsets'[x]) :
         \/ v \in Versions(statefulsets[x])
         \/ \A i \in Imports : v.ann[i] <= secrets[<<NamespaceOf[x], NameOf[i]>>].seen.rv
  <2>1. Moves(statefulsets[k], statefulsets'[k])
    BY StatefulSetsMove DEF ImportInv
  <2>2. \A v \in Versions(statefulsets'[k]) :
           v \in Versions(statefulsets[k]) \/ v = statefulsets'[k].now
    BY <1>1, <2>1, MovesVersions
  <2> QED  BY <1>3, <1>4, <2>2
<1>6. WorkerOrder'
  BY <1>1, WorkerRests
<1> QED  BY <1>5, <1>6, OrderStep

\* The Job controller never changes the version a job is for.
LEMMA JobControllerOrder ==
    ASSUME ImportInv, OrderInv, TypeOK', Next, NEW s \in Slots, JobController(s)
    PROVE  OrderInv'
<1> DEFINE o == jobs[s]
<1>1. /\ UNCHANGED <<statefulsets, w>>
      /\ jobs \in [Slots -> Tracked(JobObj)] /\ o \in Tracked(JobObj)
      /\ o.now \in JobObj
  BY DEF JobController, StartPod, PodSucceeds, JobCompletes, PodFails,
         KillPod, JobGone, objects, ImportInv, TypeOK, Tracked
<1>2. ASSUME NEW v \in JobObj, v.ver = o.now.ver,
             jobs' = [jobs EXCEPT ![s] = Put(@, v)]
      PROVE  OrderInv'
  <2>1. /\ jobs'[s] = Put(o, v)
        /\ \A x \in Slots \ {s} : jobs'[x] = jobs[x]
    BY <1>1, <1>2
  <2>2. /\ Put(o, v).now.ver = o.now.ver
        /\ \A x \in Versions(Put(o, v)) : x \in Versions(o) \/ x = Put(o, v).now
    <3>1. Put(o, v).now.ver = o.now.ver
      BY <1>1, <1>2 DEF Put, Tracked, JobObj
    <3>2. Versions(Put(o, v)) \subseteq Versions(o) \cup {Put(o, v).now}
      BY <1>1, PutVersions
    <3> QED  BY <3>1, <3>2
  <2>3. \A x \in Slots : \A y \in Versions(jobs'[x]) :
           \E u \in Versions(jobs[x]) : y.ver = u.ver
    BY <2>1, <2>2 DEF Versions
  <2> QED  BY <1>1, <2>3, RestOrder
<1>3. CASE UNCHANGED jobs
  BY <1>1, <1>3, RestOrder
<1>4. \A phase \in {"complete", "failed"} :
         /\ [o.now EXCEPT !.phase = phase] \in JobObj
         /\ [o.now EXCEPT !.phase = phase].ver = o.now.ver
  BY <1>1 DEF JobObj
<1>5. /\ [o.now EXCEPT !.live = FALSE] \in JobObj
      /\ [o.now EXCEPT !.live = FALSE].ver = o.now.ver
  BY <1>1 DEF JobObj
<1>6. CASE JobCompletes(s)
  BY <1>2, <1>4, <1>6 DEF JobCompletes
<1>7. CASE PodFails(s)
  BY <1>2, <1>4, <1>7 DEF PodFails
<1>8. CASE JobGone(s)
  BY <1>2, <1>5, <1>8 DEF JobGone, Remove
<1> QED
  BY <1>3, <1>6, <1>7, <1>8
     DEF JobController, StartPod, PodSucceeds, KillPod, objects

\* Watches, restarts and users, and the steps of the worker that do not touch
\* what the invariant is about.
LEMMA QuietOrder ==
    ASSUME ImportInv, OrderInv, TypeOK', Next,
           \A s \in Slots : Versions(jobs'[s]) \subseteq Versions(jobs[s]),
           \A k \in Instances :
               Versions(statefulsets'[k]) \subseteq Versions(statefulsets[k]),
           w' = w \/ w'.pc \notin Critical
    PROVE  OrderInv'
BY RestOrder

\* The steps of the worker outside the critical part.
LEMMA OwnOrder ==
    ASSUME ImportInv, OrderInv, TypeOK', Next,
           \/ \E i \in Imports : Dequeue(i)
           \/ GetImport \/ RemoveFinalizer \/ AddFinalizer \/ UpdateStatus
           \/ CleanSecrets
    PROVE  OrderInv'
<1>1. UNCHANGED <<jobs, statefulsets>>
  BY DEF Dequeue, GetImport, RemoveFinalizer, AddFinalizer, UpdateStatus,
         CleanSecrets, objects
<1>2. w'.pc \notin Critical
  <2>1. w \in Worker
    BY Numbers
  <2>2. Idle.pc \notin Critical
    BY DEF Idle, Critical
  <2>3. ASSUME NEW i \in Imports, Dequeue(i) PROVE w'.pc \notin Critical
    BY <2>1, <2>3 DEF Dequeue, Worker, Critical
  <2>4. CASE GetImport
    BY <2>1, <2>2, <2>4 DEF GetImport, Done, Branch, Worker, Critical
  <2>5. CASE RemoveFinalizer
    BY <2>1, <2>2, <2>5 DEF RemoveFinalizer, Requeue, Worker, Critical
  <2>6. CASE AddFinalizer
    BY <2>1, <2>2, <2>6 DEF AddFinalizer, Requeue, Worker, Critical
  <2>7. CASE UpdateStatus
    BY <2>2, <2>7 DEF UpdateStatus, Done, Requeue, Critical
  <2>8. CASE CleanSecrets
    BY <2>1, <2>2, <2>8 DEF CleanSecrets, Requeue, Goto, Worker, Critical
  <2> QED  BY <2>3, <2>4, <2>5, <2>6, <2>7, <2>8
<1> QED  BY <1>1, <1>2, QuietOrder

\* Watches, restarts and users.
LEMMA EnvironmentOrder ==
    ASSUME ImportInv, OrderInv, TypeOK', Next,
           \/ Watch \/ Restart \/ Relaunch \/ User
           \/ \E k \in Instances : WriteKeycloak(k)
    PROVE  OrderInv'
<1>1. /\ jobs \in [Slots -> Tracked(JobObj)]
      /\ statefulsets \in [Instances -> Tracked(StatefulSetObj)]
  BY DEF ImportInv, TypeOK
<1>2. CASE UNCHANGED <<jobs, statefulsets, w>>
  BY <1>2, QuietOrder
<1>3. ASSUME NEW k \in Instances, ObserveStatefulSet(k) PROVE OrderInv'
  <2>1. \A x \in Instances :
           Versions(statefulsets'[x]) \subseteq Versions(statefulsets[x])
    BY <1>1, <1>3, ObserveVersions DEF ObserveStatefulSet
  <2>2. UNCHANGED <<jobs, w>>
    BY <1>3 DEF ObserveStatefulSet
  <2> QED  BY <2>1, <2>2, QuietOrder
<1>4. ASSUME NEW s \in Slots, ObserveJob(s) PROVE OrderInv'
  <2>1. \A x \in Slots : Versions(jobs'[x]) \subseteq Versions(jobs[x])
    BY <1>1, <1>4, ObserveVersions DEF ObserveJob
  <2>2. UNCHANGED <<statefulsets, w>>
    BY <1>4 DEF ObserveJob
  <2> QED  BY <2>1, <2>2, QuietOrder
<1>5. ASSUME NEW s, ObserveSecret(s) \/ ObserveSource(s) PROVE OrderInv'
  <2>1. UNCHANGED <<jobs, statefulsets>>
    BY <1>5 DEF ObserveSecret, ObserveSource
  <2>2. w' = w \/ w'.pc \notin Critical
    BY <1>5, HandlerQuiet DEF ObserveSecret, ObserveSource
  <2> QED  BY <2>1, <2>2, QuietOrder
<1>6. CASE Restart \/ Relaunch
  <2>1. \A s \in Slots : Versions(jobs'[s]) \subseteq Versions(jobs[s])
    BY <1>1, <1>6, RelistVersions DEF Restart, Relaunch, Start
  <2>2. \A k \in Instances :
           Versions(statefulsets'[k]) \subseteq Versions(statefulsets[k])
    BY <1>1, <1>6, RelistVersions DEF Restart, Relaunch, Start
  <2>3. w'.pc \notin Critical
    BY <1>6 DEF Restart, Relaunch, Start, Idle, Down, Critical
  <2> QED  BY <2>1, <2>2, <2>3, QuietOrder
<1> QED
  BY <1>2, <1>3, <1>4, <1>5, <1>6
     DEF Watch, ObserveImport, ObserveKeycloak, User, CreateImport, EditImport,
         DeleteImport, ReleaseImport, EditSource, UserVars, WriteKeycloak

\* Every step preserves the invariant.
LEMMA NextOrder == ImportInv /\ OrderInv /\ [Next]_vars => OrderInv'
<1> SUFFICES ASSUME ImportInv, OrderInv, [Next]_vars PROVE OrderInv'
  OBVIOUS
<1>1. TypeOK'
  BY TypeStep DEF ImportInv
<1>2. CASE Next
  BY <1>1, <1>2, GetKeycloakOrder, ApplySecretOrder, ListJobsOrder, LeaveOrder,
     RolloutOrder, WriteStatefulSetOrder, JobControllerOrder, OwnOrder,
     EnvironmentOrder
     DEF Next, Reconcile, InstanceWriter
<1>3. CASE UNCHANGED vars
  BY <1>3 DEF vars, objects, OrderInv, CacheOrder, AnnotationsSeen, LockInv,
              WorkerOrder
<1> QED  BY <1>2, <1>3

\* What caches, worker and StatefulSets hold is in order throughout.
THEOREM Order == Spec => []OrderInv
<1>1. Init => OrderInv
  BY InitOrder
<1>2. ImportInv /\ OrderInv /\ [Next]_vars => OrderInv'
  BY NextOrder
<1> QED  BY <1>1, <1>2, Invariance, PTL DEF Spec

-----------------------------------------------------------------------------
(***************************************************************************)
(* Consequences.                                                           *)
(***************************************************************************)

\* What Rollout stores: the StatefulSet that is there, one annotation moved
\* forward to a version that has landed.
LEMMA RolloutEffect ==
    ASSUME ImportInv, OrderInv, Rollout, ~UNCHANGED statefulsets
    PROVE  LET k == w.cr.spec.target
               o == statefulsets[k]
               p == statefulsets'[k]
           IN  /\ k \in Instances /\ w.key \in Imports /\ w.ver \in Nat
               /\ \A x \in Instances \ {k} : statefulsets'[x] = statefulsets[x]
               /\ o.now.live /\ p.now.live
               /\ p.now.ann = [o.now.ann EXCEPT ![w.key] = w.ver]
               /\ o.now.ann[w.key] < w.ver
               /\ w.ver <= secrets[<<NamespaceOf[k], NameOf[w.key]>>].now.rv
               /\ Landed(<<NamespaceOf[k], NameOf[w.key]>>, w.ver)
<1> DEFINE k == w.cr.spec.target
           o == statefulsets[k]
           v == [w.sts EXCEPT !.ann[w.key] = w.ver]
<1>1. /\ k \in Instances /\ w.key \in Imports /\ w.ver \in Nat
      /\ Slot(w.key, w.cr.spec) = <<NamespaceOf[k], NameOf[w.key]>>
      /\ o \in Tracked(StatefulSetObj) /\ w.sts \in StatefulSetObj
      /\ statefulsets \in [Instances -> Tracked(StatefulSetObj)]
  BY Numbers DEF Slot, Worker, ImportInv, TypeOK
<1>2. /\ w.pc = "rollout" /\ w.pc \in Critical
      /\ RolloutDue /\ RolloutAccepted(o)
      /\ statefulsets' = [statefulsets EXCEPT ![k] = Put(o, v)]
  BY DEF Rollout, At, Critical
<1>3. /\ w.sts.live /\ w.sts = o.now
  BY <1>1, <1>2 DEF OrderInv, WorkerOrder, Distinguished, RolloutAccepted, Current
<1>4. statefulsets'[k] = Put(o, v)
      /\ \A x \in Instances \ {k} : statefulsets'[x] = statefulsets[x]
  BY <1>1, <1>2
<1>5. /\ Put(o, v).now.live = w.sts.live
      /\ Put(o, v).now.ann = [w.sts.ann EXCEPT ![w.key] = w.ver]
  BY <1>1 DEF Put, Tracked, StatefulSetObj
<1>6. o.now.ann[w.key] < w.ver
  <2>1. w.sts.ann[w.key] <= w.ver /\ w.sts.ann[w.key] # w.ver
    BY <1>2 DEF OrderInv, WorkerOrder, RolloutDue
  <2>2. w.sts.ann[w.key] \in Nat
    BY <1>1 DEF StatefulSetObj
  <2>3. w.ver \in Nat /\ o.now.ann[w.key] = w.sts.ann[w.key]
    BY <1>1, <1>3
  <2> QED  BY ONLY <2>1, <2>2, <2>3
<1>7. /\ w.ver <= secrets[<<NamespaceOf[k], NameOf[w.key]>>].now.rv
      /\ Landed(<<NamespaceOf[k], NameOf[w.key]>>, w.ver)
  BY <1>1, <1>2 DEF ImportInv, WorkerInv, RolloutDue
<1> HIDE DEF v
<1> QED  BY <1>1, <1>3, <1>4, <1>5, <1>6, <1>7

\* What the other writers store: the annotations that are there, or nothing.
LEMMA WriterEffect ==
    ASSUME TypeOK, NEW k \in Instances, WriteStatefulSet(k)
    PROVE  LET o == statefulsets[k]
               p == statefulsets'[k]
           IN  /\ \A x \in Instances \ {k} : statefulsets'[x] = statefulsets[x]
               /\ \/ /\ p.now.live /\ o.now.live /\ p.now.ann = o.now.ann
                  \/ ~p.now.live
                  \/ ~o.now.live /\ p.now.ann = [i \in Imports |-> 0]
<1> DEFINE o == statefulsets[k]
<1>1. /\ o \in Tracked(StatefulSetObj) /\ o.now \in StatefulSetObj
      /\ statefulsets \in [Instances -> Tracked(StatefulSetObj)]
  BY DEF TypeOK, Tracked
<1>2. /\ Put(o, o.now).now.ann = o.now.ann
      /\ Put(o, o.now).now.live = o.now.live
      /\ ~Remove(o).now.live
      /\ Put(o, [NoStatefulSet EXCEPT !.live = TRUE]).now.ann
            = [i \in Imports |-> 0]
  BY <1>1 DEF Put, Remove, NoStatefulSet, Tracked, StatefulSetObj
<1> QED  BY <1>1, <1>2 DEF WriteStatefulSet

\* All other steps leave the stored StatefulSets alone.
LEMMA OtherEffect ==
    ASSUME TypeOK, Next
    PROVE  \/ Rollout
           \/ \E k \in Instances : WriteStatefulSet(k)
           \/ \A k \in Instances : statefulsets'[k].now = statefulsets[k].now
<1>1. statefulsets \in [Instances -> Tracked(StatefulSetObj)]
  BY DEF TypeOK
<1>2. ASSUME NEW k \in Instances, ObserveStatefulSet(k)
      PROVE  \A x \in Instances : statefulsets'[x].now = statefulsets[x].now
  BY <1>1, <1>2, ObserveVersions DEF ObserveStatefulSet
<1>3. CASE Restart \/ Relaunch
  BY <1>1, <1>3, RelistVersions DEF Restart, Relaunch, Start
<1> QED
  BY <1>2, <1>3
     DEF Next, Reconcile, Watch, User, InstanceWriter, JobController, Dequeue,
         GetImport, CleanJobs, CleanSecrets, RemoveFinalizer, AddFinalizer,
         GetKeycloak, ApplySecret, ListJobs, CreateJob, UpdateStatus,
         ObserveImport, ObserveKeycloak, ObserveSecret, ObserveJob,
         ObserveSource, CreateImport, EditImport, DeleteImport, ReleaseImport,
         EditSource, UserVars, WriteKeycloak, StartPod, PodSucceeds,
         JobCompletes, PodFails, KillPod, JobGone, objects

\* For any number of imports and whatever caches show, the rollout of one import
\* undoes neither that of another nor a write by the Keycloak controller.
THEOREM RolloutsKept == Spec => NoLostRollout
<1> DEFINE A == \A k \in Instances, i \in Imports :
         /\ statefulsets[k].now.live /\ statefulsets'[k].now.live
         /\ statefulsets'[k].now.ann[i] # statefulsets[k].now.ann[i]
         => w.key = i /\ statefulsets'[k].now.ann[i] = w.ver
<1>1. ImportInv /\ OrderInv /\ [Next]_vars => [A]_vars
  <2> SUFFICES ASSUME ImportInv, OrderInv, Next PROVE A
    OBVIOUS
  <2> SUFFICES ASSUME NEW k \in Instances, NEW i \in Imports,
                      statefulsets[k].now.live, statefulsets'[k].now.live,
                      statefulsets'[k].now.ann[i] # statefulsets[k].now.ann[i]
               PROVE  w.key = i /\ statefulsets'[k].now.ann[i] = w.ver
    OBVIOUS
  <2>1. TypeOK /\ statefulsets[k].now.ann \in [Imports -> Nat]
    BY DEF ImportInv, TypeOK, Tracked, StatefulSetObj
  <2>2. CASE Rollout
    BY <2>1, <2>2, RolloutEffect
  <2>3. ASSUME NEW x \in Instances, WriteStatefulSet(x)
        PROVE  statefulsets'[k].now.ann = statefulsets[k].now.ann
    BY <2>1, <2>3, WriterEffect
  <2> QED  BY <2>1, <2>2, <2>3, OtherEffect
<1> QED  BY <1>1, Invariance, Order, PTL DEF Spec, NoLostRollout

-----------------------------------------------------------------------------
(***************************************************************************)
(* The refinement: every step publishes, imports or rolls out one realm,   *)
(* replaces a server, or changes nothing that the life cycle speaks of.    *)
(***************************************************************************)

\* A step that stores no secret publishes nothing.
LEMMA PublishedFrame ==
    ASSUME TypeOK, Next
    PROVE  \/ CleanSecrets \/ ApplySecret
           \/ Published' = Published
<1>1. secrets \in [Slots -> Tracked(SecretObj)]
  BY DEF TypeOK
<1>2. ASSUME NEW s \in Slots, ObserveSecret(s)
      PROVE  \A x \in Slots : secrets'[x].now = secrets[x].now
  BY <1>1, <1>2, ObserveVersions DEF ObserveSecret
<1>3. CASE Restart \/ Relaunch
  <2>1. \A x \in Slots : secrets'[x].now = secrets[x].now
    BY <1>1, <1>3, RelistVersions DEF Restart, Relaunch, Start
  <2> QED  BY <2>1 DEF Published
<1>4. CASE \E s \in Slots : ObserveSecret(s)
  BY <1>2, <1>4 DEF Published
<1>5. CASE UNCHANGED secrets
  BY <1>5 DEF Published
<1> QED
  BY <1>3, <1>4, <1>5
     DEF Next, Reconcile, Watch, User, InstanceWriter, JobController, Dequeue,
         GetImport, CleanJobs, RemoveFinalizer, AddFinalizer,
         GetKeycloak, ListJobs, CreateJob, Rollout, UpdateStatus,
         ObserveImport, ObserveKeycloak, ObserveStatefulSet, ObserveJob,
         ObserveSource, CreateImport, EditImport, DeleteImport, ReleaseImport,
         EditSource, UserVars, WriteKeycloak, WriteStatefulSet, StartPod,
         PodSucceeds, JobCompletes, PodFails, KillPod, JobGone, objects

\* Only a pod that succeeds imports.
LEMMA ImportedFrame ==
    ASSUME Next
    PROVE  (\E s \in Slots : PodSucceeds(s)) \/ UNCHANGED realms
BY DEF Next, Reconcile, Watch, User, InstanceWriter, JobController, Dequeue,
       GetImport, CleanJobs, CleanSecrets, RemoveFinalizer, AddFinalizer,
       GetKeycloak, ApplySecret, ListJobs, CreateJob, Rollout, UpdateStatus,
       ObserveImport, ObserveKeycloak, ObserveStatefulSet, ObserveSecret,
       ObserveJob, ObserveSource, Restart, Relaunch, Start, CreateImport,
       EditImport, DeleteImport, ReleaseImport, EditSource, UserVars,
       WriteKeycloak, WriteStatefulSet, StartPod, JobCompletes, PodFails,
       KillPod, JobGone, objects

\* What the life cycle sees of a StatefulSet.
LEMMA RolledOutFrame ==
    ASSUME \A k \in Instances : statefulsets'[k].now = statefulsets[k].now
    PROVE  RolledOut' = RolledOut
BY DEF RolledOut

\* ApplySecret and CleanSecrets publish the next version of one realm.
LEMMA PublishStep ==
    ASSUME TypeOK, TypeOK', Next, CleanSecrets \/ ApplySecret
    PROVE  \/ \E s \in Slots : Lifecycle!Publish(s)
           \/ UNCHANGED Lifecycle!vars
<1> DEFINE t == Slot(w.key, w.cr.spec)
<1>1. t \in Slots /\ secrets \in [Slots -> Tracked(SecretObj)]
      /\ secrets' \in [Slots -> Tracked(SecretObj)]
  BY SlotType DEF TypeOK, Worker, ImportObj
<1>2. UNCHANGED <<realms, statefulsets>>
  BY DEF CleanSecrets, ApplySecret
<1>3. Imported' = Imported /\ RolledOut' = RolledOut
  BY <1>2 DEF Imported, RolledOut
<1>4. \A s \in Slots \ {t} : secrets'[s] = secrets[s]
  BY <1>1 DEF CleanSecrets, ApplySecret
<1>5. \/ secrets'[t].now = secrets[t].now
      \/ secrets'[t].now.rv = secrets[t].now.rv + 1
  <2>1. Moves(secrets[t], secrets'[t])
    BY <1>1, SecretsMove
  <2>2. \A v \in secrets[t].pend :
           Observe(secrets[t], v).now = secrets[t].now
    BY <1>1, ObserveVersions
  <2>3. Relist(secrets[t]).now = secrets[t].now
    BY <1>1, RelistVersions
  <2> QED  BY <2>1, <2>2, <2>3 DEF Moves, Stores
<1>6. CASE secrets'[t].now = secrets[t].now
  <2>1. Published' = Published
    BY <1>4, <1>6 DEF Published
  <2> QED  BY <1>3, <2>1 DEF Lifecycle!vars
<1>7. CASE secrets'[t].now.rv = secrets[t].now.rv + 1
  <2>1. Published' = [Published EXCEPT ![t] = @ + 1]
    BY <1>1, <1>4, <1>7 DEF Published
  <2> QED  BY <1>1, <1>3, <2>1 DEF Lifecycle!Publish
<1> QED  BY <1>5, <1>6, <1>7

\* A pod that succeeds imports a version that is published and not older than
\* the one that is there.
LEMMA ImportStep ==
    ASSUME ImportInv, NEW t \in Slots, PodSucceeds(t)
    PROVE  \/ \E k \in Instances : Lifecycle!Import(t, k)
           \/ UNCHANGED Lifecycle!vars
<1>1. PICK p \in pods[t] :
         /\ ~p.done
         /\ realms' = IF p.override \/ realms[t][p.into].rv = 0
                      THEN [realms EXCEPT ![t][p.into] =
                               [rv |-> p.rv, data |-> p.data]]
                      ELSE realms
  BY DEF PodSucceeds
<1> DEFINE k == p.into
           Ends == \/ \E x \in Instances : Lifecycle!Import(t, x)
                   \/ UNCHANGED Lifecycle!vars
<1>2. /\ p.rv \in Nat /\ p.rv # 0 /\ p.rv <= secrets[t].now.rv
      /\ k \in Instances /\ NamespaceOf[k] = t[1]
      /\ realms[t][k].rv <= p.rv /\ realms[t][k].rv \in Nat
      /\ secrets[t].now.rv \in Nat
      /\ realms \in [Slots -> [Instances -> [rv: Nat, data: Data \cup {NoValue}]]]
  <2>1. p \in PodObj
    BY DEF ImportInv, TypeOK
  <2> QED  BY <1>1, <2>1, Numbers DEF ImportInv, PodInv, PodObj, TypeOK
<1>3. UNCHANGED <<secrets, statefulsets>>
  BY DEF PodSucceeds, objects
<1>4. Published' = Published /\ RolledOut' = RolledOut
  BY <1>3 DEF Published, RolledOut
<1>5. ASSUME realms' = realms PROVE Ends
  BY <1>4, <1>5 DEF Lifecycle!vars, Imported
<1>6. ASSUME realms' = [realms EXCEPT ![t][k] = [rv |-> p.rv, data |-> p.data]]
      PROVE  Ends
  <2> DEFINE r == [rv |-> p.rv, data |-> p.data]
  <2>1. realms' = [realms EXCEPT ![t][k] = r] /\ r.rv = p.rv
    BY <1>6
  <2> HIDE DEF k, r
  <2>2. \A s \in Slots, x \in Instances :
           realms'[s][x].rv = IF s = t /\ x = k THEN p.rv ELSE realms[s][x].rv
    BY <1>2, <2>1
  <2>3. Imported' = [Imported EXCEPT ![t][k] = p.rv]
    <3> DEFINE next(s, x) ==
                 IF s = t /\ x = k THEN p.rv ELSE realms[s][x].rv
    <3>1. Imported' = [s \in Slots |-> [x \in Instances |-> next(s, x)]]
      BY <2>2 DEF Imported
    <3>2. [Imported EXCEPT ![t][k] = p.rv]
             = [s \in Slots |-> [x \in Instances |-> next(s, x)]]
      BY <1>2 DEF Imported
    <3> QED  BY <3>1, <3>2
  <2>4. Imported[t][k] = realms[t][k].rv /\ Published[t] = secrets[t].now.rv
    BY <1>2 DEF Imported, Published
  <2>5. ASSUME realms[t][k].rv = p.rv PROVE Ends
    <3>1. Imported' = Imported
      BY <2>2, <2>5 DEF Imported
    <3> QED  BY <1>4, <3>1 DEF Lifecycle!vars
  <2>6. ASSUME realms[t][k].rv < p.rv PROVE Ends
    <3>1. p.rv \in 1..Published[t] /\ Imported[t][k] < p.rv
      BY <1>2, <2>4, <2>6
    <3>2. Lifecycle!Import(t, k)
      BY <1>2, <1>4, <2>3, <3>1 DEF Lifecycle!Import
    <3> QED  BY <1>2, <3>2
  <2>7. realms[t][k].rv = p.rv \/ realms[t][k].rv < p.rv
    <3>1. \A m, n \in Nat : m <= n => m = n \/ m < n
      OBVIOUS
    <3> QED  BY <1>2, <3>1, Zenon
  <2> HIDE DEF Ends
  <2> QED  BY <2>5, <2>6, <2>7
<1>7. Ends
  BY <1>1, <1>5, <1>6
<1> QED  BY <1>7

\* Rollout moves one server forward to a version that has landed.
LEMMA RollOutStep ==
    ASSUME ImportInv, OrderInv, Rollout
    PROVE  \/ \E k \in Instances, i \in Imports : Lifecycle!RollOut(k, i)
           \/ UNCHANGED Lifecycle!vars
<1> DEFINE k == w.cr.spec.target
           i == w.key
           v == w.ver
           s == <<NamespaceOf[k], NameOf[i]>>
<1>1. UNCHANGED <<secrets, realms>>
  BY DEF Rollout
<1>2. Published' = Published /\ Imported' = Imported
  BY <1>1 DEF Published, Imported
<1>3. CASE UNCHANGED statefulsets
  BY <1>2, <1>3 DEF Lifecycle!vars, RolledOut
<1>4. CASE ~UNCHANGED statefulsets
  <2>1. /\ k \in Instances /\ i \in Imports /\ v \in Nat
        /\ \A x \in Instances \ {k} : statefulsets'[x] = statefulsets[x]
        /\ statefulsets[k].now.live /\ statefulsets'[k].now.live
        /\ statefulsets'[k].now.ann = [statefulsets[k].now.ann EXCEPT ![i] = v]
        /\ statefulsets[k].now.ann[i] < v
        /\ v <= secrets[s].now.rv /\ Landed(s, v)
    BY <1>4, RolloutEffect
  <2>2. /\ statefulsets[k].now.ann \in [Imports -> Nat]
        /\ s \in Slots /\ s[1] = NamespaceOf[k] /\ secrets[s].now.rv \in Nat
        /\ \A x \in Instances : realms[s][x].rv \in Nat
    BY <2>1, SlotOf, Numbers DEF Tracked, StatefulSetObj
  <2> HIDE DEF k, i, v, s
  <2>3. RolledOut' = [RolledOut EXCEPT ![k][i] = v]
    BY <2>1, <2>2, ZenonT(30) DEF RolledOut
  <2>4. v \in 1..Published[s] /\ RolledOut[k][i] < v
    BY <2>1, <2>2 DEF Published, RolledOut
  <2>5. Lifecycle!Landed(s, v)
    <3>1. PICK x \in Instances : /\ NamespaceOf[x] = s[1] /\ realms[s][x].rv # 0
                                 /\ AllOverride => realms[s][x].rv >= v
      BY <2>1 DEF Landed, Holds
    <3>2. Imported[s][x] = realms[s][x].rv
      BY <2>2 DEF Imported
    <3> QED  BY <2>1, <2>2, <3>1, <3>2 DEF Lifecycle!Landed
  <2>6. Lifecycle!RollOut(k, i)
    BY <1>2, <2>3, <2>4, <2>5 DEF Lifecycle!RollOut, s
  <2> QED  BY <2>1, <2>6
<1> QED  BY <1>3, <1>4

\* The writers of the instance replace a server or change nothing of it.
LEMMA ReplaceStep ==
    ASSUME TypeOK, NEW k \in Instances, WriteStatefulSet(k)
    PROVE  Lifecycle!Replace(k) \/ UNCHANGED Lifecycle!vars
<1>1. UNCHANGED <<secrets, realms>>
  BY DEF WriteStatefulSet
<1>2. Published' = Published /\ Imported' = Imported
  BY <1>1 DEF Published, Imported
<1>3. \A x \in Instances \ {k} : statefulsets'[x] = statefulsets[x]
  BY WriterEffect
<1>4. CASE ~statefulsets'[k].now.live
  <2>1. RolledOut' = [RolledOut EXCEPT ![k] = [i \in Imports |-> 0]]
    BY <1>3, <1>4 DEF RolledOut
  <2> QED  BY <1>2, <2>1 DEF Lifecycle!Replace
<1>5. CASE /\ statefulsets'[k].now.live /\ statefulsets[k].now.live
           /\ statefulsets'[k].now.ann = statefulsets[k].now.ann
  <2>1. RolledOut' = RolledOut
    BY <1>3, <1>5 DEF RolledOut
  <2> QED  BY <1>2, <2>1 DEF Lifecycle!vars
<1>6. CASE /\ ~statefulsets[k].now.live
           /\ statefulsets'[k].now.ann = [i \in Imports |-> 0]
  <2>1. RolledOut' = RolledOut
    BY <1>3, <1>6 DEF RolledOut
  <2> QED  BY <1>2, <2>1 DEF Lifecycle!vars
<1> QED  BY <1>4, <1>5, <1>6, WriterEffect

\* For every number of imports, instances and specs, the controller implements
\* the life cycle of RealmLifecycle: what caches of different age, retries and
\* restarts do to a reconcile never shows in the order in which the versions of
\* a realm are published, imported and rolled out.
THEOREM Refinement == Spec => ImplementsLifecycle
<1>1. Init => Lifecycle!Init
  <2> SUFFICES ASSUME Init PROVE Lifecycle!Init
    OBVIOUS
  <2>1. Published = [s \in Slots |-> 0]
    BY DEF Init, InSync, NoSecret, Published
  <2>2. Imported = [s \in Slots |-> [k \in Instances |-> 0]]
    BY DEF Init, Imported, NoRealm
  <2>3. RolledOut = [k \in Instances |-> [i \in Imports |-> 0]]
    <3>1. \A k \in Instances : statefulsets[k].now.ann = [i \in Imports |-> 0]
      BY DEF Init, InSync, NoStatefulSet
    <3> QED  BY <3>1 DEF RolledOut
  <2> QED  BY <2>1, <2>2, <2>3 DEF Lifecycle!Init, Lifecycle!Realms, Slots
<1>2. ImportInv /\ ImportInv' /\ OrderInv /\ [Next]_vars
      => [Lifecycle!Next]_Lifecycle!vars
  <2> SUFFICES ASSUME ImportInv, ImportInv', OrderInv, [Next]_vars
               PROVE  Lifecycle!Next \/ UNCHANGED Lifecycle!vars
    OBVIOUS
  <2>1. TypeOK /\ TypeOK'
    BY DEF ImportInv
  <2>2. CASE UNCHANGED vars
    BY <2>2 DEF vars, objects, Lifecycle!vars, Published, Imported, RolledOut
  <2>3. CASE Next
    <3>1. CASE CleanSecrets \/ ApplySecret
      BY <2>1, <2>3, <3>1, PublishStep DEF Lifecycle!Next, Lifecycle!Realms, Slots
    <3>2. ASSUME NEW s \in Slots, PodSucceeds(s)
          PROVE  Lifecycle!Next \/ UNCHANGED Lifecycle!vars
      BY <3>2, ImportStep DEF Lifecycle!Next, Lifecycle!Realms, Slots
    <3>3. CASE Rollout
      BY <3>3, RollOutStep DEF Lifecycle!Next
    <3>4. ASSUME NEW k \in Instances, WriteStatefulSet(k)
          PROVE  Lifecycle!Next \/ UNCHANGED Lifecycle!vars
      BY <2>1, <3>4, ReplaceStep DEF Lifecycle!Next
    <3>5. CASE /\ Published' = Published /\ UNCHANGED realms
               /\ \A k \in Instances : statefulsets'[k].now = statefulsets[k].now
      <4>1. Imported' = Imported
        BY <3>5 DEF Imported
      <4> QED  BY <3>5, <4>1, RolledOutFrame DEF Lifecycle!vars
    <3> QED
      BY <2>1, <2>3, <3>1, <3>2, <3>3, <3>4, <3>5, PublishedFrame,
         ImportedFrame, OtherEffect
  <2> QED  BY <2>2, <2>3
<1> QED
  BY <1>1, <1>2, Invariance, Order, PTL
     DEF Spec, ImplementsLifecycle, Lifecycle!Spec
=============================================================================
