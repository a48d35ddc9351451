------------------------- MODULE ConvergenceProofs --------------------------
(***************************************************************************)
(* No change is missed: when everything has come to rest, an import that   *)
(* reports no error is settled.                                            *)
(*                                                                         *)
(* The argument.  An import is woken when its key is queued or an event    *)
(* that will queue it is on its way.  While it is not, what the worker     *)
(* read for it stays as it is: every write to its spec, its instance, its  *)
(* secret or a source of it raises an event, and so does the completion of *)
(* its job.  So what a reconcile has found out about an import that is not *)
(* woken holds until its status is written, and from then on until the     *)
(* import is woken.                                                        *)
(***************************************************************************)
EXTENDS RealmLifecycleProofs

(***************************************************************************)
(* Events on their way.  Passes is the test in ObserveImport.              *)
(***************************************************************************)
Passes(old, new) == UpdateEvent(old, new) => GenerationChanged(old, new)

Wakes(o) == \E y, x : Follows(o, y, x) /\ Passes(y, x)

Completes(o, i) ==
    \E y, x : Follows(o, y, x) /\ JobCompleted(y, x) /\ x.owner = i

\* A cached import is like the stored one, or an event will tell.
Same(v, x) == v.live = x.live /\ v.spec = x.spec /\ v.del = x.del

Told(o) ==
    \A v \in Versions(o) :
        \/ Same(v, o.now)
        \/ \E y, x : Follows(o, y, x) /\ v.rv <= y.rv /\ Passes(y, x)

\* A cached job shows that the stored one has succeeded, or an event will tell
\* its owner.
Shows(v, x) ==
    x.live /\ x.phase = "complete" =>
        v.live /\ v.phase = "complete" /\ v.owner = x.owner /\ v.ver = x.ver

JobTold(o) ==
    \A v \in Versions(o) :
        \/ Shows(v, o.now)
        \/ \E y, x : /\ Follows(o, y, x) /\ v.rv <= y.rv
                     /\ JobCompleted(y, x) /\ x.owner = o.now.owner

\* Resource versions are numbers.
LEMMA Numbered ==
    /\ \A v \in ImportObj : v.rv \in Nat
    /\ \A v \in KeycloakObj : v.rv \in Nat
    /\ \A v \in StatefulSetObj : v.rv \in Nat
    /\ \A v \in SecretObj : v.rv \in Nat
    /\ \A v \in JobObj : v.rv \in Nat
    /\ \A v \in SourceObj : v.rv \in Nat
BY DEF ImportObj, KeycloakObj, StatefulSetObj, SecretObj, JobObj, SourceObj

\* After an event no version is as old as the one that the cache held.
LEMMA EventMovesOn ==
    ASSUME NEW V, \A v \in V : v.rv \in Nat,
           NEW o \in Tracked(V), Ordered(o), NEW v \in o.pend, NextEvent(o, v)
    PROVE  LET p == Observe(o, v) IN
           /\ p.now = o.now /\ p.seen = v
           /\ Versions(p) \subseteq Versions(o)
           /\ \A z \in Versions(p) : ~(z.rv <= o.seen.rv)
           /\ \A y, x : Follows(o, y, x) => \/ y = o.seen /\ x = v
                                            \/ Follows(p, y, x)
<1> DEFINE p == Observe(o, v)
<1>1. \A y, x : Follows(o, y, x) => (y = o.seen /\ x = v) \/ Follows(p, y, x)
  BY ObserveOrdered
<1>2. p.now = o.now /\ p.seen = v /\ p.pend \subseteq o.pend
  BY DEF Observe, Tracked
<1> HIDE DEF p
<1>3. v.rv <= o.now.rv /\ o.seen.rv < v.rv
  BY DEF Ordered, Locked, Versions
<1>4. /\ \A z \in Versions(o) : z.rv \in Nat
      /\ o.now \in Versions(o) /\ o.seen \in Versions(o)
      /\ o.pend \subseteq Versions(o)
  BY DEF Ordered, Locked, Versions
<1>5. o.seen.rv < o.now.rv
  BY <1>3, <1>4
<1>6. Versions(p) \subseteq o.pend \cup {o.now}
  BY <1>2 DEF Versions
<1>7. \A z \in Versions(p) : o.seen.rv < z.rv /\ z.rv \in Nat
  BY <1>4, <1>5, <1>6 DEF Ordered
<1>8. \A z \in Versions(p) : ~(z.rv <= o.seen.rv)
  BY <1>4, <1>7
<1> QED  BY <1>1, <1>2, <1>4, <1>6, <1>8 DEF p

\* A write to an import leaves nothing untold.
LEMMA StoresTold ==
    ASSUME NEW o \in Tracked(ImportObj), NEW p \in Tracked(ImportObj),
           Ordered(o), Stores(o, p), Told(o)
    PROVE  Told(p)
<1>1. /\ Follows(p, o.now, p.now)
      /\ \A y, x : Follows(o, y, x) => Follows(p, y, x)
  BY Numbered, StoresOrdered
<1>2. \A v \in Versions(p) : v \in Versions(o) \/ v = p.now
  BY MovesVersions DEF Moves
<1>3. \A v \in Versions(o) : v.rv <= o.now.rv
  BY DEF Ordered, Locked
<1>4. Same(o.now, p.now) \/ Passes(o.now, p.now)
  <2>1. o.now.live \in BOOLEAN /\ p.now.live \in BOOLEAN
    BY DEF Tracked, ImportObj
  <2> QED  BY <2>1 DEF Passes, Same, UpdateEvent, GenerationChanged
<1>5. ASSUME NEW v \in Versions(o)
      PROVE  \/ Same(v, p.now)
             \/ \E y, x : /\ Follows(p, y, x) /\ v.rv <= y.rv
                          /\ Passes(y, x)
  <2>1. CASE Same(v, o.now)
    <3>1. CASE Same(o.now, p.now)
      BY <2>1, <3>1 DEF Same
    <3>2. CASE Passes(o.now, p.now)
      BY <1>1, <1>3, <3>2
    <3> QED  BY <1>4, <3>1, <3>2
  <2>2. CASE \E y, x : /\ Follows(o, y, x) /\ v.rv <= y.rv
                       /\ Passes(y, x)
    BY <1>1, <2>2
  <2> QED  BY <2>1, <2>2 DEF Told
<1>6. Same(p.now, p.now)
  BY DEF Same
<1> QED  BY <1>2, <1>5, <1>6 DEF Told

\* An event leaves nothing untold that it does not tell.
LEMMA ObserveTold ==
    ASSUME NEW o \in Tracked(ImportObj), Ordered(o), Told(o),
           NEW v \in o.pend, NextEvent(o, v)
    PROVE  Told(Observe(o, v))
<1> DEFINE p == Observe(o, v)
<1>1. /\ p.now = o.now /\ Versions(p) \subseteq Versions(o)
      /\ \A z \in Versions(p) : ~(z.rv <= o.seen.rv)
      /\ \A y, x : Follows(o, y, x) => \/ y = o.seen /\ x = v
                                       \/ Follows(p, y, x)
  BY Numbered, EventMovesOn
<1> HIDE DEF p
<1>2. ASSUME NEW z \in Versions(p), ~Same(z, p.now)
      PROVE  \E y, x : Follows(p, y, x) /\ z.rv <= y.rv /\ Passes(y, x)
  <2>1. PICK y, x : Follows(o, y, x) /\ z.rv <= y.rv /\ Passes(y, x)
    BY <1>1, <1>2 DEF Told
  <2>2. y # o.seen
    BY <1>1, <2>1
  <2> QED  BY <1>1, <2>1, <2>2
<1> QED  BY <1>2 DEF Told, p

\* What a write may do to a job that has succeeded or will: unless the write
\* completes it, it was complete before.
Carried(old, new) ==
    \/ ~(new.live /\ new.phase = "complete")
    \/ /\ old.live /\ old.phase = "complete"
       /\ old.owner = new.owner /\ old.ver = new.ver
    \/ JobCompleted(old, new)

\* Such a write leaves nothing untold.
LEMMA StoresJobTold ==
    ASSUME NEW o \in Tracked(JobObj), NEW p \in Tracked(JobObj),
           Ordered(o), Stores(o, p), JobTold(o), Carried(o.now, p.now)
    PROVE  JobTold(p)
<1>1. /\ Follows(p, o.now, p.now)
      /\ \A y, x : Follows(o, y, x) => Follows(p, y, x)
  BY Numbered, StoresOrdered
<1>2. \A v \in Versions(p) : v \in Versions(o) \/ v = p.now
  BY MovesVersions DEF Moves
<1>3. \A v \in Versions(o) : v.rv <= o.now.rv
  BY DEF Ordered, Locked
<1>4. Shows(p.now, p.now)
  BY DEF Shows
<1>5. CASE ~(p.now.live /\ p.now.phase = "complete")
  BY <1>5 DEF JobTold, Shows
<1>6. CASE JobCompleted(o.now, p.now)
  BY <1>1, <1>2, <1>3, <1>4, <1>6 DEF JobTold
<1>7. CASE /\ o.now.live /\ o.now.phase = "complete"
           /\ o.now.owner = p.now.owner /\ o.now.ver = p.now.ver
  <2>1. ASSUME NEW v \in Versions(o)
        PROVE  \/ Shows(v, p.now)
               \/ \E y, x : /\ Follows(p, y, x) /\ v.rv <= y.rv
                            /\ JobCompleted(y, x) /\ x.owner = p.now.owner
    <3>1. CASE Shows(v, o.now)
      BY <1>7, <3>1 DEF Shows
    <3>2. CASE \E y, x : /\ Follows(o, y, x) /\ v.rv <= y.rv
                         /\ JobCompleted(y, x) /\ x.owner = o.now.owner
      BY <1>1, <1>7, <3>2
    <3> QED  BY <3>1, <3>2 DEF JobTold
  <2> QED  BY <1>2, <1>4, <2>1 DEF JobTold
<1> QED  BY <1>5, <1>6, <1>7 DEF Carried

\* An event of a job leaves nothing untold that it does not tell.
LEMMA ObserveJobTold ==
    ASSUME NEW o \in Tracked(JobObj), Ordered(o), JobTold(o),
           NEW v \in o.pend, NextEvent(o, v)
    PROVE  JobTold(Observe(o, v))
<1> DEFINE p == Observe(o, v)
<1>1. /\ p.now = o.now /\ Versions(p) \subseteq Versions(o)
      /\ \A z \in Versions(p) : ~(z.rv <= o.seen.rv)
      /\ \A y, x : Follows(o, y, x) => \/ y = o.seen /\ x = v
                                       \/ Follows(p, y, x)
  BY Numbered, EventMovesOn
<1> HIDE DEF p
<1>2. ASSUME NEW z \in Versions(p), ~Shows(z, p.now)
      PROVE  \E y, x : /\ Follows(p, y, x) /\ z.rv <= y.rv
                       /\ JobCompleted(y, x) /\ x.owner = p.now.owner
  <2>1. PICK y, x : /\ Follows(o, y, x) /\ z.rv <= y.rv
                    /\ JobCompleted(y, x) /\ x.owner = o.now.owner
    BY <1>1, <1>2 DEF JobTold
  <2>2. y # o.seen
    BY <1>1, <2>1
  <2> QED  BY <1>1, <2>1, <2>2
<1> QED  BY <1>2 DEF JobTold, p

\* A cache in step has nothing to be told.
LEMMA InSyncTold ==
    ASSUME NEW v
    PROVE  Told(InSync(v)) /\ JobTold(InSync(v))
<1>1. Versions(InSync(v)) = {v} /\ InSync(v).now = v
  BY DEF InSync, Versions
<1> QED  BY <1>1 DEF Told, JobTold, Same, Shows

-----------------------------------------------------------------------------
(***************************************************************************)
(* The kinds of steps: the process starts, a watch delivers an event, or   *)
(* versions are written, while the queue only loses the key that is taken. *)
(***************************************************************************)
Written(o, p) == p = o \/ Stores(o, p)

\* What is stored of a job: a new one where there was none, or the same one
\* marked, removed, failed or, by JobCompletes, completed.
JobKept(old, new) == /\ new.owner = old.owner /\ new.ver = old.ver
                     /\ new.override = old.override /\ new.into = old.into
                     /\ new.live => old.live

JobWritten(s) ==
    LET o == jobs[s]
        p == jobs'[s]
    IN  \/ p = o
        \/ /\ Stores(o, p)
           /\ \/ ~o.now.live /\ p.now.phase = "active"
              \/ /\ JobKept(o.now, p.now)
                 /\ \/ p.now.phase = o.now.phase \/ p.now.phase = "failed"
                    \/ JobCompletes(s)

\* What users and the worker store of an import: a new one, the same one with
\* another status, or the status is kept.
ImportWritten(i) ==
    LET o == imports[i]
        p == imports'[i]
    IN  \/ p = o
        \/ /\ Stores(o, p)
           /\ \/ ~Same(o.now, p.now) \/ p.now.status = o.now.status
              \/ At("status") /\ w.key = i /\ p.now.status = w.status

Keeps == /\ queue \subseteq queue' \/ \E i \in Imports : Dequeue(i)
         /\ At("down") => At("down")'

Writes ==
    /\ \A i \in Imports : ImportWritten(i)
    /\ \A k \in Instances : /\ Written(keycloaks[k], keycloaks'[k])
                            /\ Written(statefulsets[k], statefulsets'[k])
    /\ \A s \in Slots : /\ Written(secrets[s], secrets'[s])
                        /\ JobWritten(s)
    /\ \A s \in Sources : Written(sources[s], sources'[s])
    /\ Keeps

\* Put stores a version of the other kinds, too.
LEMMA PutWritten ==
    /\ \A o \in Tracked(ImportObj), v \in ImportObj : Stores(o, Put(o, v))
    /\ \A o \in Tracked(KeycloakObj), v \in KeycloakObj : Stores(o, Put(o, v))
    /\ \A o \in Tracked(JobObj), v \in JobObj : Stores(o, Put(o, v))
    /\ \A o \in Tracked(SourceObj), v \in SourceObj : Stores(o, Put(o, v))
<1>1. ASSUME NEW o \in Tracked(ImportObj), NEW v \in ImportObj
      PROVE  Stores(o, Put(o, v))
  BY DEF Stores, Put, Tracked, ImportObj
<1>2. ASSUME NEW o \in Tracked(KeycloakObj), NEW v \in KeycloakObj
      PROVE  Stores(o, Put(o, v))
  BY DEF Stores, Put, Tracked, KeycloakObj
<1>3. ASSUME NEW o \in Tracked(JobObj), NEW v \in JobObj
      PROVE  Stores(o, Put(o, v))
  BY DEF Stores, Put, Tracked, JobObj
<1>4. ASSUME NEW o \in Tracked(SourceObj), NEW v \in SourceObj
      PROVE  Stores(o, Put(o, v))
  BY DEF Stores, Put, Tracked, SourceObj
<1> QED  BY <1>1, <1>2, <1>3, <1>4

\* What is stored is what was put, under the next resourceVersion.
LEMMA PutNow ==
    ASSUME NEW V, NEW o \in Tracked(V), NEW v
    PROVE  Put(o, v).now = [v EXCEPT !.rv = o.now.rv + 1]
BY DEF Put, Tracked

\* Users.
LEMMA UserImports ==
    ASSUME TypeOK, NEW i \in Imports,
           \/ CreateImport(i) \/ EditImport(i)
           \/ DeleteImport(i) \/ ReleaseImport(i)
    PROVE  \A x \in Imports : ImportWritten(x)
<1> DEFINE o == imports[i]
<1>1. /\ imports \in [Imports -> Tracked(ImportObj)]
      /\ o \in Tracked(ImportObj) /\ o.now \in ImportObj
  BY DEF TypeOK, Tracked
<1>2. SUFFICES ASSUME NEW v \in ImportObj,
                      ~(v.live = o.now.live) \/ v.status = o.now.status,
                      imports' = [imports EXCEPT ![i] = Put(o, v)]
               PROVE  \A x \in Imports : ImportWritten(x)
  <2>1. CASE CreateImport(i)
    <3>1. PICK spec \in Specs, other \in Others :
             imports' = [imports EXCEPT ![i] =
                 Put(o, [NoImport EXCEPT !.live = TRUE, !.spec = spec,
                                         !.other = other])]
      BY <2>1 DEF CreateImport
    <3> DEFINE v == [NoImport EXCEPT !.live = TRUE, !.spec = spec,
                                     !.other = other]
    <3>2. v \in ImportObj /\ v.live
      BY Absent, ConstantsAssumption DEF ImportObj
    <3>3. ~o.now.live
      BY <2>1 DEF CreateImport
    <3>4. ~(v.live = o.now.live)
      BY <3>2, <3>3
    <3> HIDE DEF v
    <3> QED  BY <1>2, <3>1, <3>2, <3>4 DEF v
  <2>2. CASE EditImport(i)
    <3>1. PICK spec \in Specs :
             imports' = [imports EXCEPT ![i] =
                 Put(o, [o.now EXCEPT !.spec = spec])]
      BY <2>2 DEF EditImport
    <3> DEFINE v == [o.now EXCEPT !.spec = spec]
    <3>2. v \in ImportObj /\ v.status = o.now.status
      BY <1>1 DEF ImportObj
    <3> HIDE DEF v
    <3> QED  BY <1>2, <3>1, <3>2 DEF v
  <2>3. CASE DeleteImport(i)
    <3> DEFINE v == [o.now EXCEPT !.del = TRUE]
               x == [o.now EXCEPT !.live = FALSE]
    <3>1. /\ v \in ImportObj /\ v.status = o.now.status
          /\ x \in ImportObj /\ x.status = o.now.status
      BY <1>1 DEF ImportObj
    <3>2. \/ imports' = [imports EXCEPT ![i] = Put(o, v)]
          \/ imports' = [imports EXCEPT ![i] = Put(o, x)]
      BY <2>3 DEF DeleteImport, Remove
    <3> HIDE DEF v, x
    <3> QED  BY <1>2, <3>1, <3>2
  <2>4. CASE ReleaseImport(i)
    <3> DEFINE v == [o.now EXCEPT !.other = FALSE, !.live = o.now.fin]
    <3>1. v \in ImportObj /\ v.status = o.now.status
      BY <1>1 DEF ImportObj
    <3>2. imports' = [imports EXCEPT ![i] = Put(o, v)]
      BY <2>4 DEF ReleaseImport
    <3> HIDE DEF v
    <3> QED  BY <1>2, <3>1, <3>2
  <2> QED  BY <2>1, <2>2, <2>3, <2>4
<1>3. Stores(o, Put(o, v))
  BY <1>1, PutWritten
<1>4. Put(o, v).now.live = v.live /\ Put(o, v).now.status = v.status
  <2>1. Put(o, v).now = [v EXCEPT !.rv = o.now.rv + 1]
    BY <1>1, PutNow
  <2> QED  BY <2>1 DEF ImportObj
<1>5. /\ imports'[i] = Put(o, v)
      /\ \A x \in Imports \ {i} : imports'[x] = imports[x]
  BY <1>1, <1>2
<1>6. ImportWritten(i)
  BY <1>2, <1>3, <1>4, <1>5 DEF ImportWritten, Same
<1> QED  BY <1>5, <1>6 DEF ImportWritten

\* The worker.
LEMMA WorkerImports ==
    ASSUME TypeOK, RemoveFinalizer \/ AddFinalizer \/ UpdateStatus
    PROVE  \A x \in Imports : ImportWritten(x)
<1> DEFINE o == imports[w.key]
<1>1. /\ imports \in [Imports -> Tracked(ImportObj)] /\ w.key \in Imports
      /\ o \in Tracked(ImportObj) /\ o.now \in ImportObj /\ w.status \in Status
  BY DEF TypeOK, Tracked, Worker
<1>2. CASE UNCHANGED imports
  BY <1>2 DEF ImportWritten
<1>3. SUFFICES ASSUME NEW v \in ImportObj,
                      \/ v.status = o.now.status
                      \/ At("status") /\ v.status = w.status,
                      imports' = [imports EXCEPT ![w.key] = Put(o, v)]
               PROVE  \A x \in Imports : ImportWritten(x)
  <2>1. CASE RemoveFinalizer
    <3> DEFINE v == [o.now EXCEPT !.fin = FALSE]
               x == [o.now EXCEPT !.fin = FALSE, !.live = FALSE]
    <3>1. /\ v \in ImportObj /\ v.status = o.now.status
          /\ x \in ImportObj /\ x.status = o.now.status
      BY <1>1 DEF ImportObj
    <3>2. \/ imports' = [imports EXCEPT ![w.key] = Put(o, v)]
          \/ imports' = [imports EXCEPT ![w.key] = Put(o, x)]
          \/ UNCHANGED imports
      BY <2>1 DEF RemoveFinalizer, WithoutFinalizer
    <3> HIDE DEF v, x
    <3> QED  BY <1>2, <1>3, <3>1, <3>2
  <2>2. CASE AddFinalizer
    <3> DEFINE v == [o.now EXCEPT !.fin = TRUE]
    <3>1. v \in ImportObj /\ v.status = o.now.status
      BY <1>1 DEF ImportObj
    <3>2. \/ imports' = [imports EXCEPT ![w.key] = Put(o, v)]
          \/ UNCHANGED imports
      BY <2>2 DEF AddFinalizer
    <3> HIDE DEF v
    <3> QED  BY <1>2, <1>3, <3>1, <3>2
  <2>3. CASE UpdateStatus
    <3> DEFINE v == [o.now EXCEPT !.status = w.status]
    <3>1. v \in ImportObj /\ v.status = w.status
      BY <1>1 DEF ImportObj
    <3>2. \/ imports' = [imports EXCEPT ![w.key] = Put(o, v)]
          \/ UNCHANGED imports
      BY <2>3 DEF UpdateStatus
    <3>3. At("status")
      BY <2>3 DEF UpdateStatus
    <3> HIDE DEF v
    <3> QED  BY <1>2, <1>3, <3>1, <3>2, <3>3
  <2> QED  BY <2>1, <2>2, <2>3
<1>4. Stores(o, Put(o, v))
  BY <1>1, PutWritten
<1>5. Put(o, v).now.status = v.status
  <2>1. Put(o, v).now = [v EXCEPT !.rv = o.now.rv + 1]
    BY <1>1, PutNow
  <2> QED  BY <2>1 DEF ImportObj
<1>6. /\ imports'[w.key] = Put(o, v)
      /\ \A x \in Imports \ {w.key} : imports'[x] = imports[x]
  BY <1>1, <1>3
<1>7. ImportWritten(w.key)
  BY <1>3, <1>4, <1>5, <1>6 DEF ImportWritten
<1> QED  BY <1>6, <1>7 DEF ImportWritten

\* No job is completed but by a write that says so.
LEMMA JobCarried ==
    ASSUME NEW s \in Slots, JobWritten(s)
    PROVE  \/ jobs'[s] = jobs[s]
           \/ Stores(jobs[s], jobs'[s]) /\ Carried(jobs[s].now, jobs'[s].now)
<1> DEFINE o == jobs[s]
           p == jobs'[s]
<1>1. SUFFICES ASSUME Stores(o, p), p.now.live, p.now.phase = "complete",
                      JobWritten(s), p # o
               PROVE  Carried(o.now, p.now)
  BY DEF Carried, JobWritten
<1>2. CASE ~o.now.live /\ p.now.phase = "active"
  BY <1>1, <1>2
<1>3. CASE JobKept(o.now, p.now) /\ p.now.phase = o.now.phase
  BY <1>1, <1>3 DEF JobKept, Carried
<1>4. CASE JobKept(o.now, p.now) /\ JobCompletes(s)
  <2>1. o.now.phase = "active" /\ o.now.live
    BY <1>4 DEF JobCompletes
  <2> QED  BY <1>1, <2>1 DEF Carried, JobCompleted, UpdateEvent
<1> QED  BY <1>1, <1>2, <1>3, <1>4 DEF JobWritten

\* The steps that store jobs.
LEMMA JobsWritten ==
    ASSUME TypeOK,
           \/ CleanJobs \/ ListJobs \/ CreateJob
           \/ \E t \in Slots : JobCompletes(t) \/ PodFails(t) \/ JobGone(t)
    PROVE  \A s \in Slots : JobWritten(s)
<1> DEFINE t == Slot(w.key, w.cr.spec)
<1>1. /\ jobs \in [Slots -> Tracked(JobObj)] /\ t \in Slots
      /\ \A s \in Slots : jobs[s] \in Tracked(JobObj) /\ jobs[s].now \in JobObj
  BY SlotType DEF TypeOK, Worker, ImportObj, Tracked
<1>2. CASE UNCHANGED jobs
  BY <1>2 DEF JobWritten
<1>3. ASSUME NEW s \in Slots, NEW v \in JobObj,
             jobs' = [jobs EXCEPT ![s] = Put(@, v)],
             \/ ~jobs[s].now.live /\ v.phase = "active"
             \/ /\ JobKept(jobs[s].now, v)
                /\ \/ v.phase = jobs[s].now.phase \/ v.phase = "failed"
                   \/ JobCompletes(s)
      PROVE  \A x \in Slots : JobWritten(x)
  <2> DEFINE o == jobs[s]
  <2>1. Stores(o, Put(o, v))
    BY <1>1, PutWritten
  <2>2. /\ jobs'[s] = Put(o, v)
        /\ \A x \in Slots \ {s} : jobs'[x] = jobs[x]
    BY <1>1, <1>3
  <2>3. Put(o, v).now = [v EXCEPT !.rv = o.now.rv + 1]
    BY <1>1, PutNow
  <2> DEFINE n == Put(o, v).now
  <2>4. /\ n.live = v.live /\ n.phase = v.phase /\ n.owner = v.owner
        /\ n.ver = v.ver /\ n.into = v.into /\ n.override = v.override
    BY <2>3 DEF JobObj
  <2> HIDE DEF n
  <2>5. /\ jobs'[s].now = n
    BY <2>2 DEF n
  <2>7. JobKept(o.now, v) => JobKept(o.now, n)
    BY <2>4 DEF JobKept
  <2>6. JobWritten(s)
    BY <1>3, <2>1, <2>2, <2>4, <2>5, <2>7 DEF JobWritten
  <2> QED  BY <2>2, <2>6 DEF JobWritten
<1>4. ASSUME NEW s \in Slots,
             jobs' = [jobs EXCEPT ![s] = DeleteForeground(jobs[s])]
      PROVE  \A x \in Slots : JobWritten(x)
  <2> DEFINE v == [jobs[s].now EXCEPT !.del = TRUE]
  <2>1. /\ v \in JobObj /\ JobKept(jobs[s].now, v)
        /\ v.phase = jobs[s].now.phase
    BY <1>1 DEF JobObj, JobKept
  <2>2. \/ jobs' = [jobs EXCEPT ![s] = Put(@, v)]
        \/ jobs' = [jobs EXCEPT ![s] = @]
    BY <1>4 DEF DeleteForeground
  <2> HIDE DEF v
  <2>3. CASE jobs' = [jobs EXCEPT ![s] = @]
    BY <1>1, <1>2, <2>3
  <2> QED  BY <1>3, <2>1, <2>2, <2>3
<1>5. CASE CleanJobs
  BY <1>1, <1>2, <1>4, <1>5 DEF CleanJobs
<1>6. CASE ListJobs
  BY <1>1, <1>2, <1>4, <1>6 DEF ListJobs
<1>7. CASE CreateJob
  <2> DEFINE v == NewJob(jobs[t])
  <2>1. v \in JobObj /\ v.phase = "active"
    <3>1. jobs[t].now.rv + 1 \in Nat
      BY <1>1 DEF Tracked, JobObj
    <3> QED  BY <3>1, SlotType DEF NewJob, JobObj, TypeOK, Worker, ImportObj
  <2>2. \/ /\ ~jobs[t].now.live
           /\ jobs' = [jobs EXCEPT ![t] = Put(@, v)]
        \/ UNCHANGED jobs
    BY <1>7 DEF CreateJob
  <2> HIDE DEF v
  <2> QED  BY <1>1, <1>2, <1>3, <2>1, <2>2
<1>8. ASSUME NEW s \in Slots, JobCompletes(s) \/ PodFails(s) \/ JobGone(s)
      PROVE  \A x \in Slots : JobWritten(x)
  <2> DEFINE j == jobs[s].now
             c == [j EXCEPT !.phase = "complete"]
             f == [j EXCEPT !.phase = "failed"]
             g == [j EXCEPT !.live = FALSE]
  <2>1. j \in JobObj
    BY <1>1
  <2>2. /\ c \in JobObj /\ JobKept(j, c)
        /\ f \in JobObj /\ JobKept(j, f) /\ f.phase = "failed"
        /\ g \in JobObj /\ JobKept(j, g) /\ g.phase = j.phase
    BY <2>1 DEF JobObj, JobKept
  <2>3. /\ JobCompletes(s) => jobs' = [jobs EXCEPT ![s] = Put(@, c)]
        /\ PodFails(s) => jobs' = [jobs EXCEPT ![s] = Put(@, f)]
        /\ JobGone(s) => jobs' = [jobs EXCEPT ![s] = Put(@, g)]
    BY DEF JobCompletes, PodFails, JobGone, Remove
  <2> HIDE DEF c, f, g
  <2> QED  BY <1>3, <1>8, <2>2, <2>3
<1> QED  BY <1>5, <1>6, <1>7, <1>8

\* The steps that store secrets.
LEMMA SecretsWritten ==
    ASSUME TypeOK, CleanSecrets \/ ApplySecret
    PROVE  \A s \in Slots :
               \/ secrets'[s] = secrets[s]
               \/ /\ Stores(secrets[s], secrets'[s])
                  /\ s = Slot(w.key, w.cr.spec)
                  /\ \/ secrets'[s].now.owner = w.key
                     \/ /\ secrets[s].now.live
                        /\ secrets'[s].now.owner = secrets[s].now.owner
<1> DEFINE t == Slot(w.key, w.cr.spec)
           o == secrets[t]
<1>1. /\ secrets \in [Slots -> Tracked(SecretObj)]
      /\ t \in Slots /\ o \in Tracked(SecretObj) /\ o.now \in SecretObj
      /\ w.key \in Imports
  BY SlotType DEF TypeOK, Worker, ImportObj, Tracked
<1>2. ASSUME NEW v, DOMAIN v = DOMAIN o.now, "rv" \in DOMAIN v,
             "owner" \in DOMAIN v,
             secrets' = [secrets EXCEPT ![t] = Put(o, v)]
      PROVE  /\ Stores(o, secrets'[t]) /\ secrets'[t].now.owner = v.owner
             /\ \A s \in Slots \ {t} : secrets'[s] = secrets[s]
  <2>1. /\ secrets'[t] = Put(o, v)
        /\ \A s \in Slots \ {t} : secrets'[s] = secrets[s]
    BY <1>1, <1>2
  <2>2. Put(o, v).now = [v EXCEPT !.rv = o.now.rv + 1]
    BY <1>1, PutNow
  <2>3. Put(o, v).now.rv = o.now.rv + 1 /\ Put(o, v).now.owner = v.owner
    BY <1>2, <2>2
  <2>4. Put(o, v).seen = o.seen /\ Put(o, v).pend = o.pend \cup {Put(o, v).now}
    BY <1>1 DEF Put, Tracked
  <2> QED  BY <2>1, <2>3, <2>4 DEF Stores
<1>3. CASE CleanSecrets
  <2> DEFINE v == [o.now EXCEPT !.live = FALSE]
  <2>1. /\ DOMAIN v = DOMAIN o.now /\ "rv" \in DOMAIN v
        /\ "owner" \in DOMAIN v /\ v.owner = o.now.owner
    BY <1>1 DEF SecretObj
  <2>2. \/ UNCHANGED secrets
        \/ o.now.live /\ secrets' = [secrets EXCEPT ![t] = Put(o, v)]
    BY <1>3 DEF CleanSecrets, Remove
  <2> HIDE DEF v
  <2> QED  BY <1>2, <2>1, <2>2
<1>4. CASE ApplySecret
  <2> DEFINE v == [o.now EXCEPT !.live = TRUE, !.owner = w.key,
                                !.data = Content(w.cr.spec)]
  <2>1. /\ DOMAIN v = DOMAIN o.now /\ "rv" \in DOMAIN v
        /\ "owner" \in DOMAIN v /\ v.owner = w.key
    BY <1>1 DEF SecretObj
  <2>2. \/ UNCHANGED secrets
        \/ secrets' = [secrets EXCEPT ![t] = Put(o, v)]
    BY <1>4 DEF ApplySecret
  <2> HIDE DEF v
  <2> QED  BY <1>2, <2>1, <2>2
<1> QED  BY <1>3, <1>4

\* The steps that store the objects of the instance and the sources.
LEMMA OthersWritten ==
    ASSUME TypeOK,
           \/ Rollout
           \/ \E k \in Instances : WriteKeycloak(k) \/ WriteStatefulSet(k)
           \/ \E x \in Sources : EditSource(x)
    PROVE  /\ \A k \in Instances :
                  /\ Written(keycloaks[k], keycloaks'[k])
                  /\ Written(statefulsets[k], statefulsets'[k])
           /\ \A x \in Sources : Written(sources[x], sources'[x])
<1>1. /\ statefulsets \in [Instances -> Tracked(StatefulSetObj)]
      /\ keycloaks \in [Instances -> Tracked(KeycloakObj)]
      /\ sources \in [Sources -> Tracked(SourceObj)]
      /\ \A k \in Instances : /\ statefulsets[k].now \in StatefulSetObj
                              /\ keycloaks[k].now \in KeycloakObj
      /\ \A x \in Sources : sources[x].now \in SourceObj
      /\ w.cr.spec.target \in Instances /\ w.sts \in StatefulSetObj
      /\ w.key \in Imports /\ w.ver \in Nat
  BY SlotType DEF TypeOK, Worker, ImportObj, Tracked
<1>2. CASE Rollout
  <2> DEFINE k == w.cr.spec.target
             v == [w.sts EXCEPT !.ann[w.key] = w.ver]
  <2>1. v \in StatefulSetObj
    BY <1>1 DEF StatefulSetObj
  <2>2. Stores(statefulsets[k], Put(statefulsets[k], v))
    BY <1>1, <2>1, PutStores
  <2> QED  BY <1>1, <1>2, <2>2 DEF Rollout, Written
<1>3. ASSUME NEW k \in Instances, WriteStatefulSet(k)
      PROVE  /\ UNCHANGED <<keycloaks, sources>>
             /\ \A x \in Instances : Written(statefulsets[x], statefulsets'[x])
  <2> DEFINE o == statefulsets[k]
  <2>1. /\ [o.now EXCEPT !.live = FALSE] \in StatefulSetObj
        /\ [NoStatefulSet EXCEPT !.live = TRUE] \in StatefulSetObj
    BY <1>1, Absent DEF StatefulSetObj
  <2>2. /\ Stores(o, Put(o, o.now)) /\ Stores(o, Remove(o))
        /\ Stores(o, Put(o, [NoStatefulSet EXCEPT !.live = TRUE]))
    BY <1>1, <2>1, PutStores DEF Remove
  <2> QED  BY <1>1, <1>3, <2>2 DEF WriteStatefulSet, Written
<1>4. ASSUME NEW k \in Instances, WriteKeycloak(k)
      PROVE  /\ UNCHANGED <<statefulsets, sources>>
             /\ \A x \in Instances : Written(keycloaks[x], keycloaks'[x])
  <2> DEFINE o == keycloaks[k]
             v(b) == [o.now EXCEPT !.live = TRUE, !.ready = b]
             x == [o.now EXCEPT !.live = FALSE, !.ready = FALSE]
  <2>1. x \in KeycloakObj /\ \A b \in BOOLEAN : v(b) \in KeycloakObj
    BY <1>1 DEF KeycloakObj
  <2>2. \/ keycloaks' = [keycloaks EXCEPT ![k] = Put(o, x)]
        \/ \E b \in BOOLEAN : keycloaks' = [keycloaks EXCEPT ![k] = Put(o, v(b))]
    BY <1>4 DEF WriteKeycloak
  <2> HIDE DEF v, x
  <2>3. PICK y \in KeycloakObj : keycloaks' = [keycloaks EXCEPT ![k] = Put(o, y)]
    BY <2>1, <2>2
  <2>4. Stores(o, Put(o, y))
    BY <1>1, PutWritten
  <2> QED  BY <1>1, <1>4, <2>3, <2>4 DEF WriteKeycloak, Written
<1>5. ASSUME NEW s \in Sources, EditSource(s)
      PROVE  /\ UNCHANGED <<keycloaks, statefulsets>>
             /\ \A x \in Sources : Written(sources[x], sources'[x])
  <2> DEFINE o == sources[s]
             v(a) == [o.now EXCEPT !.live = TRUE, !.val = a]
             x == [o.now EXCEPT !.live = FALSE, !.val = NoValue]
  <2>1. x \in SourceObj /\ \A a \in Values : v(a) \in SourceObj
    BY <1>1 DEF SourceObj
  <2>2. \/ sources' = [sources EXCEPT ![s] = Put(o, x)]
        \/ \E a \in Values : sources' = [sources EXCEPT ![s] = Put(o, v(a))]
    BY <1>5 DEF EditSource
  <2> HIDE DEF v, x
  <2>3. PICK y \in SourceObj : sources' = [sources EXCEPT ![s] = Put(o, y)]
    BY <2>1, <2>2
  <2>4. Stores(o, Put(o, y))
    BY <1>1, PutWritten
  <2> QED  BY <1>1, <1>5, <2>3, <2>4 DEF EditSource, UserVars, Written
<1> QED  BY <1>2, <1>3, <1>4, <1>5 DEF Written

\* The worker queues its key again at most, and only when it runs.
LEMMA WorkerKeepsQueue ==
    ASSUME Reconcile
    PROVE  queue \subseteq queue' /\ ~At("down")
<1>1. CASE GetImport
  BY <1>1 DEF GetImport, At, Done
<1>2. CASE CleanJobs
  BY <1>2 DEF CleanJobs, At, Requeue
<1>3. CASE CleanSecrets
  BY <1>3 DEF CleanSecrets, At, Requeue
<1>4. CASE RemoveFinalizer
  BY <1>4 DEF RemoveFinalizer, At, Requeue
<1>5. CASE AddFinalizer
  BY <1>5 DEF AddFinalizer, At, Requeue
<1>6. CASE GetKeycloak
  BY <1>6 DEF GetKeycloak, At
<1>7. CASE ApplySecret
  BY <1>7 DEF ApplySecret, At, Requeue
<1>8. CASE ListJobs
  BY <1>8 DEF ListJobs, At
<1>9. CASE CreateJob
  BY <1>9 DEF CreateJob, At, Requeue
<1>10. CASE Rollout
  BY <1>10 DEF Rollout, At, Requeue
<1>11. CASE UpdateStatus
  BY <1>11 DEF UpdateStatus, At, Requeue, Done
<1> QED  BY <1>1, <1>2, <1>3, <1>4, <1>5, <1>6, <1>7, <1>8, <1>9, <1>10, <1>11
            DEF Reconcile

\* A step that leaves a kind of objects alone writes it, trivially.
LEMMA Unwritten ==
    /\ UNCHANGED imports => \A i \in Imports : ImportWritten(i)
    /\ UNCHANGED keycloaks =>
           \A k \in Instances : Written(keycloaks[k], keycloaks'[k])
    /\ UNCHANGED statefulsets =>
           \A k \in Instances : Written(statefulsets[k], statefulsets'[k])
    /\ UNCHANGED secrets =>
           \A s \in Slots : Written(secrets[s], secrets'[s])
    /\ UNCHANGED jobs => \A s \in Slots : JobWritten(s)
    /\ UNCHANGED sources =>
           \A s \in Sources : Written(sources[s], sources'[s])
BY DEF ImportWritten, Written, JobWritten

\* Every step is of one of three kinds.
LEMMA StepKinds ==
    ASSUME TypeOK, Next
    PROVE  Start \/ Watch \/ Writes
<1>1. ASSUME NEW i \in Imports, Dequeue(i) PROVE Writes
  <2>1. Keeps
    BY <1>1 DEF Keeps, Dequeue, At
  <2> QED  BY <1>1, <2>1, Unwritten DEF Dequeue, objects, Writes
<1>2. CASE Reconcile
  <2>1. Keeps
    BY <1>2, WorkerKeepsQueue DEF Keeps
  <2>2. CASE GetImport \/ GetKeycloak
    BY <2>1, <2>2, Unwritten DEF GetImport, GetKeycloak, objects, Writes
  <2>3. CASE CleanJobs \/ ListJobs \/ CreateJob
    <3>1. \A s \in Slots : JobWritten(s)
      BY <2>3, JobsWritten
    <3> QED  BY <2>1, <2>3, <3>1, Unwritten DEF CleanJobs, ListJobs, CreateJob,
                                                Writes
  <2>4. CASE CleanSecrets \/ ApplySecret
    <3>1. \A s \in Slots : Written(secrets[s], secrets'[s])
      BY <2>4, SecretsWritten DEF Written
    <3> QED  BY <2>1, <2>4, <3>1, Unwritten DEF CleanSecrets, ApplySecret, Writes
  <2>5. CASE RemoveFinalizer \/ AddFinalizer \/ UpdateStatus
    <3>1. \A i \in Imports : ImportWritten(i)
      BY <2>5, WorkerImports
    <3> QED  BY <2>1, <2>5, <3>1, Unwritten
                DEF RemoveFinalizer, AddFinalizer, UpdateStatus, Writes
  <2>6. CASE Rollout
    <3>1. \A k \in Instances : /\ Written(keycloaks[k], keycloaks'[k])
                               /\ Written(statefulsets[k], statefulsets'[k])
      BY <2>6, OthersWritten
    <3> QED  BY <2>1, <2>6, <3>1, Unwritten DEF Rollout, Writes
  <2> QED  BY <1>2, <2>2, <2>3, <2>4, <2>5, <2>6 DEF Reconcile
<1>3. CASE Restart \/ Relaunch
  BY <1>3 DEF Restart, Relaunch
<1>4. CASE User
  <2>1. Keeps
    BY <1>4 DEF User, CreateImport, EditImport, DeleteImport, ReleaseImport,
                EditSource, UserVars, Keeps, At
  <2>2. ASSUME NEW i \in Imports,
               \/ CreateImport(i) \/ EditImport(i)
               \/ DeleteImport(i) \/ ReleaseImport(i)
        PROVE  Writes
    <3>1. \A x \in Imports : ImportWritten(x)
      BY <2>2, UserImports
    <3>2. UNCHANGED <<keycloaks, statefulsets, secrets, jobs, sources>>
      BY <2>2 DEF CreateImport, EditImport, DeleteImport, ReleaseImport, UserVars
    <3> QED  BY <2>1, <3>1, <3>2, Unwritten DEF Writes
  <2>3. ASSUME NEW s \in Sources, EditSource(s) PROVE Writes
    <3>1. \A x \in Sources : Written(sources[x], sources'[x])
      BY <2>3, OthersWritten
    <3>2. UNCHANGED <<keycloaks, statefulsets, secrets, jobs, imports>>
      BY <2>3 DEF EditSource, UserVars
    <3> QED  BY <2>1, <3>1, <3>2, Unwritten DEF Writes
  <2> QED  BY <1>4, <2>2, <2>3 DEF User
<1>5. CASE InstanceWriter
  <2>1. Keeps
    BY <1>5 DEF InstanceWriter, WriteKeycloak, WriteStatefulSet, Keeps, At
  <2>2. UNCHANGED <<imports, secrets, jobs, sources>>
    BY <1>5 DEF InstanceWriter, WriteKeycloak, WriteStatefulSet
  <2>3. \A k \in Instances : /\ Written(keycloaks[k], keycloaks'[k])
                             /\ Written(statefulsets[k], statefulsets'[k])
    BY <1>5, OthersWritten DEF InstanceWriter
  <2> QED  BY <2>1, <2>2, <2>3, Unwritten DEF Writes
<1>6. ASSUME NEW s \in Slots, JobController(s) PROVE Writes
  <2>1. Keeps
    BY <1>6 DEF JobController, StartPod, PodSucceeds, JobCompletes, PodFails,
                KillPod, JobGone, Keeps, At
  <2>2. UNCHANGED <<imports, keycloaks, statefulsets, secrets, sources>>
    BY <1>6 DEF JobController, StartPod, PodSucceeds, JobCompletes, PodFails,
                KillPod, JobGone, objects
  <2>3. \A x \in Slots : JobWritten(x)
    <3>1. CASE JobCompletes(s) \/ PodFails(s) \/ JobGone(s)
      BY <3>1, JobsWritten
    <3>2. CASE StartPod(s) \/ PodSucceeds(s) \/ KillPod(s)
      BY <3>2, Unwritten DEF StartPod, PodSucceeds, KillPod, objects
    <3> QED  BY <1>6, <3>1, <3>2 DEF JobController
  <2> QED  BY <2>1, <2>2, <2>3, Unwritten DEF Writes
<1> QED  BY <1>1, <1>2, <1>3, <1>4, <1>5, <1>6 DEF Next

-----------------------------------------------------------------------------
(***************************************************************************)
(* News: watches deliver in order, and a cache that is out of date about   *)
(* what a reconcile looks at will be told.                                 *)
(***************************************************************************)
NewsInv ==
    /\ \A i \in Imports : Ordered(imports[i]) /\ Told(imports[i])
    /\ \A k \in Instances : Ordered(keycloaks[k]) /\ Ordered(statefulsets[k])
    /\ \A s \in Slots : /\ Ordered(secrets[s])
                        /\ Ordered(jobs[s]) /\ JobTold(jobs[s])

Observed(o, p) == \E v \in o.pend : NextEvent(o, v) /\ p = Observe(o, v)

Delivered(o, p) == p = o \/ Observed(o, p)

\* A watch changes caches, by an event each.
LEMMA WatchDelivers ==
    ASSUME TypeOK, Watch
    PROVE  /\ \A i \in Imports : Delivered(imports[i], imports'[i])
           /\ \A k \in Instances :
                  /\ Delivered(keycloaks[k], keycloaks'[k])
                  /\ Delivered(statefulsets[k], statefulsets'[k])
           /\ \A s \in Slots : /\ Delivered(secrets[s], secrets'[s])
                               /\ Delivered(jobs[s], jobs'[s])
           /\ \A s \in Sources : Delivered(sources[s], sources'[s])
           /\ UNCHANGED <<pods, realms, used>>
<1>1. ASSUME NEW i \in Imports, ObserveImport(i)
      PROVE  /\ \A x \in Imports : Delivered(imports[x], imports'[x])
             /\ UNCHANGED <<keycloaks, statefulsets, secrets, jobs, sources>>
             /\ UNCHANGED <<pods, realms, used>>
  BY <1>1 DEF ObserveImport, TypeOK, Delivered, Observed
<1>2. ASSUME NEW k \in Instances, ObserveKeycloak(k)
      PROVE  /\ \A x \in Instances : Delivered(keycloaks[x], keycloaks'[x])
             /\ UNCHANGED <<imports, statefulsets, secrets, jobs, sources>>
             /\ UNCHANGED <<pods, realms, used>>
  BY <1>2 DEF ObserveKeycloak, TypeOK, Delivered, Observed
<1>3. ASSUME NEW k \in Instances, ObserveStatefulSet(k)
      PROVE  /\ \A x \in Instances :
                    Delivered(statefulsets[x], statefulsets'[x])
             /\ UNCHANGED <<imports, keycloaks, secrets, jobs, sources>>
             /\ UNCHANGED <<pods, realms, used>>
  BY <1>3 DEF ObserveStatefulSet, TypeOK, Delivered, Observed
<1>4. ASSUME NEW s \in Slots, ObserveSecret(s)
      PROVE  /\ \A x \in Slots : Delivered(secrets[x], secrets'[x])
             /\ UNCHANGED <<imports, keycloaks, statefulsets, jobs, sources>>
             /\ UNCHANGED <<pods, realms, used>>
  BY <1>4 DEF ObserveSecret, TypeOK, Delivered, Observed
<1>5. ASSUME NEW s \in Slots, ObserveJob(s)
      PROVE  /\ \A x \in Slots : Delivered(jobs[x], jobs'[x])
             /\ UNCHANGED <<imports, keycloaks, statefulsets, secrets, sources>>
             /\ UNCHANGED <<pods, realms, used>>
  BY <1>5 DEF ObserveJob, TypeOK, Delivered, Observed
<1>6. ASSUME NEW s \in Sources, ObserveSource(s)
      PROVE  /\ \A x \in Sources : Delivered(sources[x], sources'[x])
             /\ UNCHANGED <<imports, keycloaks, statefulsets, secrets, jobs>>
             /\ UNCHANGED <<pods, realms, used>>
  BY <1>6 DEF ObserveSource, TypeOK, Delivered, Observed
<1> QED  BY <1>1, <1>2, <1>3, <1>4, <1>5, <1>6 DEF Watch, Delivered

\* The kinds of steps of each kind of object.
LEMMA StepsMove ==
    ASSUME TypeOK, Next
    PROVE  /\ \A i \in Imports :
                  \/ Written(imports[i], imports'[i])
                  \/ Observed(imports[i], imports'[i])
                  \/ imports'[i] = Relist(imports[i])
           /\ \A k \in Instances : /\ Moves(keycloaks[k], keycloaks'[k])
                                   /\ Moves(statefulsets[k], statefulsets'[k])
           /\ \A s \in Slots :
                  /\ Moves(secrets[s], secrets'[s])
                  /\ \/ JobWritten(s)
                     \/ Observed(jobs[s], jobs'[s])
                     \/ jobs'[s] = Relist(jobs[s])
<1>1. CASE Start
  BY <1>1 DEF Start, Moves
<1>2. CASE Watch
  BY <1>2, WatchDelivers DEF Delivered, Observed, Written, JobWritten, Moves
<1>3. CASE Writes
  BY <1>3 DEF Writes, ImportWritten, Written, Moves
<1> QED  BY <1>1, <1>2, <1>3, StepKinds

\* Every step keeps the news.
LEMMA NextNews ==
    ASSUME TypeOK, TypeOK', Next, NewsInv
    PROVE  NewsInv'
<1>1. ASSUME NEW i \in Imports
      PROVE  Ordered(imports'[i]) /\ Told(imports'[i])
  <2> DEFINE o == imports[i]
             p == imports'[i]
  <2>1. /\ o \in Tracked(ImportObj) /\ p \in Tracked(ImportObj)
        /\ Ordered(o) /\ Told(o) /\ o.now.rv \in Nat
    BY DEF TypeOK, NewsInv, Tracked, ImportObj
  <2>2. Written(o, p) \/ Observed(o, p) \/ p = Relist(o)
    BY StepsMove
  <2> SUFFICES Ordered(p) /\ Told(p)
    OBVIOUS
  <2> HIDE DEF o, p
  <2>3. CASE Stores(o, p)
    BY <2>1, <2>3, Numbered, StoresOrdered, StoresTold
  <2>4. ASSUME NEW v \in o.pend, NextEvent(o, v), p = Observe(o, v)
        PROVE  Ordered(p) /\ Told(p)
    BY <2>1, <2>4, Numbered, ObserveOrdered, ObserveTold
  <2>5. CASE p = Relist(o)
    BY <2>1, <2>5, InSyncOrdered, InSyncTold DEF Relist
  <2> QED  BY <2>1, <2>2, <2>3, <2>4, <2>5 DEF Written, Observed
<1>2. ASSUME NEW s \in Slots
      PROVE  Ordered(jobs'[s]) /\ JobTold(jobs'[s])
  <2> DEFINE o == jobs[s]
             p == jobs'[s]
  <2>1. /\ o \in Tracked(JobObj) /\ p \in Tracked(JobObj)
        /\ Ordered(o) /\ JobTold(o) /\ o.now.rv \in Nat
    BY DEF TypeOK, NewsInv, Tracked, JobObj
  <2>2. \/ p = o \/ (Stores(o, p) /\ Carried(o.now, p.now))
        \/ Observed(o, p) \/ p = Relist(o)
    BY StepsMove, JobCarried
  <2> SUFFICES Ordered(p) /\ JobTold(p)
    OBVIOUS
  <2> HIDE DEF o, p
  <2>3. CASE Stores(o, p) /\ Carried(o.now, p.now)
    BY <2>1, <2>3, Numbered, StoresOrdered, StoresJobTold
  <2>4. ASSUME NEW v \in o.pend, NextEvent(o, v), p = Observe(o, v)
        PROVE  Ordered(p) /\ JobTold(p)
    BY <2>1, <2>4, Numbered, ObserveOrdered, ObserveJobTold
  <2>5. CASE p = Relist(o)
    BY <2>1, <2>5, InSyncOrdered, InSyncTold DEF Relist
  <2> QED  BY <2>1, <2>2, <2>3, <2>4, <2>5 DEF Observed
<1>3. ASSUME NEW k \in Instances
      PROVE  Ordered(keycloaks'[k]) /\ Ordered(statefulsets'[k])
  <2>1. /\ keycloaks[k] \in Tracked(KeycloakObj)
        /\ keycloaks'[k] \in Tracked(KeycloakObj)
        /\ statefulsets[k] \in Tracked(StatefulSetObj)
        /\ statefulsets'[k] \in Tracked(StatefulSetObj)
        /\ Ordered(keycloaks[k]) /\ Ordered(statefulsets[k])
    BY DEF TypeOK, NewsInv
  <2>2. /\ Moves(keycloaks[k], keycloaks'[k])
        /\ Moves(statefulsets[k], statefulsets'[k])
    BY StepsMove
  <2> QED  BY <2>1, <2>2, Numbered, MovesOrdered
<1>4. ASSUME NEW s \in Slots PROVE Ordered(secrets'[s])
  <2>1. /\ secrets[s] \in Tracked(SecretObj) /\ Ordered(secrets[s])
        /\ secrets'[s] \in Tracked(SecretObj)
    BY DEF TypeOK, NewsInv
  <2>2. Moves(secrets[s], secrets'[s])
    BY StepsMove
  <2> QED  BY <2>1, <2>2, Numbered, MovesOrdered
<1> QED  BY <1>1, <1>2, <1>3, <1>4 DEF NewsInv

\* At first every cache is in step.
LEMMA InitNews == Init => NewsInv
<1> SUFFICES ASSUME Init PROVE NewsInv
  OBVIOUS
<1>1. \A v : v.rv \in Nat => /\ Ordered(InSync(v)) /\ Told(InSync(v))
                             /\ JobTold(InSync(v))
  BY InSyncOrdered, InSyncTold
<1>2. TypeOK
  BY InitType
<1>3. \A i \in Imports : imports[i] = InSync(imports[i].now)
  BY DEF Init, InSync
<1>4. \A s \in Slots : /\ secrets[s] = InSync(secrets[s].now)
                       /\ jobs[s] = InSync(jobs[s].now)
  BY DEF Init, InSync
<1>5. \A k \in Instances : /\ keycloaks[k] = InSync(keycloaks[k].now)
                           /\ statefulsets[k] = InSync(statefulsets[k].now)
  <2> PICK kc \in [Instances -> [live: BOOLEAN, rv: {0}, ready: BOOLEAN]] :
         /\ keycloaks = [k \in Instances |-> InSync(kc[k])]
         /\ statefulsets = [k \in Instances |->
                InSync([NoStatefulSet EXCEPT !.live = kc[k].live])]
    BY DEF Init
  <2>1. \A v : InSync(v).now = v
    BY DEF InSync
  <2> QED  BY <2>1
<1>6. /\ \A i \in Imports : imports[i].now.rv \in Nat
      /\ \A s \in Slots : secrets[s].now.rv \in Nat /\ jobs[s].now.rv \in Nat
      /\ \A k \in Instances : /\ keycloaks[k].now.rv \in Nat
                              /\ statefulsets[k].now.rv \in Nat
  BY <1>2 DEF TypeOK, Tracked, ImportObj, SecretObj, JobObj, KeycloakObj,
              StatefulSetObj
<1> QED  BY <1>1, <1>3, <1>4, <1>5, <1>6 DEF NewsInv

-----------------------------------------------------------------------------
(***************************************************************************)
(* Being woken.                                                            *)
(***************************************************************************)
Home(i) == Slot(i, imports[i].now.spec)

Woken(i) ==
    LET spec == imports[i].now.spec IN
    \/ i \in queue \/ At("down")
    \/ Wakes(imports[i])
    \/ keycloaks[spec.target].pend # {}
    \/ secrets[Home(i)].pend # {}
    \/ \E x \in spec.refs : sources[x].pend # {}
    \/ Completes(jobs[Home(i)], i)

\* The owner label of a secret names the import that it is named after.
NameInv ==
    \A s \in Slots : \A v \in Versions(secrets[s]) :
        v.rv # 0 => NameOf[v.owner] = s[2]

\* Every step keeps the labels.
LEMMA NextName ==
    ASSUME ImportInv, TypeOK', Next, NameInv
    PROVE  NameInv'
<1> SUFFICES ASSUME NEW s \in Slots, NEW v \in Versions(secrets'[s]), v.rv # 0
             PROVE  NameOf[v.owner] = s[2]
  BY DEF NameInv
<1> DEFINE o == secrets[s]
           p == secrets'[s]
<1>1. /\ TypeOK /\ o \in Tracked(SecretObj) /\ p \in Tracked(SecretObj)
      /\ o.now.rv \in Nat
  BY DEF ImportInv, TypeOK, Tracked, SecretObj
<1>2. Moves(o, p)
  BY <1>1, SecretsMove
<1>3. CASE v \in Versions(o)
  BY <1>3 DEF NameInv
<1>4. CASE p.now = o.now /\ v = p.now
  BY <1>3, <1>4 DEF Versions
<1>5. ASSUME v = p.now, Stores(o, p) PROVE NameOf[v.owner] = s[2]
  <2>1. p.now.rv # o.now.rv
    BY <1>1, <1>5 DEF Stores
  <2>2. CleanSecrets \/ ApplySecret
    <3>1. Published'[s] = p.now.rv /\ Published[s] = o.now.rv
      BY DEF Published
    <3> QED  BY <1>1, <2>1, <3>1, PublishedFrame
  <2>3. p # o
    BY <2>1
  <2>4. /\ s = Slot(w.key, w.cr.spec)
        /\ \/ p.now.owner = w.key
           \/ o.now.live /\ p.now.owner = o.now.owner
    BY <1>1, <2>2, <2>3, SecretsWritten
  <2>5. s[2] = NameOf[w.key]
    BY <2>4 DEF Slot
  <2>6. o.now \in Versions(o) /\ (o.now.live => o.now.rv # 0)
    BY DEF ImportInv, SecretInv, Versions
  <2> QED  BY <1>5, <2>4, <2>5, <2>6 DEF NameInv
<1>6. p = Relist(o) => p.now = o.now
  BY DEF Relist, InSync
<1>7. ASSUME NEW x \in o.pend, p = Observe(o, x) PROVE p.now = o.now
  BY <1>1, <1>7 DEF Observe, Tracked
<1>8. v \in Versions(o) \/ v = p.now
  BY <1>1, <1>2, MovesVersions
<1> HIDE DEF o, p
<1>9. p.now = o.now \/ Stores(o, p)
  BY <1>2, <1>6, <1>7 DEF Moves
<1> QED  BY <1>3, <1>4, <1>5, <1>8, <1>9

\* After a start the imports that exist are queued, or the process has ended.
LEMMA StartWakes ==
    ASSUME TypeOK, Start, NEW i \in Imports, imports'[i].now.live
    PROVE  i \in queue' \/ At("down")'
<1>1. imports'[i].now = imports[i].now
  BY DEF Start, Relist, InSync, TypeOK
<1>2. Down.pc = "down"
  BY DEF Down, Idle
<1> QED  BY <1>1, <1>2 DEF Start, At

\* An import that nothing will wake is in the cache as it is stored.
LEMMA KnownAsIs ==
    ASSUME NewsInv, NEW i \in Imports, ~Wakes(imports[i])
    PROVE  Same(imports[i].seen, imports[i].now)
<1>1. imports[i].seen \in Versions(imports[i])
  BY DEF Versions
<1> QED  BY <1>1 DEF NewsInv, Told, Wakes

\* A write to an import wakes it, or leaves what counts as it is.
LEMMA WriteTells ==
    ASSUME TypeOK, TypeOK', NewsInv, NEW i \in Imports, ImportWritten(i)
    PROVE  /\ Same(imports[i].now, imports'[i].now) \/ Wakes(imports'[i])
           /\ Wakes(imports[i]) => Wakes(imports'[i])
<1> DEFINE o == imports[i]
           p == imports'[i]
<1>1. /\ o \in Tracked(ImportObj) /\ p \in Tracked(ImportObj) /\ Ordered(o)
      /\ o.now.live \in BOOLEAN /\ p.now.live \in BOOLEAN
  BY DEF TypeOK, NewsInv, Tracked, ImportObj
<1>2. CASE p = o
  BY <1>2 DEF Same
<1>3. CASE Stores(o, p)
  <2>1. /\ Follows(p, o.now, p.now)
        /\ \A y, x : Follows(o, y, x) => Follows(p, y, x)
    BY <1>1, <1>3, Numbered, StoresOrdered
  <2>2. Same(o.now, p.now) \/ Passes(o.now, p.now)
    BY <1>1 DEF Passes, Same, UpdateEvent, GenerationChanged
  <2> QED  BY <2>1, <2>2 DEF Wakes
<1> QED  BY <1>2, <1>3 DEF ImportWritten

\* What is written is on its way, and what was on its way still is.
LEMMA WriteWaits ==
    ASSUME NEW o, NEW p, Written(o, p)
    PROVE  /\ o.pend # {} => p.pend # {}
           /\ p.pend = {} => p = o
BY DEF Written, Stores

\* The completion of a job stays on its way when the job is written again.
LEMMA WriteCompletes ==
    ASSUME TypeOK, TypeOK', NewsInv, NEW s \in Slots, JobWritten(s), NEW i
    PROVE  Completes(jobs[s], i) => Completes(jobs'[s], i)
<1> DEFINE o == jobs[s]
           p == jobs'[s]
<1>1. o \in Tracked(JobObj) /\ p \in Tracked(JobObj) /\ Ordered(o)
  BY DEF TypeOK, NewsInv
<1>2. p = o \/ Stores(o, p)
  BY DEF JobWritten
<1>3. Stores(o, p) => \A y, x : Follows(o, y, x) => Follows(p, y, x)
  BY <1>1, Numbered, StoresOrdered
<1> QED  BY <1>2, <1>3 DEF Completes

\* A write to an object does not put an import back to sleep.
LEMMA WritesKeepWoken ==
    ASSUME TypeOK, TypeOK', NewsInv, Writes, NEW i \in Imports,
           ~Dequeue(i), Woken(i)
    PROVE  Woken(i)'
<1>1. /\ Same(imports[i].now, imports'[i].now) \/ Wakes(imports'[i])
      /\ Wakes(imports[i]) => Wakes(imports'[i])
  BY WriteTells DEF Writes
<1>2. CASE Wakes(imports'[i])
  BY <1>2 DEF Woken
<1>3. CASE /\ Same(imports[i].now, imports'[i].now)
           /\ ~Wakes(imports'[i])
  <2> DEFINE spec == imports[i].now.spec
             s == Home(i)
             k == spec.target
  <2>1. imports'[i].now.spec = spec /\ Home(i)' = s
    BY <1>3 DEF Same, Home
  <2>2. s \in Slots /\ k \in Instances /\ spec.refs \subseteq Sources
    <3>1. spec \in Specs
      BY DEF TypeOK, Tracked, ImportObj
    <3>2. spec \in ImportSpec
      BY <3>1, ConstantsAssumption
    <3> QED  BY <3>1, <3>2, SlotType DEF Home, ImportSpec
  <2>3. i \in queue => i \in queue'
    BY DEF Writes, Keeps, Dequeue
  <2>4. /\ At("down") => At("down")'
        /\ keycloaks[k].pend # {} => keycloaks'[k].pend # {}
        /\ secrets[s].pend # {} => secrets'[s].pend # {}
        /\ \A x \in spec.refs : sources[x].pend # {} => sources'[x].pend # {}
    BY <2>2, WriteWaits DEF Writes, Keeps
  <2>5. Completes(jobs[s], i) => Completes(jobs'[s], i)
    BY <2>2, WriteCompletes DEF Writes
  <2> HIDE DEF spec, s, k
  <2>6. \/ i \in queue \/ At("down") \/ keycloaks[k].pend # {}
        \/ secrets[s].pend # {} \/ \E x \in spec.refs : sources[x].pend # {}
        \/ Completes(jobs[s], i)
    BY <1>1, <1>3 DEF Woken, spec, s, k
  <2>7. \/ i \in queue' \/ At("down")' \/ keycloaks'[k].pend # {}
        \/ secrets'[s].pend # {} \/ \E x \in spec.refs : sources'[x].pend # {}
        \/ Completes(jobs'[s], i)
    BY <2>3, <2>4, <2>5, <2>6
  <2> QED  BY <2>1, <2>7 DEF Woken, k
<1> QED  BY <1>1, <1>2, <1>3

\* The handler of secrets queues imports, or the process ends.
LEMMA HandlerWakes ==
    ASSUME NEW A, NEW B, handleSecretChanged(A, B)
    PROVE  \/ At("down")'
           \/ /\ w' = w /\ queue \subseteq queue'
              /\ \A i \in Imports : Known(i) /\ i \in A \cup B => i \in queue'
<1>1. Down.pc = "down"
  BY DEF Down, Idle
<1> QED  BY <1>1 DEF handleSecretChanged, At

\* An event of the import itself.
LEMMA ImportEventWakes ==
    ASSUME TypeOK, TypeOK', NewsInv, NEW j \in Imports, ObserveImport(j),
           NEW i \in Imports, Woken(i)
    PROVE  Woken(i)'
<1>1. PICK v \in imports[j].pend :
         /\ NextEvent(imports[j], v)
         /\ imports' = [imports EXCEPT ![j] = Observe(@, v)]
         /\ queue' = IF Passes(imports[j].seen, v) THEN queue \cup {j} ELSE queue
  BY DEF ObserveImport, Passes
<1>2. /\ UNCHANGED <<keycloaks, secrets, sources, jobs, w>>
      /\ queue \subseteq queue'
      /\ imports \in [Imports -> Tracked(ImportObj)]
  BY <1>1 DEF ObserveImport, TypeOK
<1>3. /\ imports'[i].now = imports[i].now
      /\ Wakes(imports[i]) => Wakes(imports'[i]) \/ i \in queue'
  <2>1. CASE i # j
    BY <1>1, <1>2, <2>1
  <2>2. CASE i = j
    <3> DEFINE o == imports[i]
               p == imports'[i]
    <3>1. /\ o \in Tracked(ImportObj) /\ Ordered(o) /\ p = Observe(o, v)
          /\ v \in o.pend /\ NextEvent(o, v)
      BY <1>1, <1>2, <2>2 DEF NewsInv
    <3>2. /\ p.now = o.now
          /\ \A y, x : Follows(o, y, x) => \/ y = o.seen /\ x = v
                                           \/ Follows(p, y, x)
      BY <3>1, Numbered, EventMovesOn
    <3>3. Passes(o.seen, v) => i \in queue'
      BY <1>1, <2>2
    <3> HIDE DEF o, p
    <3>4. Wakes(o) => Wakes(p) \/ i \in queue'
      BY <3>2, <3>3 DEF Wakes
    <3> QED  BY <3>2, <3>4 DEF o, p
  <2> QED  BY <2>1, <2>2
<1>4. imports'[i].now.spec = imports[i].now.spec /\ Home(i)' = Home(i)
  BY <1>3 DEF Home
<1>5. At("down") => At("down")'
  BY <1>2 DEF At
<1> QED  BY <1>2, <1>3, <1>4, <1>5 DEF Woken

\* The places where events of an import come from.
LEMMA Places ==
    ASSUME TypeOK, NEW i \in Imports
    PROVE  /\ imports[i].now.spec \in Specs
           /\ Home(i) \in Slots /\ Home(i)[2] = NameOf[i]
           /\ imports[i].now.spec.target \in Instances
           /\ imports[i].now.spec.refs \subseteq Sources
<1>1. imports[i].now.spec \in Specs
  BY DEF TypeOK, Tracked, ImportObj
<1>2. imports[i].now.spec \in ImportSpec
  BY <1>1, ConstantsAssumption
<1>3. Home(i) \in Slots /\ imports[i].now.spec.target \in Instances
  BY <1>1, SlotType DEF Home
<1> QED  BY <1>1, <1>2, <1>3 DEF Home, Slot, ImportSpec

\* The event of another object, when the import that it belongs to is queued.
LEMMA OtherEventWakes ==
    ASSUME TypeOK, NewsInv, NameInv, NEW i \in Imports, imports[i].now.live,
           UNCHANGED imports, Watch, Woken(i)
    PROVE  Woken(i)'
<1> DEFINE spec == imports[i].now.spec
           s == Home(i)
           k == spec.target
<1>1. CASE Wakes(imports[i])
  BY <1>1 DEF Woken
<1>2. CASE At("down")'
  BY <1>2 DEF Woken
<1>3. SUFFICES ASSUME ~Wakes(imports[i]), ~At("down")'
               PROVE  Woken(i)'
  BY <1>1, <1>2
<1>4. /\ Known(i) /\ imports[i].seen.spec = spec
      /\ s \in Slots /\ s[2] = NameOf[i]
      /\ k \in Instances /\ spec.refs \subseteq Sources
      /\ imports'[i].now.spec = spec /\ Home(i)' = s
  BY <1>3, KnownAsIs, Places DEF Same, Known, Home
<1>5. At("down") => At("down")'
  BY DEF Watch, ObserveImport, ObserveKeycloak, ObserveStatefulSet,
         ObserveSecret, ObserveJob, ObserveSource, Running
<1>6. \/ i \in queue \/ keycloaks[k].pend # {} \/ secrets[s].pend # {}
      \/ \E x \in spec.refs : sources[x].pend # {}
      \/ Completes(jobs[s], i)
  BY <1>3, <1>5 DEF Woken
<1>7. SUFFICES \/ i \in queue' \/ keycloaks'[k].pend # {}
               \/ secrets'[s].pend # {}
               \/ \E x \in spec.refs : sources'[x].pend # {}
               \/ Completes(jobs'[s], i)
  BY <1>4 DEF Woken
<1> HIDE DEF spec, s, k
<1>8. ASSUME NEW j \in Imports, ObserveImport(j)
      PROVE  UNCHANGED <<keycloaks, secrets, sources, jobs>>
             /\ queue \subseteq queue'
  BY <1>8 DEF ObserveImport
<1>9. ASSUME NEW x \in Instances, ObserveKeycloak(x)
      PROVE  /\ UNCHANGED <<secrets, sources, jobs>> /\ queue \subseteq queue'
             /\ keycloaks'[k] = keycloaks[k] \/ i \in queue'
  <2>1. x # k => keycloaks'[k] = keycloaks[k]
    BY <1>4, <1>9 DEF ObserveKeycloak, TypeOK
  <2>2. x = k => i \in queue'
    BY <1>4, <1>9 DEF ObserveKeycloak, k
  <2> QED  BY <1>9, <2>1, <2>2 DEF ObserveKeycloak
<1>10. ASSUME NEW x \in Instances, ObserveStatefulSet(x)
       PROVE  UNCHANGED <<keycloaks, secrets, sources, jobs, queue>>
  BY <1>10 DEF ObserveStatefulSet
<1>11. ASSUME NEW t \in Slots, ObserveSecret(t)
       PROVE  /\ UNCHANGED <<keycloaks, sources, jobs>> /\ queue \subseteq queue'
              /\ secrets'[s] = secrets[s] \/ i \in queue'
  <2>1. PICK v \in secrets[t].pend :
           /\ secrets' = [secrets EXCEPT ![t] = Observe(@, v)]
           /\ handleSecretChanged(Named(v.owner), {})
    BY <1>11 DEF ObserveSecret
  <2>2. /\ queue \subseteq queue'
        /\ i \in Named(v.owner) => i \in queue'
    BY <1>3, <1>4, <2>1, HandlerWakes
  <2>3. t # s => secrets'[s] = secrets[s]
    BY <1>4, <2>1 DEF TypeOK
  <2>4. ASSUME t = s PROVE i \in Named(v.owner)
    <3>1. Ordered(secrets[s]) /\ v \in secrets[s].pend
      BY <1>4, <2>1, <2>4 DEF NewsInv
    <3>2. v.rv \in Nat /\ secrets[s].seen.rv \in Nat /\ secrets[s].seen.rv < v.rv
      BY <3>1 DEF Ordered, Locked, Versions
    <3>3. v.rv # 0 /\ v \in Versions(secrets[s])
      BY <3>1, <3>2 DEF Versions
    <3>4. NameOf[v.owner] = NameOf[i]
      BY <1>4, <3>3 DEF NameInv
    <3> QED  BY <3>4 DEF Named
  <2> QED  BY <1>11, <2>2, <2>3, <2>4 DEF ObserveSecret
<1>12. ASSUME NEW t \in Slots, ObserveJob(t)
       PROVE  /\ UNCHANGED <<keycloaks, sources, secrets>>
              /\ queue \subseteq queue'
              /\ Completes(jobs[s], i) => Completes(jobs'[s], i) \/ i \in queue'
  <2>1. PICK v \in jobs[t].pend :
           /\ NextEvent(jobs[t], v)
           /\ jobs' = [jobs EXCEPT ![t] = Observe(@, v)]
           /\ queue' = IF JobCompleted(jobs[t].seen, v)
                       THEN queue \cup {x \in {v.owner} : Known(x)} ELSE queue
    BY <1>12 DEF ObserveJob
  <2>2. t # s => jobs'[s] = jobs[s]
    BY <1>4, <2>1 DEF TypeOK
  <2>3. CASE t = s
    <3> DEFINE o == jobs[s]
               p == jobs'[s]
    <3>1. /\ o \in Tracked(JobObj) /\ Ordered(o) /\ p = Observe(o, v)
          /\ v \in o.pend /\ NextEvent(o, v)
      BY <1>4, <2>1, <2>3 DEF NewsInv, TypeOK
    <3>2. \A y, x : Follows(o, y, x) => (y = o.seen /\ x = v) \/ Follows(p, y, x)
      BY <3>1, Numbered, EventMovesOn
    <3>3. JobCompleted(o.seen, v) /\ v.owner = i => i \in queue'
      BY <1>4, <2>1, <2>3
    <3> HIDE DEF o, p
    <3>4. Completes(o, i) => Completes(p, i) \/ i \in queue'
      BY <3>2, <3>3 DEF Completes
    <3> QED  BY <1>12, <2>1, <3>4 DEF ObserveJob, o, p
  <2> QED  BY <1>12, <2>1, <2>2, <2>3 DEF ObserveJob
<1>13. ASSUME NEW t \in Sources, ObserveSource(t)
       PROVE  /\ UNCHANGED <<keycloaks, secrets, jobs>> /\ queue \subseteq queue'
              /\ \A x \in spec.refs : sources'[x] = sources[x] \/ i \in queue'
  <2>1. PICK v \in sources[t].pend :
           sources' = [sources EXCEPT ![t] = Observe(@, v)]
    BY <1>13 DEF ObserveSource
  <2>2. handleSecretChanged({}, {x \in Imports : t \in imports[x].seen.spec.refs})
    BY <1>13 DEF ObserveSource
  <2>3. /\ queue \subseteq queue'
        /\ t \in spec.refs => i \in queue'
    BY <1>3, <1>4, <2>2, HandlerWakes
  <2>4. \A x \in spec.refs : x # t => sources'[x] = sources[x]
    BY <1>4, <2>1 DEF TypeOK
  <2> QED  BY <1>13, <2>3, <2>4 DEF ObserveSource
<1> QED  BY <1>6, <1>8, <1>9, <1>10, <1>11, <1>12, <1>13 DEF Watch

\* Nothing that will wake an import is lost before its key is taken.
LEMMA WokenStays ==
    ASSUME TypeOK, TypeOK', NewsInv, NameInv, Next, NEW i \in Imports,
           imports'[i].now.live, ~Dequeue(i), Woken(i)
    PROVE  Woken(i)'
<1>1. CASE Start
  BY <1>1, StartWakes DEF Woken
<1>2. CASE Writes
  BY <1>2, WritesKeepWoken
<1>3. ASSUME NEW j \in Imports, ObserveImport(j) PROVE Woken(i)'
  BY <1>3, ImportEventWakes
<1>4. CASE Watch /\ UNCHANGED imports
  BY <1>4, OtherEventWakes
<1>5. Watch => UNCHANGED imports \/ \E j \in Imports : ObserveImport(j)
  BY DEF Watch, ObserveKeycloak, ObserveStatefulSet, ObserveSecret,
         ObserveJob, ObserveSource
<1> QED  BY <1>1, <1>2, <1>3, <1>4, <1>5, StepKinds

\* Job j of import i has succeeded.
Succeeded(j, i) == j.live /\ j.owner = i /\ j.phase = "complete"

\* While nothing will wake an import, what counts for it stays as it is.
LEMMA Undisturbed ==
    ASSUME TypeOK, TypeOK', NewsInv, Next, NEW i \in Imports,
           imports'[i].now.live, ~Woken(i), ~Woken(i)'
    PROVE  LET spec == imports[i].now.spec
               s == Home(i)
           IN  /\ Same(imports[i].now, imports'[i].now)
               /\ Home(i)' = s
               /\ secrets'[s] = secrets[s]
               /\ keycloaks'[spec.target] = keycloaks[spec.target]
               /\ Content(imports[i].now.spec)' = Content(spec)
               /\ jobs[s].now.rv # 0 => jobs'[s].now.rv # 0
               /\ Succeeded(jobs'[s].now, i) =>
                      /\ Succeeded(jobs[s].now, i)
                      /\ jobs'[s].now.ver = jobs[s].now.ver
<1> DEFINE spec == imports[i].now.spec
           s == Home(i)
           k == spec.target
<1>1. ~Start
  BY StartWakes DEF Woken
<1>2. /\ s \in Slots /\ k \in Instances /\ spec.refs \subseteq Sources
  BY Places
<1>3. Same(imports[i].now, imports'[i].now)
  <2>1. CASE Watch
    <3>1. Delivered(imports[i], imports'[i]) /\ imports[i] \in Tracked(ImportObj)
      BY <2>1, WatchDelivers DEF TypeOK
    <3>2. imports'[i].now = imports[i].now
      BY <3>1 DEF Delivered, Observed, Observe, Tracked
    <3> QED  BY <3>2 DEF Same
  <2>2. CASE Writes
    <3>1. ~Wakes(imports'[i])
      BY DEF Woken
    <3> QED  BY <2>2, <3>1, WriteTells DEF Writes
  <2> QED  BY <1>1, <2>1, <2>2, StepKinds
<1>4. imports'[i].now.spec = spec /\ Home(i)' = s
  BY <1>3 DEF Same, Home
<1>5. /\ keycloaks[k].pend = {} /\ keycloaks'[k].pend = {}
      /\ secrets[s].pend = {} /\ secrets'[s].pend = {}
      /\ \A x \in spec.refs : sources[x].pend = {} /\ sources'[x].pend = {}
      /\ ~Completes(jobs[s], i) /\ ~Completes(jobs'[s], i)
  BY <1>4 DEF Woken
<1> HIDE DEF spec, s, k
<1>6. \A o, p : /\ Delivered(o, p) /\ o.pend = {} => p = o
                /\ Written(o, p) /\ p.pend = {} => p = o
  BY WriteWaits DEF Delivered, Observed
<1>7. /\ secrets'[s] = secrets[s] /\ keycloaks'[k] = keycloaks[k]
      /\ \A x \in spec.refs : sources'[x] = sources[x]
  <2>1. CASE Watch
    BY <1>2, <1>5, <1>6, <2>1, WatchDelivers
  <2>2. CASE Writes
    BY <1>2, <1>5, <1>6, <2>2 DEF Writes
  <2> QED  BY <1>1, <2>1, <2>2, StepKinds
<1>8. Content(imports[i].now.spec)' = Content(spec)
  BY <1>4, <1>7 DEF Content
<1>9. /\ jobs[s].now.rv # 0 => jobs'[s].now.rv # 0
      /\ Succeeded(jobs'[s].now, i) =>
             /\ Succeeded(jobs[s].now, i)
             /\ jobs'[s].now.ver = jobs[s].now.ver
  <2> DEFINE o == jobs[s]
             p == jobs'[s]
  <2>1. /\ o \in Tracked(JobObj) /\ p \in Tracked(JobObj) /\ Ordered(o)
        /\ o.now.rv \in Nat
    BY <1>2 DEF TypeOK, NewsInv, Tracked, JobObj
  <2>2. CASE Watch
    <3>1. Delivered(o, p)
      BY <1>2, <2>2, WatchDelivers
    <3>2. p.now = o.now
      BY <2>1, <3>1 DEF Delivered, Observed, Observe, Tracked
    <3> QED  BY <3>2
  <2>3. CASE Writes
    <3>1. p = o \/ (Stores(o, p) /\ Carried(o.now, p.now))
      BY <1>2, <2>3, JobCarried DEF Writes
    <3>2. CASE Stores(o, p) /\ Carried(o.now, p.now)
      <4>1. p.now.rv # 0 /\ Follows(p, o.now, p.now)
        BY <2>1, <3>2, Numbered, StoresOrdered DEF Stores
      <4>2. Succeeded(p.now, i) => ~JobCompleted(o.now, p.now)
        BY <1>5, <4>1 DEF Completes, Succeeded
      <4> QED  BY <3>2, <4>1, <4>2 DEF Carried, Succeeded
    <3> QED  BY <3>1, <3>2
  <2> QED  BY <1>1, <2>2, <2>3, StepKinds
<1> QED  BY <1>3, <1>4, <1>7, <1>8, <1>9 DEF spec, s, k

-----------------------------------------------------------------------------
(***************************************************************************)
(* What the worker holds.                                                  *)
(***************************************************************************)
Resting == {"down", "idle", "get"}

\* The worker goes on with the resource that it holds, reads it, has written
\* it, or comes to rest.
LEMMA WorkerSteps ==
    ASSUME TypeOK, Next
    PROVE  \/ w'.pc \in Resting
           \/ /\ w'.key = w.key /\ w.pc \notin Resting
              /\ w'.cr = w.cr \/ w'.cr = imports'[w.key].now
           \/ /\ GetImport /\ w'.key = w.key /\ w'.cr = imports[w.key].seen
<1>1. w \in Worker /\ Idle.pc = "idle" /\ Down.pc = "down"
      /\ imports \in [Imports -> Tracked(ImportObj)] /\ w.key \in Imports
  BY DEF TypeOK, Worker, Idle, Down
<1>2. CASE w' = w
  BY <1>2
<1>3. CASE Restart \/ Relaunch
  BY <1>1, <1>3 DEF Restart, Relaunch, Start, Resting
<1>4. ASSUME NEW i \in Imports, Dequeue(i) PROVE w'.pc \in Resting
  BY <1>1, <1>4 DEF Dequeue, Resting, Worker
<1>5. CASE GetImport
  BY <1>1, <1>5 DEF GetImport, Done, Resting, Worker
<1>6. ASSUME \/ \E pc \in Steps : Goto(pc)
             \/ \E st \in Status : Report(st)
             \/ \E v \in StatefulSetObj : w' = [w EXCEPT !.pc = "secret", !.sts = v]
             \/ \E n \in Nat : w' = [w EXCEPT !.pc = "listJobs", !.ver = n]
             \/ \E b \in BOOLEAN :
                    w' = [w EXCEPT !.pc = "rollout", !.completed = b]
      PROVE  w'.key = w.key /\ w'.cr = w.cr
  BY <1>1, <1>6 DEF Goto, Report, Worker
<1>7. CASE CleanJobs \/ CleanSecrets \/ CreateJob \/ Rollout \/ UpdateStatus
  <2>1. \/ w' = Idle \/ \E pc \in Steps : Goto(pc)
        \/ \E st \in Status : Report(st)
    BY <1>7 DEF CleanJobs, CleanSecrets, CreateJob, Rollout, UpdateStatus,
                Requeue, Done, Steps, Status
  <2>2. w.pc \notin Resting
    BY <1>7 DEF CleanJobs, CleanSecrets, CreateJob, Rollout, UpdateStatus,
                At, Resting
  <2> QED  BY <1>1, <1>6, <2>1, <2>2 DEF Resting
<1>8. CASE GetKeycloak
  <2>1. statefulsets[w.cr.spec.target].seen \in StatefulSetObj
    BY SlotType DEF TypeOK, Tracked, Worker, ImportObj
  <2>2. w'.key = w.key /\ w'.cr = w.cr
    BY <1>6, <1>8, <2>1 DEF GetKeycloak, Status
  <2> QED  BY <1>8, <2>2 DEF GetKeycloak, At, Resting
<1>9. CASE ApplySecret
  <2> DEFINE o == secrets[Slot(w.key, w.cr.spec)]
             v == [o.now EXCEPT !.live = TRUE, !.owner = w.key,
                                !.data = Content(w.cr.spec)]
  <2>1. o \in Tracked(SecretObj) /\ o.now.rv \in Nat /\ o.seen.rv \in Nat
    BY SlotType DEF TypeOK, Tracked, Worker, ImportObj, SecretObj
  <2>2. Put(o, v).now.rv \in Nat
    <3>1. "rv" \in DOMAIN v
      BY <2>1 DEF Tracked, SecretObj
    <3>2. Put(o, v).now = [v EXCEPT !.rv = o.now.rv + 1]
      BY <2>1, PutNow
    <3> HIDE DEF v
    <3> QED  BY <2>1, <3>1, <3>2
  <2>3. \/ w' = Idle \/ Report("error")
        \/ \E n \in Nat : w' = [w EXCEPT !.pc = "listJobs", !.ver = n]
    BY <1>9, <2>1, <2>2 DEF ApplySecret, Requeue
  <2> QED  BY <1>1, <1>6, <1>9, <2>3 DEF ApplySecret, At, Resting, Status
<1>10. CASE ListJobs
  <2>1. \/ Report("error") \/ Goto("createJob")
        \/ \E b \in BOOLEAN :
               w' = [w EXCEPT !.pc = "rollout", !.completed = b]
    BY <1>10 DEF ListJobs
  <2> QED  BY <1>6, <1>10, <2>1 DEF ListJobs, At, Resting, Status, Steps
<1>11. CASE RemoveFinalizer
  <2> DEFINE new == WithoutFinalizer(imports[w.key])
  <2>1. \/ w' = Idle
        \/ /\ imports' = [imports EXCEPT ![w.key] = new]
           /\ w' = [w EXCEPT !.pc = "addFinalizer", !.cr = new.now]
    BY <1>11 DEF RemoveFinalizer, Requeue
  <2> HIDE DEF new
  <2> QED  BY <1>1, <1>11, <2>1 DEF RemoveFinalizer, At, Resting, Worker
<1>12. CASE AddFinalizer
  <2> DEFINE o == imports[w.key]
             new == Put(o, [o.now EXCEPT !.fin = TRUE])
  <2>1. \/ w' = Idle
        \/ /\ imports' = [imports EXCEPT ![w.key] = new]
           /\ w' = [w EXCEPT !.pc = "getKeycloak", !.cr = new.now]
    BY <1>12 DEF AddFinalizer, Requeue
  <2> HIDE DEF new
  <2> QED  BY <1>1, <1>12, <2>1 DEF AddFinalizer, At, Resting, Worker
<1>13. CASE Watch
  <2>1. \A A, B : handleSecretChanged(A, B) => w' = w \/ w'.pc = "down"
    BY <1>1 DEF handleSecretChanged
  <2>2. w' = w \/ w'.pc = "down"
    BY <1>13, <2>1 DEF Watch, ObserveImport, ObserveKeycloak,
                       ObserveStatefulSet, ObserveSecret, ObserveJob,
                       ObserveSource
  <2> QED  BY <1>2, <2>2 DEF Resting
<1>14. CASE User \/ InstanceWriter \/ \E s \in Slots : JobController(s)
  BY <1>2, <1>14 DEF User, InstanceWriter, JobController, CreateImport,
         EditImport, DeleteImport, ReleaseImport, EditSource, UserVars,
         WriteKeycloak, WriteStatefulSet, StartPod, PodSucceeds, JobCompletes,
         PodFails, KillPod, JobGone
<1> QED  BY <1>3, <1>4, <1>5, <1>7, <1>8, <1>9, <1>10, <1>11, <1>12, <1>13,
            <1>14 DEF Next, Reconcile

\* The resource that the worker holds existed, so that an update of it that is
\* accepted was made from the stored one.
HeldInv == w.pc \notin Resting => Distinguished(w.cr, imports[w.key])

\* Every step keeps it so.
LEMMA NextHeld ==
    ASSUME TypeOK, TypeOK', NewsInv, NewsInv', Next, HeldInv
    PROVE  HeldInv'
<1> SUFFICES ASSUME w'.pc \notin Resting
             PROVE  Distinguished(w'.cr, imports'[w'.key])
  BY DEF HeldInv
<1> DEFINE o == imports[w.key]
           p == imports'[w.key]
<1>1. /\ o \in Tracked(ImportObj) /\ p \in Tracked(ImportObj)
      /\ w.key \in Imports /\ w.cr \in ImportObj
      /\ p.now.rv \in Nat /\ w.cr.rv \in Nat
  BY DEF TypeOK, Worker, Tracked, ImportObj
<1>2. Moves(o, p)
  BY <1>1, StepsMove DEF Written, Observed, Moves
<1>3. CASE w'.key = w.key /\ w.pc \notin Resting /\ w'.cr = w.cr
  <2>1. Distinguished(w.cr, o)
    BY <1>3 DEF HeldInv
  <2> QED  BY <1>1, <1>2, <1>3, <2>1, Numbered, MovesDistinguished
<1>4. CASE w'.key = w.key /\ w'.cr = p.now
  BY <1>1, <1>4 DEF Distinguished
<1>5. CASE GetImport /\ w'.key = w.key /\ w'.cr = o.seen
  <2>1. p = o
    BY <1>5 DEF GetImport, objects
  <2>2. Locked(o) /\ o.seen \in Versions(o)
    BY <1>1 DEF NewsInv, Ordered, Versions
  <2> QED  BY <1>5, <2>1, <2>2 DEF Locked, Distinguished
<1> QED  BY <1>3, <1>4, <1>5, WorkerSteps

-----------------------------------------------------------------------------
(***************************************************************************)
(* Annotations: none that was read is newer than the stored one, unless the*)
(* StatefulSet was created anew.                                           *)
(***************************************************************************)
Surpassed(old, ann, touches) == old <= ann \/ (ann = 0 /\ touches > 0)

Outdone(v, o, touches) ==
    \A i \in Imports : Surpassed(v.ann[i], o.now.ann[i], touches)

AnnInv ==
    /\ \A k \in Instances : \A v \in Versions(statefulsets[k]) :
           Outdone(v, statefulsets[k], used.touches)
    /\ w.pc \in Critical =>
           LET k == w.cr.spec.target IN
           /\ w.sts.rv <= statefulsets[k].seen.rv
           /\ Outdone(w.sts, statefulsets[k], used.touches)

\* The StatefulSet that the worker holds is the one that GetKeycloak read.
LEMMA CriticalSteps ==
    ASSUME TypeOK, Next, w'.pc \in Critical
    PROVE  /\ w'.key = w.key /\ w'.cr = w.cr
           /\ \/ w.pc \in Critical /\ w'.sts = w.sts
              \/ w'.sts = statefulsets[w.cr.spec.target].seen
<1>1. w \in Worker /\ Idle.pc = "idle" /\ Down.pc = "down"
  BY DEF TypeOK, Worker, Idle, Down
<1>2. CASE w' = w
  BY <1>2
<1>3. CASE Restart \/ Relaunch
  BY <1>1, <1>3 DEF Restart, Relaunch, Start, Critical
<1>4. ASSUME NEW i \in Imports, Dequeue(i) PROVE FALSE
  BY <1>1, <1>4 DEF Dequeue, Critical, Worker
<1>5. ~GetImport
  BY <1>1 DEF GetImport, Done, Branch, Critical, Worker
<1>6. CASE GetKeycloak
  BY <1>1, <1>6 DEF GetKeycloak, Report, Critical, Worker
<1>7. CASE ApplySecret
  BY <1>1, <1>7 DEF ApplySecret, Requeue, Report, Critical, Worker, At
<1>8. CASE ListJobs
  BY <1>1, <1>8 DEF ListJobs, Report, Goto, Critical, Worker, At
<1>9. /\ ~CleanJobs /\ ~CleanSecrets /\ ~RemoveFinalizer /\ ~AddFinalizer
      /\ ~CreateJob /\ ~Rollout /\ ~UpdateStatus
  BY <1>1 DEF CleanJobs, CleanSecrets, RemoveFinalizer, AddFinalizer, CreateJob,
              Rollout, UpdateStatus, Requeue, Done, Report, Goto, Critical,
              Worker
<1>10. CASE Watch
  <2>1. \A A, B : handleSecretChanged(A, B) => w' = w \/ w'.pc = "down"
    BY <1>1 DEF handleSecretChanged
  <2>2. w' = w \/ w'.pc = "down"
    BY <1>10, <2>1 DEF Watch, ObserveImport, ObserveKeycloak,
                       ObserveStatefulSet, ObserveSecret, ObserveJob,
                       ObserveSource
  <2> QED  BY <1>2, <2>2 DEF Critical
<1>11. CASE User \/ InstanceWriter \/ \E s \in Slots : JobController(s)
  BY <1>2, <1>11 DEF User, InstanceWriter, JobController, CreateImport,
         EditImport, DeleteImport, ReleaseImport, EditSource, UserVars,
         WriteKeycloak, WriteStatefulSet, StartPod, PodSucceeds, JobCompletes,
         PodFails, KillPod, JobGone
<1> QED  BY <1>3, <1>4, <1>5, <1>6, <1>7, <1>8, <1>9, <1>10, <1>11
            DEF Next, Reconcile

\* The writers of the instance are not forgotten.
LEMMA TouchesStay ==
    ASSUME TypeOK, Next, used.touches > 0
    PROVE  used'.touches > 0
<1>1. used \in [edits: Nat, deletes: Nat, touches: Nat, crashes: Nat]
  BY DEF TypeOK
<1>2. \/ used' = used
      \/ used' = [used EXCEPT !.edits = @ + 1]
      \/ used' = [used EXCEPT !.deletes = @ + 1]
      \/ used' = [used EXCEPT !.touches = @ + 1]
      \/ used' = [used EXCEPT !.crashes = @ + 1]
  <2>1. CASE Reconcile
    BY <2>1 DEF Reconcile, GetImport, CleanJobs, CleanSecrets, RemoveFinalizer,
                AddFinalizer, GetKeycloak, ApplySecret, ListJobs, CreateJob,
                Rollout, UpdateStatus
  <2>2. CASE Watch \/ Restart \/ Relaunch \/ \E i \in Imports : Dequeue(i)
    BY <2>2, WatchDelivers DEF Restart, Relaunch, Dequeue
  <2>3. CASE User
    BY <2>3 DEF User, CreateImport, EditImport, DeleteImport, ReleaseImport,
                EditSource, Edit
  <2>4. CASE InstanceWriter
    BY <2>4 DEF InstanceWriter, WriteKeycloak, WriteStatefulSet, Touch
  <2>5. CASE \E s \in Slots : JobController(s)
    BY <2>5 DEF JobController, StartPod, PodSucceeds, JobCompletes, PodFails,
                KillPod, JobGone
  <2> QED  BY <2>1, <2>2, <2>3, <2>4, <2>5 DEF Next
<1> QED  BY <1>1, <1>2

\* A writer of the StatefulSet keeps the annotations or starts without any.
LEMMA WriterAnn ==
    ASSUME TypeOK, NEW k \in Instances, WriteStatefulSet(k)
    PROVE  /\ \A x \in Instances \ {k} : statefulsets'[x] = statefulsets[x]
           /\ \/ statefulsets'[k].now.ann = statefulsets[k].now.ann
              \/ statefulsets'[k].now.ann = [i \in Imports |-> 0]
           /\ used'.touches > 0
<1> DEFINE o == statefulsets[k]
           n == [NoStatefulSet EXCEPT !.live = TRUE]
<1>1. /\ statefulsets \in [Instances -> Tracked(StatefulSetObj)]
      /\ o \in Tracked(StatefulSetObj) /\ o.now \in StatefulSetObj
      /\ n \in StatefulSetObj /\ n.ann = [i \in Imports |-> 0]
  BY Absent DEF TypeOK, Tracked, StatefulSetObj, NoStatefulSet
<1>2. PICK v \in StatefulSetObj :
         /\ statefulsets' = [statefulsets EXCEPT ![k] = Put(o, v)]
         /\ v.ann = o.now.ann \/ v.ann = [i \in Imports |-> 0]
  <2> DEFINE g == [o.now EXCEPT !.live = FALSE]
  <2>1. g \in StatefulSetObj /\ g.ann = o.now.ann
    BY <1>1 DEF StatefulSetObj
  <2>2. \/ statefulsets' = [statefulsets EXCEPT ![k] = Put(o, o.now)]
        \/ statefulsets' = [statefulsets EXCEPT ![k] = Put(o, g)]
        \/ statefulsets' = [statefulsets EXCEPT ![k] = Put(o, n)]
    BY DEF WriteStatefulSet, Remove
  <2> HIDE DEF g, n
  <2> QED  BY <1>1, <2>1, <2>2
<1>3. Put(o, v).now = [v EXCEPT !.rv = o.now.rv + 1]
  BY <1>1, PutNow
<1>4. Put(o, v).now.ann = v.ann
  BY <1>3 DEF StatefulSetObj
<1>5. used'.touches > 0
  BY DEF WriteStatefulSet, Touch, TypeOK
<1> HIDE DEF n
<1> QED  BY <1>1, <1>2, <1>4, <1>5

\* A rollout is only accepted when no other version is on its way.
LEMMA RolloutAlone ==
    ASSUME TypeOK, NewsInv, AnnInv, OrderInv, Rollout, ~UNCHANGED statefulsets
    PROVE  \A v \in Versions(statefulsets[w.cr.spec.target]) :
               v = statefulsets[w.cr.spec.target].now
<1> DEFINE k == w.cr.spec.target
           o == statefulsets[k]
<1>1. w.pc \in Critical /\ Current(o, w.sts)
  BY DEF Rollout, RolloutAccepted, At, Critical
<1>2. k \in Instances /\ w.sts.rv \in Nat
  BY SlotType DEF TypeOK, Worker, ImportObj, StatefulSetObj
<1>3. Ordered(o) /\ w.sts.rv <= o.seen.rv
  BY <1>1, <1>2 DEF NewsInv, AnnInv
<1>4. /\ \A v \in Versions(o) : /\ v.rv \in Nat /\ v.rv <= o.now.rv
                                /\ o.seen.rv <= v.rv
                                /\ v.rv = o.now.rv => v = o.now
      /\ o.seen.rv \in Nat /\ o.now.rv = w.sts.rv
  BY <1>1, <1>3 DEF Ordered, Locked, Behind, Versions, Current
<1> QED  BY <1>2, <1>3, <1>4

\* Every step keeps the annotations in order.
LEMMA NextAnn ==
    ASSUME ImportInv, ImportInv', OrderInv, NewsInv, NewsInv', Next, AnnInv
    PROVE  AnnInv'
<1>1. TypeOK /\ TypeOK'
  BY DEF ImportInv
<1>2. \A k \in Instances :
         /\ statefulsets[k] \in Tracked(StatefulSetObj)
         /\ statefulsets'[k] \in Tracked(StatefulSetObj)
         /\ Moves(statefulsets[k], statefulsets'[k])
         /\ statefulsets[k].now \in Versions(statefulsets[k])
         /\ statefulsets[k].seen \in Versions(statefulsets[k])
  BY <1>1, StatefulSetsMove DEF TypeOK, Versions
<1>3. \A k \in Instances :
         /\ \A v \in Versions(statefulsets'[k]) :
               v \in Versions(statefulsets[k]) \/ v = statefulsets'[k].now
         /\ statefulsets[k].seen.rv <= statefulsets'[k].seen.rv
  <2> TAKE k \in Instances
  <2>1. Locked(statefulsets[k]) /\ Behind(statefulsets[k])
    BY DEF NewsInv, Ordered
  <2> QED  BY <1>2, <2>1, Numbered, MovesVersions, MovesInOrder
<1>4. \A k \in Instances : \A v \in Versions(statefulsets'[k]) :
         \A i \in Imports : v.ann[i] \in Nat
  BY <1>2, VersionTypes
<1>5. ASSUME NEW k \in Instances
      PROVE  Outdone(statefulsets'[k].now, statefulsets'[k], used'.touches)
  <2>1. \A i \in Imports : statefulsets'[k].now.ann[i] \in Nat
    BY <1>4, <1>5 DEF Versions
  <2> QED  BY <2>1 DEF Outdone, Surpassed
<1>6. ASSUME NEW k \in Instances,
             \A v : Outdone(v, statefulsets[k], used.touches)
                       => Outdone(v, statefulsets'[k], used'.touches)
      PROVE  /\ \A v \in Versions(statefulsets'[k]) :
                    Outdone(v, statefulsets'[k], used'.touches)
             /\ w'.pc \in Critical /\ k = w'.cr.spec.target =>
                    /\ w'.sts.rv <= statefulsets'[k].seen.rv
                    /\ Outdone(w'.sts, statefulsets'[k], used'.touches)
  <2>1. \A v \in Versions(statefulsets'[k]) :
           Outdone(v, statefulsets'[k], used'.touches)
    BY <1>3, <1>5, <1>6 DEF AnnInv
  <2>2. ASSUME w'.pc \in Critical, k = w'.cr.spec.target
        PROVE  /\ w'.sts.rv <= statefulsets'[k].seen.rv
               /\ Outdone(w'.sts, statefulsets'[k], used'.touches)
    <3>1. /\ w'.cr = w.cr
          /\ (w.pc \in Critical /\ w'.sts = w.sts) \/ w'.sts = statefulsets[k].seen
      BY <1>1, <2>2, CriticalSteps
    <3>2. /\ statefulsets[k].seen.rv \in Nat /\ statefulsets'[k].seen.rv \in Nat
          /\ w.sts.rv \in Nat
      BY <1>1, <1>2 DEF TypeOK, Worker, Tracked, StatefulSetObj
    <3>3. CASE w.pc \in Critical /\ w'.sts = w.sts
      <4>1. /\ w.sts.rv <= statefulsets[k].seen.rv
            /\ Outdone(w.sts, statefulsets[k], used.touches)
        BY <2>2, <3>1, <3>3 DEF AnnInv
      <4> QED  BY <1>3, <1>6, <3>2, <3>3, <4>1
    <3>4. CASE w'.sts = statefulsets[k].seen
      BY <1>2, <1>3, <1>6, <3>4 DEF AnnInv
    <3> QED  BY <3>1, <3>3, <3>4
  <2> QED  BY <2>1, <2>2
<1>7. ASSUME NEW k \in Instances,
             \/ statefulsets'[k].now.ann = statefulsets[k].now.ann
             \/ /\ statefulsets'[k].now.ann = [i \in Imports |-> 0]
                /\ used'.touches > 0
      PROVE  \A v : Outdone(v, statefulsets[k], used.touches)
                       => Outdone(v, statefulsets'[k], used'.touches)
  <2>1. used.touches > 0 => used'.touches > 0
    BY <1>1, TouchesStay
  <2> QED  BY <1>7, <2>1 DEF Outdone, Surpassed
<1>8. w'.pc \in Critical => w'.cr.spec.target \in Instances
  BY <1>1, SlotType DEF TypeOK, Worker, ImportObj
<1>9. CASE Rollout /\ ~UNCHANGED statefulsets
  <2> DEFINE t == w.cr.spec.target
             o == statefulsets[t]
             p == statefulsets'[t]
  <2>1. /\ t \in Instances /\ w.key \in Imports /\ w.ver \in Nat
        /\ \A x \in Instances \ {t} : statefulsets'[x] = statefulsets[x]
        /\ p.now.ann = [o.now.ann EXCEPT ![w.key] = w.ver]
        /\ o.now.ann[w.key] < w.ver
    BY <1>9, RolloutEffect
  <2>2. w'.pc \notin Critical
    <3>1. w'.pc = "status" \/ w'.pc = "idle"
      BY <1>1, <1>9 DEF Rollout, Report, Requeue, Idle, TypeOK, Worker
    <3> QED  BY <3>1 DEF Critical
  <2>3. ASSUME NEW v \in Versions(p) PROVE Outdone(v, p, used'.touches)
    <3>1. CASE v = p.now
      BY <1>5, <2>1, <3>1
    <3>2. CASE v = o.now
      <4>1. o.now.ann \in [Imports -> Nat]
        BY <1>2, <2>1 DEF Tracked, StatefulSetObj
      <4>2. \A i \in Imports : o.now.ann[i] <= p.now.ann[i]
        <5> DEFINE f == o.now.ann
                   g == p.now.ann
        <5> HIDE DEF f, g, o, p, t
        <5>1. /\ f \in [Imports -> Nat] /\ g = [f EXCEPT ![w.key] = w.ver]
              /\ f[w.key] < w.ver /\ w.ver \in Nat /\ w.key \in Imports
          BY <2>1, <4>1 DEF f, g
        <5>2. \A i \in Imports : f[i] <= g[i]
          BY <5>1
        <5> QED  BY <5>2 DEF f, g
      <4> QED  BY <3>2, <4>2 DEF Outdone, Surpassed
    <3> QED  BY <1>1, <1>3, <1>9, <2>1, <3>1, <3>2, RolloutAlone
  <2>4. ASSUME NEW k \in Instances, k # t
        PROVE  \A v \in Versions(statefulsets'[k]) :
                   Outdone(v, statefulsets'[k], used'.touches)
    BY <1>6, <1>7, <2>1, <2>4
  <2> QED  BY <2>2, <2>3, <2>4 DEF AnnInv
<1>10. ASSUME \A k \in Instances :
                 \/ statefulsets'[k].now.ann = statefulsets[k].now.ann
                 \/ /\ statefulsets'[k].now.ann = [i \in Imports |-> 0]
                    /\ used'.touches > 0
       PROVE  AnnInv'
  BY <1>6, <1>7, <1>8, <1>10 DEF AnnInv
<1>11. ASSUME NEW t \in Instances, WriteStatefulSet(t) PROVE AnnInv'
  BY <1>1, <1>10, <1>11, WriterAnn
<1>12. CASE \A k \in Instances : statefulsets'[k].now = statefulsets[k].now
  BY <1>10, <1>12
<1>13. UNCHANGED statefulsets =>
           \A k \in Instances : statefulsets'[k].now = statefulsets[k].now
  OBVIOUS
<1> QED  BY <1>1, <1>9, <1>11, <1>12, <1>13, OtherEffect

-----------------------------------------------------------------------------
(***************************************************************************)
(* Contents: pods and realms hold what the secret held under the version   *)
(* they carry, and a job that overrides and has succeeded has brought its  *)
(* version, or a later one, into the database it is for.                   *)
(***************************************************************************)
PodData(p, s) ==
    /\ p.rv = secrets[s].now.rv => p.data = secrets[s].now.data
    /\ p.override = jobs[s].now.override /\ p.into = jobs[s].now.into
    /\ p.done /\ p.override => realms[s][p.into].rv >= p.ver

RealmData(s) ==
    \A k \in Instances :
        realms[s][k].rv # 0 /\ realms[s][k].rv = secrets[s].now.rv
            => realms[s][k].data = secrets[s].now.data

JobData(s) ==
    LET j == jobs[s].now IN
    j.phase = "complete" /\ j.override => realms[s][j.into].rv >= j.ver

DataInv == \A s \in Slots : /\ \A p \in pods[s] : PodData(p, s)
                            /\ RealmData(s) /\ JobData(s)

\* Only a write changes what is stored.
LEMMA NowStays ==
    ASSUME NEW V, NEW o \in Tracked(V)
    PROVE  /\ \A v \in o.pend : Observe(o, v).now = o.now
           /\ Relist(o).now = o.now
BY DEF Observe, Relist, InSync, Tracked

\* Pods are started and succeed by steps of the slot they are in.
LEMMA PodsGo ==
    ASSUME TypeOK, Next, NEW s \in Slots
    PROVE  \/ StartPod(s) \/ PodSucceeds(s)
           \/ pods'[s] \subseteq pods[s] /\ realms'[s] = realms[s]
<1>1. /\ pods \in [Slots -> SUBSET PodObj]
      /\ realms \in [Slots -> [Instances -> [rv: Nat, data: Data \cup {NoValue}]]]
  BY DEF TypeOK
<1>2. CASE UNCHANGED <<pods, realms>>
  BY <1>2
<1>3. ASSUME NEW t \in Slots, StartPod(t) \/ PodSucceeds(t), t # s
      PROVE  pods'[s] = pods[s] /\ realms'[s] = realms[s]
  BY <1>1, <1>3 DEF StartPod, PodSucceeds
<1>4. ASSUME NEW t \in Slots,
             JobCompletes(t) \/ PodFails(t) \/ KillPod(t) \/ JobGone(t)
      PROVE  pods'[s] \subseteq pods[s] /\ realms'[s] = realms[s]
  BY <1>1, <1>4 DEF JobCompletes, PodFails, KillPod, JobGone
<1>5. CASE Reconcile \/ \E i \in Imports : Dequeue(i)
  BY <1>2, <1>5
     DEF Reconcile, Dequeue, GetImport, CleanJobs, CleanSecrets,
         RemoveFinalizer, AddFinalizer, GetKeycloak, ApplySecret, ListJobs,
         CreateJob, Rollout, UpdateStatus
<1>6. CASE Watch \/ Restart \/ Relaunch
  BY <1>2, <1>6, WatchDelivers DEF Restart, Relaunch, Start
<1>7. CASE User \/ InstanceWriter
  BY <1>2, <1>7
     DEF User, InstanceWriter, CreateImport, EditImport, DeleteImport,
         ReleaseImport, EditSource, UserVars, WriteKeycloak, WriteStatefulSet
<1> QED  BY <1>3, <1>4, <1>5, <1>6, <1>7 DEF Next, JobController

\* Steps of the pods.
LEMMA PodStepsData ==
    ASSUME ImportInv, TypeOK', DataInv, NEW s \in Slots,
           StartPod(s) \/ PodSucceeds(s)
    PROVE  (\A p \in pods'[s] : PodData(p, s)') /\ RealmData(s)' /\ JobData(s)'
<1> DEFINE j == jobs[s].now
           x == secrets[s].now
<1>1. /\ secrets' = secrets /\ jobs' = jobs
      /\ \A p \in pods[s] : PodData(p, s)
      /\ RealmData(s) /\ JobData(s)
      /\ pods \in [Slots -> SUBSET PodObj]
      /\ realms \in [Slots -> [Instances -> [rv: Nat, data: Data \cup {NoValue}]]]
  BY DEF StartPod, PodSucceeds, objects, DataInv, ImportInv, TypeOK
<1>2. CASE StartPod(s)
  <2> DEFINE p == [uid |-> j.uid, ver |-> j.ver, rv |-> x.rv, data |-> x.data,
                   into |-> j.into, override |-> j.override, done |-> FALSE]
  <2>1. pods' = [pods EXCEPT ![s] = @ \cup {p}] /\ realms' = realms
    BY <1>2 DEF StartPod
  <2>2. \A q : q = p => PodData(q, s)'
    BY <1>1 DEF PodData
  <2> HIDE DEF p
  <2>3. pods'[s] = pods[s] \cup {p}
    BY <1>1, <2>1
  <2> QED  BY <1>1, <2>1, <2>2, <2>3 DEF PodData, RealmData, JobData
<1>3. CASE PodSucceeds(s)
  <2>1. PICK p \in pods[s] :
           /\ ~p.done
           /\ pods' = [pods EXCEPT ![s] =
                  (@ \ {p}) \cup {[p EXCEPT !.done = TRUE]}]
           /\ realms' = IF p.override \/ realms[s][p.into].rv = 0
                        THEN [realms EXCEPT ![s][p.into] =
                                 [rv |-> p.rv, data |-> p.data]]
                        ELSE realms
    BY <1>3 DEF PodSucceeds
  <2> DEFINE q == [p EXCEPT !.done = TRUE]
  <2>2. /\ p \in PodObj /\ q.rv = p.rv /\ q.data = p.data /\ q.ver = p.ver
        /\ q.override = p.override /\ q.into = p.into
        /\ p.into \in Instances
    BY <1>1 DEF PodObj
  <2> HIDE DEF q
  <2>3. /\ pods'[s] = {q} /\ p.rv >= p.ver /\ p.rv \in Nat /\ p.ver \in Nat
    <3>1. \A r \in pods[s] : r = p
      BY DEF ImportInv, PodInv
    <3>2. pods'[s] = (pods[s] \ {p}) \cup {q}
      BY <1>1, <2>1 DEF q
    <3> QED  BY <2>2, <3>1, <3>2 DEF ImportInv, PodInv, PodObj
  <2>4. /\ \A k \in Instances \ {p.into} : realms'[s][k] = realms[s][k]
        /\ realms'[s][p.into] = IF p.override \/ realms[s][p.into].rv = 0
                                THEN [rv |-> p.rv, data |-> p.data]
                                ELSE realms[s][p.into]
    BY <1>1, <2>1, <2>2
  <2>5. PodData(p, s)
    BY <1>1
  <2>6. RealmData(s)' /\ PodData(q, s)'
    <3>1. RealmData(s)'
      BY <1>1, <2>2, <2>4, <2>5 DEF PodData, RealmData
    <3>2. PodData(q, s)'
      BY <1>1, <2>2, <2>3, <2>4, <2>5 DEF PodData
    <3> QED  BY <3>1, <3>2
  <2>7. JobData(s)'
    <3>1. realms'[s][j.into].rv >= realms[s][j.into].rv
      <4>1. j.into \in Instances
        BY DEF ImportInv, TypeOK, Tracked, JobObj
      <4> QED  BY <1>3, <4>1, PodStepsInv DEF Onward
    <3>2. /\ realms[s][j.into].rv \in Nat /\ realms'[s][j.into].rv \in Nat
          /\ j.ver \in Nat
      BY DEF ImportInv, TypeOK, Tracked, JobObj
    <3> QED  BY <1>1, <3>1, <3>2 DEF JobData
  <2> QED  BY <2>3, <2>6, <2>7
<1> QED  BY <1>2, <1>3

\* Every step keeps the contents.
LEMMA NextData ==
    ASSUME ImportInv, ImportInv', Next, DataInv
    PROVE  DataInv'
<1> SUFFICES ASSUME NEW s \in Slots
             PROVE  /\ \A p \in pods'[s] : PodData(p, s)'
                    /\ RealmData(s)' /\ JobData(s)'
  BY DEF DataInv
<1>1. TypeOK /\ TypeOK'
  BY DEF ImportInv
<1>2. CASE StartPod(s) \/ PodSucceeds(s)
  BY <1>1, <1>2, PodStepsData
<1>3. CASE pods'[s] \subseteq pods[s] /\ realms'[s] = realms[s]
  <2>1. /\ \A p \in pods[s] : PodData(p, s)
        /\ RealmData(s) /\ JobData(s)
    BY DEF DataInv
  <2>2. \/ secrets'[s].now = secrets[s].now
        \/ secrets'[s].now.rv = secrets[s].now.rv + 1
    <3>1. secrets[s] \in Tracked(SecretObj) /\ Moves(secrets[s], secrets'[s])
      BY <1>1, SecretsMove DEF TypeOK
    <3> QED  BY <3>1, NowStays DEF Moves, Stores
  <2>3. /\ secrets[s].now.rv \in Nat
        /\ \A k \in Instances : /\ realms[s][k].rv \in Nat
                                /\ realms[s][k].rv <= secrets[s].now.rv
        /\ \A p \in pods[s] : p.rv \in Nat /\ p.rv <= secrets[s].now.rv
    BY Numbers DEF ImportInv, TypeOK, Covered, PodInv, PodObj
  <2>4. RealmData(s)'
    <3>1. CASE secrets'[s].now = secrets[s].now
      BY <1>3, <2>1, <3>1 DEF RealmData
    <3>2. CASE secrets'[s].now.rv = secrets[s].now.rv + 1
      <4>1. \A k \in Instances : realms[s][k].rv # secrets'[s].now.rv
        BY <2>3, <3>2
      <4> QED  BY <1>3, <4>1 DEF RealmData
    <3> QED  BY <2>2, <3>1, <3>2
  <2>5. \/ jobs'[s].now = jobs[s].now
        \/ /\ ~jobs[s].now.live /\ jobs'[s].now.phase = "active"
        \/ /\ JobKept(jobs[s].now, jobs'[s].now)
           /\ \/ jobs'[s].now.phase = jobs[s].now.phase
              \/ jobs'[s].now.phase = "failed" \/ JobCompletes(s)
    <3>1. jobs[s] \in Tracked(JobObj)
      BY <1>1 DEF TypeOK
    <3>2. \/ JobWritten(s) \/ Observed(jobs[s], jobs'[s])
          \/ jobs'[s] = Relist(jobs[s])
      BY <1>1, StepsMove
    <3> QED  BY <3>1, <3>2, NowStays DEF JobWritten, Observed
  <2>6. ASSUME NEW p \in pods'[s] PROVE PodData(p, s)'
    <3>1. p \in pods[s] /\ jobs[s].now.live /\ PodData(p, s)
      BY <1>3, <2>1, <2>6 DEF ImportInv, PodInv
    <3>2. /\ jobs'[s].now.override = jobs[s].now.override
          /\ jobs'[s].now.into = jobs[s].now.into
      BY <2>5, <3>1 DEF JobKept
    <3> QED  BY <1>3, <2>2, <2>3, <3>1, <3>2 DEF PodData
  <2>7. JobData(s)'
    <3>1. CASE JobCompletes(s) /\ JobKept(jobs[s].now, jobs'[s].now)
      <4>1. PICK p \in pods[s] : p.done
        BY <3>1 DEF JobCompletes, OwnPods
      <4>2. p.ver = jobs[s].now.ver /\ PodData(p, s)
        BY <2>1 DEF ImportInv, PodInv
      <4> QED  BY <1>3, <3>1, <4>1, <4>2 DEF JobData, JobKept, PodData
    <3> QED  BY <1>3, <2>1, <2>5, <3>1 DEF JobData, JobKept
  <2> QED  BY <2>4, <2>6, <2>7
<1> QED  BY <1>1, <1>2, <1>3, PodsGo

\* A job that exists or existed has a resourceVersion.
LiveInv == \A s \in Slots : \A v \in Versions(jobs[s]) : v.live => v.rv # 0

\* Every step keeps it so.
LEMMA NextLive ==
    ASSUME TypeOK, TypeOK', Next, LiveInv
    PROVE  LiveInv'
<1> SUFFICES ASSUME NEW s \in Slots, NEW v \in Versions(jobs'[s]), v.live
             PROVE  v.rv # 0
  BY DEF LiveInv
<1> DEFINE o == jobs[s]
           p == jobs'[s]
<1>1. o \in Tracked(JobObj) /\ o.now.rv \in Nat
  BY DEF TypeOK, Tracked, JobObj
<1>2. Moves(o, p) /\ (p.now = o.now \/ Stores(o, p))
  <2>1. JobWritten(s) \/ Observed(o, p) \/ p = Relist(o)
    BY StepsMove
  <2> QED  BY <1>1, <2>1, NowStays DEF JobWritten, Observed, Moves
<1>3. v \in Versions(o) \/ v = p.now
  BY <1>1, <1>2, MovesVersions
<1>4. CASE v \in Versions(o)
  BY <1>4 DEF LiveInv
<1>5. CASE v = o.now
  BY <1>5 DEF LiveInv, Versions
<1>6. CASE v = p.now /\ Stores(o, p)
  BY <1>1, <1>6 DEF Stores
<1> QED  BY <1>2, <1>3, <1>4, <1>5, <1>6

-----------------------------------------------------------------------------
(***************************************************************************)
(* What a reconcile has achieved for an import: the secret is right (under *)
(* version n), the job is there or was (and one that has succeeded is the  *)
(* one for version n), and that job is rolled out.                         *)
(***************************************************************************)
SecretRight(i, n) ==
    LET x == secrets[Home(i)].now IN
    x.live /\ x.owner = i /\ x.rv = n /\ x.data = Content(imports[i].now.spec)

JobRight(i, n, b) ==
    LET j == jobs[Home(i)].now IN
    j.rv # 0 /\ (Succeeded(j, i) => j.ver = n /\ b)

RolledTo(i, n) ==
    LET ann == statefulsets[imports[i].now.spec.target].now.ann[i] IN
    ann = n \/ (ann = 0 /\ used.touches > 0)

Unready(i) == LET kc == keycloaks[imports[i].now.spec.target].seen IN
              ~(kc.live /\ kc.ready)

InPlace(i) == LET n == secrets[Home(i)].now.rv IN
              SecretRight(i, n) /\ JobRight(i, n, RolledTo(i, n))

\* An import is attended to: it is in place, it waits for its instance, or the
\* worker will take it up again.
Attended(i) == Woken(i) \/ Unready(i) \/ InPlace(i)

\* What the worker has found out about the import it works on, if its updates
\* of the resource can still succeed.
Progress ==
    Current(imports[w.key], w.cr) =>
        LET i == w.key IN
        /\ w.pc \in {"listJobs", "createJob"} =>
               Woken(i) \/ SecretRight(i, w.ver)
        /\ w.pc = "rollout" =>
               \/ Woken(i)
               \/ SecretRight(i, w.ver) /\ JobRight(i, w.ver, w.completed)
        /\ w.pc = "status" /\ w.status # "error" => Attended(i)

Busy(i) == w.key = i /\ w.pc \notin {"idle", "down"}

\* An import that reports no error and that the worker is not at is attended to.
RestInv ==
    \A i \in Imports :
        LET c == imports[i].now IN
        c.live /\ ~c.del /\ c.status # "error" /\ ~Busy(i) => Attended(i)

\* Annotations only change by a rollout of their import or with the StatefulSet.
LEMMA RolledStays ==
    ASSUME ImportInv, OrderInv, Next, NEW i \in Imports, NEW k \in Instances,
           ~(Rollout /\ w.key = i)
    PROVE  /\ \/ statefulsets'[k].now.ann[i] = statefulsets[k].now.ann[i]
              \/ statefulsets'[k].now.ann[i] = 0 /\ used'.touches > 0
           /\ used.touches > 0 => used'.touches > 0
<1>1. TypeOK
  BY DEF ImportInv
<1>2. used.touches > 0 => used'.touches > 0
  BY <1>1, TouchesStay
<1>3. CASE Rollout /\ ~UNCHANGED statefulsets
  <2> DEFINE t == w.cr.spec.target
  <2>1. /\ t \in Instances /\ w.key \in Imports
        /\ \A x \in Instances \ {t} : statefulsets'[x] = statefulsets[x]
        /\ statefulsets'[t].now.ann
              = [statefulsets[t].now.ann EXCEPT ![w.key] = w.ver]
    BY <1>3, RolloutEffect
  <2>2. i # w.key
    BY <1>3
  <2>3. statefulsets[t].now.ann \in [Imports -> Nat]
    BY <1>1, <2>1 DEF TypeOK, Tracked, StatefulSetObj
  <2>4. statefulsets'[t].now.ann[i] = statefulsets[t].now.ann[i]
    BY <2>1, <2>2, <2>3
  <2> QED  BY <1>2, <2>1, <2>4
<1>4. CASE UNCHANGED statefulsets
  BY <1>2, <1>4
<1>5. ASSUME NEW t \in Instances, WriteStatefulSet(t)
      PROVE  \/ statefulsets'[k].now.ann[i] = statefulsets[k].now.ann[i]
             \/ statefulsets'[k].now.ann[i] = 0 /\ used'.touches > 0
  BY <1>1, <1>5, WriterAnn
<1> QED  BY <1>1, <1>2, <1>3, <1>4, <1>5, OtherEffect

\* What has been achieved stays until the import is woken, and while it is woken
\* the worker will come back.
LEMMA AttendedStays ==
    ASSUME ImportInv, TypeOK', OrderInv, NewsInv, NameInv, Next,
           NEW i \in Imports, imports'[i].now.live, ~Dequeue(i)
    PROVE  /\ \A n : Woken(i) \/ SecretRight(i, n)
                        => Woken(i)' \/ SecretRight(i, n)'
           /\ \A n, b : Woken(i) \/ (SecretRight(i, n) /\ JobRight(i, n, b))
                  => Woken(i)' \/ (SecretRight(i, n)' /\ JobRight(i, n, b)')
           /\ Attended(i) /\ ~(Rollout /\ w.key = i) => Attended(i)'
<1>1. TypeOK
  BY DEF ImportInv
<1>2. CASE Woken(i)'
  BY <1>2 DEF Attended
<1>3. CASE ~Woken(i)'
  <2> DEFINE s == Home(i)
             k == imports[i].now.spec.target
  <2>1. ~Woken(i)
    BY <1>1, <1>3, WokenStays
  <2>2. /\ Same(imports[i].now, imports'[i].now)
        /\ Home(i)' = s /\ secrets'[s] = secrets[s]
        /\ keycloaks'[k] = keycloaks[k]
        /\ Content(imports[i].now.spec)' = Content(imports[i].now.spec)
        /\ jobs[s].now.rv # 0 => jobs'[s].now.rv # 0
        /\ Succeeded(jobs'[s].now, i) =>
               /\ Succeeded(jobs[s].now, i)
               /\ jobs'[s].now.ver = jobs[s].now.ver
    BY <1>1, <1>3, <2>1, Undisturbed
  <2>3. imports'[i].now.spec.target = k /\ k \in Instances
    BY <1>1, <2>2, Places DEF Same
  <2>4. ASSUME NEW n, SecretRight(i, n) PROVE SecretRight(i, n)'
    BY <2>2, <2>4 DEF SecretRight
  <2>5. ASSUME NEW n, NEW b, NEW c, JobRight(i, n, b), b => c
        PROVE  JobRight(i, n, c)'
    BY <2>2, <2>5 DEF JobRight
  <2>6. ASSUME NEW n, RolledTo(i, n), ~(Rollout /\ w.key = i)
        PROVE  RolledTo(i, n)'
    BY <1>1, <2>3, <2>6, RolledStays DEF RolledTo
  <2>7. ASSUME Attended(i), ~(Rollout /\ w.key = i) PROVE Attended(i)'
    <3>1. CASE Unready(i)
      BY <2>2, <2>3, <3>1 DEF Unready, Attended
    <3>2. CASE InPlace(i)
      <4> DEFINE n == secrets[s].now.rv
      <4>1. SecretRight(i, n) /\ JobRight(i, n, RolledTo(i, n))
        BY <3>2 DEF InPlace
      <4>2. secrets'[Home(i)'].now.rv = n
        BY <2>2
      <4> QED  BY <2>4, <2>5, <2>6, <2>7, <4>1, <4>2 DEF InPlace, Attended
    <3> QED  BY <2>1, <2>7, <3>1, <3>2 DEF Attended
  <2> QED  BY <2>1, <2>4, <2>5, <2>7
<1> QED  BY <1>2, <1>3

-----------------------------------------------------------------------------
(***************************************************************************)
(* The steps of the worker.  A step that goes on with the resource that it *)
(* holds leaves the resource alone, so that what it holds is what is       *)
(* stored.                                                                 *)
(***************************************************************************)
ConvergenceInv == /\ NewsInv /\ NameInv /\ HeldInv /\ AnnInv /\ DataInv
                  /\ LiveInv /\ Progress /\ RestInv

\* The resource that the worker holds is the stored one.
LEMMA HeldIsStored ==
    ASSUME HeldInv, NEW i, w.key = i, w.pc \notin Resting,
           Current(imports[i], w.cr)
    PROVE  /\ w.cr = imports[i].now /\ imports[i].now.live
           /\ Slot(i, w.cr.spec) = Home(i)
BY DEF HeldInv, Distinguished, Current, Home

\* The instance is not ready.
LEMMA GetKeycloakProgress ==
    ASSUME TypeOK, HeldInv, GetKeycloak, NEW i, w.key = i
    PROVE  Progress'
<1>1. /\ w.pc = "getKeycloak" /\ w.pc \notin Resting /\ w \in Worker
      /\ imports' = imports /\ keycloaks' = keycloaks
  BY DEF GetKeycloak, At, Resting, objects, TypeOK
<1>2. w'.key = i /\ w'.cr = w.cr
  BY <1>1 DEF GetKeycloak, Report, Worker
<1>3. \/ w'.pc = "secret" \/ (w'.pc = "status" /\ w'.status = "error")
      \/ LET kc == keycloaks[w.cr.spec.target].seen IN ~(kc.live /\ kc.ready)
  BY <1>1 DEF GetKeycloak, Report, Worker
<1> SUFFICES ASSUME Current(imports[i], w.cr), w'.pc = "status",
                    w'.status # "error"
             PROVE  Attended(i)'
  <2>1. w'.pc \in {"status", "secret"}
    BY <1>1 DEF GetKeycloak, Report, Worker
  <2> QED  BY <1>1, <1>2, <2>1 DEF Progress, Current
<1>4. w.cr = imports[i].now
  BY <1>1, HeldIsStored
<1>5. Unready(i)'
  BY <1>1, <1>3, <1>4 DEF Unready
<1> QED  BY <1>5 DEF Attended

\* The secret was right, or an event of it is on its way.
LEMMA ApplySecretProgress ==
    ASSUME TypeOK, HeldInv, NewsInv, ApplySecret, NEW i, w.key = i
    PROVE  Progress'
<1> DEFINE s == Slot(i, w.cr.spec)
           o == secrets[s]
           content == Content(w.cr.spec)
           same == o.seen.live /\ o.seen.owner = i /\ o.seen.data = content
           v == [o.now EXCEPT !.live = TRUE, !.owner = i, !.data = content]
<1>1. /\ w.pc = "secret" /\ w.pc \notin Resting /\ w \in Worker
      /\ imports' = imports /\ sources' = sources /\ i \in Imports
      /\ Idle.pc = "idle"
  BY DEF ApplySecret, At, Resting, TypeOK, Worker, Idle
<1>2. \/ w'.pc = "idle" \/ (w'.pc = "status" /\ w'.status = "error")
      \/ /\ w' = [w EXCEPT !.pc = "listJobs", !.ver = o.seen.rv]
         /\ same /\ UNCHANGED secrets
      \/ /\ w' = [w EXCEPT !.pc = "listJobs", !.ver = Put(o, v).now.rv]
         /\ secrets' = [secrets EXCEPT ![s] = Put(o, v)]
  BY <1>1 DEF ApplySecret, Requeue, Report, Worker
<1> SUFFICES ASSUME Current(imports[i], w.cr), NEW n, w'.ver = n,
                    w'.pc = "listJobs"
             PROVE  Woken(i)' \/ SecretRight(i, n)'
  <2> HIDE DEF v, same
  <2>1. CASE w'.pc = "idle" \/ (w'.pc = "status" /\ w'.status = "error")
    BY <2>1 DEF Progress
  <2>2. CASE w'.pc = "listJobs" /\ w'.key = i /\ w'.cr = w.cr
    BY <1>1, <2>2 DEF Progress, Current
  <2> QED  BY <1>1, <1>2, <2>1, <2>2 DEF Worker
<1>3. w.cr = imports[i].now /\ s = Home(i) /\ Home(i)' = s
  BY <1>1, HeldIsStored DEF Home
<1>4. s \in Slots /\ o \in Tracked(SecretObj) /\ Ordered(o)
      /\ secrets \in [Slots -> Tracked(SecretObj)]
  BY <1>1, SlotType DEF TypeOK, Worker, ImportObj, NewsInv
<1>5. CASE /\ w' = [w EXCEPT !.pc = "listJobs", !.ver = o.seen.rv]
           /\ same /\ UNCHANGED secrets
  <2>1. CASE o.pend # {}
    BY <1>3, <1>5, <2>1 DEF Woken
  <2>2. CASE o.pend = {}
    <3>1. o.now = o.seen
      BY <1>4, <2>2 DEF Ordered
    <3>2. n = o.seen.rv
      BY <1>1, <1>5 DEF Worker
    <3>3. Content(imports[i].now.spec)' = content
      BY <1>1, <1>3 DEF Content
    <3>4. secrets'[Home(i)'].now = o.seen
      BY <1>3, <1>5, <3>1
    <3> QED  BY <1>5, <3>2, <3>3, <3>4 DEF SecretRight
  <2> QED  BY <2>1, <2>2
<1>6. CASE secrets' = [secrets EXCEPT ![s] = Put(o, v)]
  <2>1. secrets'[s].pend # {}
    <3> HIDE DEF v
    <3>1. Put(o, v).pend # {}
      BY <1>4 DEF Put, Tracked
    <3>2. secrets'[s] = Put(o, v)
      BY <1>4, <1>6
    <3> QED  BY <3>1, <3>2
  <2> QED  BY <1>3, <2>1 DEF Woken
<1> HIDE DEF v, same
<1> QED  BY <1>2, <1>5, <1>6

\* A job that the cache shows as the one for this version is there or was, and
\* if one of this import has succeeded then the cache shows it or will tell.
LEMMA ListJobsProgress ==
    ASSUME ImportInv, TypeOK', OrderInv, ConvergenceInv, Next, ListJobs,
           NEW i, w.key = i, NEW n, w.ver = n
    PROVE  Progress'
<1> DEFINE s == Slot(i, w.cr.spec)
           o == jobs[s]
<1>1. /\ w.pc = "listJobs" /\ w.pc \notin Resting /\ w \in Worker /\ TypeOK
      /\ imports' = imports /\ i \in Imports /\ ~Dequeue(i)
  BY DEF ListJobs, Dequeue, At, Resting, ImportInv, TypeOK, Worker
<1>2. w'.key = i /\ w'.cr = w.cr /\ w'.ver = n
  BY <1>1 DEF ListJobs, Goto, Report, Worker
<1>3. \/ w'.pc = "status" /\ w'.status = "error"
      \/ w'.pc = "createJob"
      \/ /\ w'.pc = "rollout" /\ w'.completed = (o.seen.phase = "complete")
         /\ o.seen.live /\ o.seen.owner = i /\ o.seen.ver = n
         /\ UNCHANGED jobs
  BY <1>1 DEF ListJobs, Goto, Report, Worker
<1> SUFFICES ASSUME Current(imports[i], w.cr), NEW b, w'.completed = b
             PROVE  /\ Woken(i)' \/ SecretRight(i, n)'
                    /\ w'.pc = "rollout" => Woken(i)' \/ JobRight(i, n, b)'
  BY <1>1, <1>2, <1>3 DEF Progress, Current
<1>4. /\ w.cr = imports[i].now /\ s = Home(i) /\ Home(i)' = s
      /\ imports'[i].now.live
  BY <1>1, HeldIsStored DEF Home, ConvergenceInv
<1>5. Woken(i) \/ SecretRight(i, n)
  BY <1>1 DEF ConvergenceInv, Progress
<1>6. Woken(i)' \/ SecretRight(i, n)'
  BY <1>1, <1>4, <1>5, AttendedStays DEF ConvergenceInv
<1>7. ASSUME b = (o.seen.phase = "complete"), UNCHANGED jobs,
             o.seen.live, o.seen.owner = i, o.seen.ver = n, ~Woken(i)'
      PROVE  JobRight(i, n, b)'
  <2>1. /\ s \in Slots /\ o \in Tracked(JobObj) /\ Ordered(o) /\ JobTold(o)
        /\ o.seen \in Versions(o) /\ o.seen.rv # 0
    BY <1>1, <1>7, SlotType
       DEF TypeOK, Worker, ImportObj, ConvergenceInv, NewsInv, LiveInv, Versions
  <2>2. o.now.rv # 0
    <3>1. o.seen.rv <= o.now.rv /\ o.seen.rv \in Nat /\ o.now.rv \in Nat
      BY <2>1 DEF Ordered, Locked, Tracked, JobObj
    <3> QED  BY <2>1, <3>1
  <2>3. ~Completes(o, i)
    <3>1. ~Completes(jobs'[Home(i)'], i)
      BY <1>7 DEF Woken
    <3> QED  BY <1>4, <1>7, <3>1
  <2>4. ASSUME Succeeded(o.now, i)
        PROVE  o.now.ver = n /\ o.seen.phase = "complete"
    <3>1. Shows(o.seen, o.now)
      BY <2>1, <2>3, <2>4 DEF JobTold, Completes, Succeeded
    <3> QED  BY <1>7, <2>4, <3>1 DEF Shows, Succeeded
  <2>5. jobs'[Home(i)'] = o
    BY <1>4, <1>7
  <2> QED  BY <1>7, <2>2, <2>4, <2>5 DEF JobRight
<1> QED  BY <1>3, <1>6, <1>7

\* The job is created.
LEMMA CreateJobProgress ==
    ASSUME ImportInv, TypeOK', OrderInv, ConvergenceInv, Next, CreateJob,
           NEW i, w.key = i, NEW n, w.ver = n
    PROVE  Progress'
<1> DEFINE s == Slot(i, w.cr.spec)
           o == jobs[s]
<1>1. /\ w.pc = "createJob" /\ w.pc \notin Resting /\ w \in Worker /\ TypeOK
      /\ imports' = imports /\ i \in Imports /\ ~Dequeue(i)
      /\ Idle.pc = "idle"
  BY DEF CreateJob, Dequeue, At, Resting, ImportInv, TypeOK, Worker, Idle
<1>2. \/ w'.pc = "idle"
      \/ /\ w'.pc = "status" /\ w'.key = i /\ w'.cr = w.cr
         /\ jobs' = [jobs EXCEPT ![s] = Put(o, NewJob(o))]
  BY <1>1 DEF CreateJob, Requeue, Report, Worker
<1> SUFFICES ASSUME Current(imports[i], w.cr),
                    jobs' = [jobs EXCEPT ![s] = Put(o, NewJob(o))]
             PROVE  Attended(i)'
  BY <1>1, <1>2 DEF Progress, Current
<1>3. /\ w.cr = imports[i].now /\ s = Home(i) /\ Home(i)' = s
      /\ imports'[i].now.live
  BY <1>1, HeldIsStored DEF Home, ConvergenceInv
<1>4. Woken(i) \/ SecretRight(i, n)
  BY <1>1 DEF ConvergenceInv, Progress
<1>5. Woken(i)' \/ SecretRight(i, n)'
  BY <1>1, <1>3, <1>4, AttendedStays DEF ConvergenceInv
<1>6. jobs'[s].now.rv # 0 /\ jobs'[s].now.phase = "active"
  <2>1. s \in Slots /\ jobs \in [Slots -> Tracked(JobObj)]
    BY <1>1, SlotType DEF TypeOK, Worker, ImportObj
  <2>2. o \in Tracked(JobObj) /\ o.now.rv \in Nat
    BY <2>1 DEF Tracked, JobObj
  <2>3. Put(o, NewJob(o)).now = [NewJob(o) EXCEPT !.rv = o.now.rv + 1]
    BY <2>2, PutNow
  <2>4. /\ Put(o, NewJob(o)).now.rv = o.now.rv + 1
        /\ Put(o, NewJob(o)).now.phase = "active"
    BY <2>3 DEF NewJob
  <2>5. jobs'[s] = Put(o, NewJob(o))
    BY <2>1
  <2> QED  BY <2>2, <2>4, <2>5
<1>7. \A x, b : JobRight(i, x, b)'
  BY <1>3, <1>6 DEF JobRight, Succeeded
<1>8. SecretRight(i, n)' => InPlace(i)'
  BY <1>7 DEF SecretRight, InPlace
<1> QED  BY <1>5, <1>8 DEF Attended

\* The StatefulSet carries the version, or is annotated with it.
LEMMA RolloutProgress ==
    ASSUME ImportInv, TypeOK', OrderInv, ConvergenceInv, Next, Rollout,
           NEW i, w.key = i, NEW n, w.ver = n, NEW b, w.completed = b
    PROVE  Progress'
<1> DEFINE s == Slot(i, w.cr.spec)
           k == w.cr.spec.target
           o == statefulsets[k]
           v == [w.sts EXCEPT !.ann[i] = n]
<1>1. /\ w.pc = "rollout" /\ w.pc \notin Resting /\ w \in Worker /\ TypeOK
      /\ imports' = imports /\ used' = used /\ i \in Imports /\ ~Dequeue(i)
      /\ Idle.pc = "idle"
  BY DEF Rollout, Dequeue, At, Resting, ImportInv, TypeOK, Worker, Idle
<1>2. \/ w'.pc = "idle"
      \/ /\ w'.pc = "status" /\ w'.key = i /\ w'.cr = w.cr
         /\ \/ ~RolloutDue /\ UNCHANGED statefulsets
            \/ statefulsets' = [statefulsets EXCEPT ![k] = Put(o, v)]
  BY <1>1 DEF Rollout, Requeue, Report, Worker
<1> SUFFICES ASSUME Current(imports[i], w.cr),
                    \/ ~RolloutDue /\ UNCHANGED statefulsets
                    \/ statefulsets' = [statefulsets EXCEPT ![k] = Put(o, v)]
             PROVE  Attended(i)'
  <2> HIDE DEF v
  <2> QED  BY <1>1, <1>2 DEF Progress, Current
<1>3. /\ w.cr = imports[i].now /\ s = Home(i) /\ Home(i)' = s
      /\ imports'[i].now.live
  BY <1>1, HeldIsStored DEF Home, ConvergenceInv
<1>4. Woken(i) \/ (SecretRight(i, n) /\ JobRight(i, n, b))
  BY <1>1 DEF ConvergenceInv, Progress
<1>5. Woken(i)' \/ (SecretRight(i, n)' /\ JobRight(i, n, b)')
  BY <1>1, <1>3, <1>4, AttendedStays DEF ConvergenceInv
<1>6. /\ k \in Instances /\ s = <<NamespaceOf[k], NameOf[i]>> /\ s \in Slots
      /\ statefulsets \in [Instances -> Tracked(StatefulSetObj)]
      /\ o \in Tracked(StatefulSetObj) /\ w.sts \in StatefulSetObj
      /\ n \in Nat
  BY <1>1, SlotType DEF TypeOK, Worker, ImportObj, Slot
<1>7. ASSUME SecretRight(i, n)', b PROVE RolledTo(i, n)'
  <2>1. CASE ~RolloutDue /\ UNCHANGED statefulsets
    <3>1. w.sts.ann[i] = n
      BY <1>7, <2>1 DEF RolloutDue
    <3>2. Surpassed(w.sts.ann[i], o.now.ann[i], used.touches)
      BY <1>1 DEF ConvergenceInv, AnnInv, Critical, Outdone
    <3>3. /\ o.now.ann[i] <= secrets[s].seen.rv
          /\ secrets[s].seen.rv <= secrets[s].now.rv
      BY <1>1, <1>6 DEF OrderInv, AnnotationsSeen, CacheOrder, Versions
    <3>4. secrets[s].now.rv = n
      <4>1. secrets' = secrets
        BY DEF Rollout
      <4> QED  BY <1>3, <1>7, <4>1 DEF SecretRight
    <3>5. o.now.ann[i] \in Nat /\ secrets[s].seen.rv \in Nat
      BY <1>1, <1>6 DEF TypeOK, Tracked, StatefulSetObj, SecretObj
    <3>6. o.now.ann[i] = n \/ (o.now.ann[i] = 0 /\ used.touches > 0)
      <4>1. n <= o.now.ann[i] \/ (o.now.ann[i] = 0 /\ used.touches > 0)
        BY <3>1, <3>2 DEF Surpassed
      <4>2. o.now.ann[i] <= n
        BY ONLY <1>6, <3>3, <3>4, <3>5
      <4>3. o.now.ann[i] = n \/ ~(n <= o.now.ann[i])
        BY ONLY <1>6, <3>5, <4>2
      <4> QED  BY <4>1, <4>3
    <3>7. statefulsets'[imports'[i].now.spec.target] = o
      BY <1>1, <1>3, <2>1
    <3> QED  BY <1>1, <3>6, <3>7 DEF RolledTo
  <2>2. CASE statefulsets' = [statefulsets EXCEPT ![k] = Put(o, v)]
    <3>1. v \in StatefulSetObj /\ v.ann[i] = n
      BY <1>1, <1>6 DEF StatefulSetObj
    <3> HIDE DEF v
    <3>2. Put(o, v).now = [v EXCEPT !.rv = o.now.rv + 1]
      BY <1>6, PutNow
    <3>3. Put(o, v).now.ann[i] = n
      BY <3>1, <3>2 DEF StatefulSetObj
    <3>4. statefulsets'[imports'[i].now.spec.target] = Put(o, v)
      BY <1>1, <1>3, <1>6, <2>2
    <3> QED  BY <3>3, <3>4 DEF RolledTo
  <2> HIDE DEF v
  <2> QED  BY <2>1, <2>2
<1>8. SecretRight(i, n)' /\ JobRight(i, n, b)' => InPlace(i)'
  <2> SUFFICES ASSUME SecretRight(i, n)', JobRight(i, n, b)'
               PROVE  InPlace(i)'
    OBVIOUS
  <2>1. secrets'[Home(i)'].now.rv = n
    BY DEF SecretRight
  <2>2. b => RolledTo(i, n)'
    BY <1>7
  <2>3. \A c : (b => c) => JobRight(i, n, c)'
    BY DEF JobRight
  <2> QED  BY <2>1, <2>2, <2>3 DEF InPlace
<1> QED  BY <1>5, <1>8 DEF Attended

\* Steps of others: the resource that the worker holds is not the stored one any
\* more, or it has not been written, and what the worker has found out stays.
LEMMA QuietProgress ==
    ASSUME ImportInv, TypeOK', OrderInv, ConvergenceInv, Next, w' = w
    PROVE  Progress'
<1> DEFINE Claiming == {"listJobs", "createJob", "rollout", "status"}
<1> SUFFICES ASSUME NEW i, w.key = i, Current(imports'[i], w.cr),
                    w.pc \in Claiming
             PROVE  /\ w.pc \in {"listJobs", "createJob"} =>
                           Woken(i)' \/ SecretRight(i, w.ver)'
                    /\ w.pc = "rollout" =>
                           \/ Woken(i)'
                           \/ /\ SecretRight(i, w.ver)'
                              /\ JobRight(i, w.ver, w.completed)'
                    /\ w.pc = "status" /\ w.status # "error" => Attended(i)'
  BY DEF Progress, Current
<1>1. /\ w.pc \notin Resting /\ TypeOK /\ i \in Imports /\ ~Dequeue(i)
  BY DEF Resting, Dequeue, At, ImportInv, TypeOK, Worker
<1>2. ~(Rollout /\ w.key = i)
  <2>1. w \in Worker /\ Idle.pc = "idle"
    BY <1>1 DEF TypeOK, Idle
  <2>2. Rollout => w'.pc \in {"status", "idle"} /\ w.pc = "rollout"
    BY <2>1 DEF Rollout, Report, Requeue, At, Worker
  <2> QED  BY <2>2
<1>3. /\ imports[i] \in Tracked(ImportObj)
      /\ imports[i].now.rv \in Nat /\ w.cr.rv \in Nat
      /\ Distinguished(w.cr, imports[i])
  BY <1>1 DEF TypeOK, Tracked, ImportObj, Worker, ConvergenceInv, HeldInv
<1>4. imports'[i].now = imports[i].now \/ Stores(imports[i], imports'[i])
  BY <1>1, <1>3, StepsMove, NowStays DEF Written, Observed
<1>5. Current(imports[i], w.cr) /\ imports'[i].now.live
  BY <1>3, <1>4 DEF Current, Stores, Distinguished
<1>6. Progress
  BY DEF ConvergenceInv
<1> USE <1>1, <1>5, AttendedStays DEF ConvergenceInv
<1>7. CASE w.pc \in {"listJobs", "createJob"}
  <2>1. Woken(i) \/ SecretRight(i, w.ver)
    BY <1>6, <1>7 DEF Progress
  <2> QED  BY <1>7, <2>1
<1>8. CASE w.pc = "rollout"
  <2>1. \/ Woken(i)
        \/ SecretRight(i, w.ver) /\ JobRight(i, w.ver, w.completed)
    BY <1>6, <1>8 DEF Progress
  <2> QED  BY <1>8, <2>1
<1>9. CASE w.pc = "status"
  <2>1. w.status # "error" => Attended(i)
    BY <1>6, <1>9 DEF Progress
  <2> QED  BY <1>2, <1>9, <2>1
<1> QED  BY <1>7, <1>8, <1>9

\* Every step keeps what the worker has found out.
LEMMA NextProgress ==
    ASSUME ImportInv, TypeOK', OrderInv, ConvergenceInv, Next
    PROVE  Progress'
<1> DEFINE Claiming == {"listJobs", "createJob", "rollout", "status"}
<1>1. /\ TypeOK /\ w \in Worker /\ Idle.pc = "idle" /\ Down.pc = "down"
      /\ HeldInv /\ NewsInv
  BY DEF ImportInv, TypeOK, Idle, Down, ConvergenceInv
<1>2. CASE w' = w
  BY <1>2, QuietProgress
<1>3. CASE w'.pc \notin Claiming
  BY <1>3 DEF Progress
<1>4. CASE GetKeycloak \/ ApplySecret \/ ListJobs \/ CreateJob \/ Rollout
  BY <1>1, <1>4, GetKeycloakProgress, ApplySecretProgress, ListJobsProgress,
     CreateJobProgress, RolloutProgress
<1>5. CASE \/ GetImport \/ CleanJobs \/ CleanSecrets \/ UpdateStatus
           \/ \E i \in Imports : Dequeue(i)
  <2>1. w'.pc \notin Claiming
    BY <1>1, <1>5 DEF GetImport, CleanJobs, CleanSecrets, UpdateStatus, Dequeue,
                      Done, Requeue, Goto, Branch, Worker
  <2> QED  BY <1>3, <2>1
<1>6. CASE RemoveFinalizer \/ AddFinalizer
  <2>1. \/ w' = Idle
        \/ \E c : \/ w' = [w EXCEPT !.pc = "addFinalizer", !.cr = c]
                  \/ w' = [w EXCEPT !.pc = "getKeycloak", !.cr = c]
    BY <1>6 DEF RemoveFinalizer, AddFinalizer, Requeue
  <2>2. w'.pc \notin Claiming
    BY <1>1, <2>1 DEF Worker
  <2> QED  BY <1>3, <2>2
<1>7. CASE Restart \/ Relaunch
  <2>1. w'.pc \notin Claiming
    BY <1>1, <1>7 DEF Restart, Relaunch, Start
  <2> QED  BY <1>3, <2>1
<1>8. CASE Watch
  <2>1. \A A, B : handleSecretChanged(A, B) => w' = w \/ w'.pc = "down"
    BY <1>1 DEF handleSecretChanged
  <2>2. w' = w \/ w'.pc = "down"
    BY <1>8, <2>1 DEF Watch, ObserveImport, ObserveKeycloak,
                      ObserveStatefulSet, ObserveSecret, ObserveJob,
                      ObserveSource
  <2>3. w'.pc = "down" => w'.pc \notin Claiming
    OBVIOUS
  <2> QED  BY <1>2, <1>3, <2>2, <2>3
<1>9. CASE User \/ InstanceWriter \/ \E s \in Slots : JobController(s)
  BY <1>2, <1>9 DEF User, InstanceWriter, JobController, CreateImport,
         EditImport, DeleteImport, ReleaseImport, EditSource, UserVars,
         WriteKeycloak, WriteStatefulSet, StartPod, PodSucceeds, JobCompletes,
         PodFails, KillPod, JobGone
<1> QED  BY <1>4, <1>5, <1>6, <1>7, <1>8, <1>9 DEF Next, Reconcile

\* How the worker leaves an import: its key is queued, the process ends or
\* starts, GetImport finds nothing to do, or the status is written.
LEMMA WorkerLeaves ==
    ASSUME TypeOK, Next, NEW i \in Imports, Busy(i), ~Busy(i)'
    PROVE  \/ Start \/ i \in queue' \/ At("down")'
           \/ /\ GetImport /\ imports' = imports
              /\ ~imports[i].seen.live \/ imports[i].seen.del
           \/ /\ UpdateStatus /\ Current(imports[i], w.cr)
              /\ imports'[i].now.status = w.status
<1>1. /\ w \in Worker /\ w.key = i /\ w.pc \notin {"idle", "down"}
      /\ Idle.pc = "idle" /\ Down.pc = "down"
  BY DEF TypeOK, Busy, Idle, Down
<1>2. w' # w
  BY DEF Busy
<1>3. Requeue => i \in queue'
  BY <1>1 DEF Requeue
<1>4. w'.key = i => w'.pc \in {"idle", "down"}
  BY DEF Busy
<1>5. ~Goto("cleanSecrets") /\ ~Goto("removeFinalizer") /\ ~Goto("createJob")
      /\ (\A st : ~Report(st))
  BY <1>1, <1>4 DEF Goto, Report, Worker
<1>6. CASE CleanJobs \/ CleanSecrets \/ CreateJob \/ Rollout
  BY <1>3, <1>5, <1>6 DEF CleanJobs, CleanSecrets, CreateJob, Rollout
<1>7. CASE GetImport
  <2>1. \A c : w' # [w EXCEPT !.cr = c, !.pc = Branch(c)]
    BY <1>1, <1>4 DEF Branch, Worker
  <2> QED  BY <1>1, <1>7, <2>1 DEF GetImport, objects
<1>8. ~GetKeycloak /\ ~ListJobs
  BY <1>1, <1>4 DEF GetKeycloak, ListJobs, Report, Goto, Worker
<1>9. CASE ApplySecret
  <2>1. \A n : w' # [w EXCEPT !.pc = "listJobs", !.ver = n]
    BY <1>1, <1>4 DEF Worker
  <2> QED  BY <1>3, <1>5, <1>9, <2>1 DEF ApplySecret
<1>10. CASE RemoveFinalizer \/ AddFinalizer
  <2>1. \A c : /\ w' # [w EXCEPT !.pc = "addFinalizer", !.cr = c]
               /\ w' # [w EXCEPT !.pc = "getKeycloak", !.cr = c]
    BY <1>1, <1>4 DEF Worker
  <2> QED  BY <1>3, <1>10, <2>1 DEF RemoveFinalizer, AddFinalizer
<1>11. CASE UpdateStatus
  <2> DEFINE o == imports[i]
             v == [o.now EXCEPT !.status = w.status]
  <2>1. \/ Requeue
        \/ Current(o, w.cr) /\ imports' = [imports EXCEPT ![i] = Put(o, v)]
    BY <1>1, <1>11 DEF UpdateStatus
  <2>2. /\ imports \in [Imports -> Tracked(ImportObj)] /\ o \in Tracked(ImportObj)
        /\ o.now \in ImportObj
    BY DEF TypeOK, Tracked
  <2>3. v \in ImportObj /\ v.status = w.status
    BY <1>1, <2>2 DEF ImportObj, Worker
  <2> HIDE DEF v
  <2>4. Put(o, v).now = [v EXCEPT !.rv = o.now.rv + 1]
    BY <2>2, PutNow
  <2>5. Put(o, v).now.status = w.status
    BY <2>3, <2>4 DEF ImportObj
  <2> QED  BY <1>3, <1>11, <2>1, <2>2, <2>5
<1>12. ASSUME NEW j \in Imports, Dequeue(j) PROVE FALSE
  BY <1>1, <1>12 DEF Dequeue, At
<1>13. CASE Watch
  <2>1. \A A, B : handleSecretChanged(A, B) => w' = w \/ w'.pc = "down"
    BY <1>1 DEF handleSecretChanged
  <2>2. w' = w \/ w'.pc = "down"
    BY <1>13, <2>1 DEF Watch, ObserveImport, ObserveKeycloak,
                       ObserveStatefulSet, ObserveSecret, ObserveJob,
                       ObserveSource
  <2> QED  BY <1>2, <2>2 DEF At
<1>14. CASE Restart \/ Relaunch
  BY <1>14 DEF Restart, Relaunch
<1>15. CASE User \/ InstanceWriter \/ \E s \in Slots : JobController(s)
  BY <1>2, <1>15 DEF User, InstanceWriter, JobController, CreateImport,
         EditImport, DeleteImport, ReleaseImport, EditSource, UserVars,
         WriteKeycloak, WriteStatefulSet, StartPod, PodSucceeds, JobCompletes,
         PodFails, KillPod, JobGone
<1> QED  BY <1>6, <1>7, <1>8, <1>9, <1>10, <1>11, <1>12, <1>13, <1>14, <1>15
            DEF Next, Reconcile

\* Every step keeps the imports that the worker is not at attended to.
LEMMA NextRest ==
    ASSUME ImportInv, TypeOK', OrderInv, ConvergenceInv, Next
    PROVE  RestInv'
<1> SUFFICES ASSUME NEW i \in Imports, imports'[i].now.live,
                    ~imports'[i].now.del, imports'[i].now.status # "error",
                    ~Busy(i)'
             PROVE  Attended(i)'
  BY DEF RestInv
<1>1. TypeOK /\ NewsInv /\ NameInv /\ HeldInv /\ RestInv /\ Progress
  BY DEF ImportInv, ConvergenceInv
<1>2. CASE Start \/ i \in queue' \/ At("down")'
  BY <1>1, <1>2, StartWakes DEF Attended, Woken
<1>3. ~Dequeue(i)
  <2>1. w \in Worker
    BY <1>1 DEF TypeOK
  <2>2. Dequeue(i) => w'.pc = "get" /\ w'.key = i
    BY <2>1 DEF Dequeue, Worker
  <2> QED  BY <2>2 DEF Busy
<1>4. CASE Busy(i)
  <2>1. CASE /\ GetImport /\ imports' = imports
             /\ ~imports[i].seen.live \/ imports[i].seen.del
    <3>1. Woken(i)
      <4>1. ~Same(imports[i].seen, imports[i].now)
        BY <2>1 DEF Same
      <4> QED  BY <1>1, <4>1, KnownAsIs DEF Woken
    <3> QED  BY <1>1, <1>3, <3>1, WokenStays DEF Attended
  <2>2. CASE /\ UpdateStatus /\ Current(imports[i], w.cr)
             /\ imports'[i].now.status = w.status
    <3>1. w.pc = "status" /\ w.key = i /\ ~Rollout
      BY <1>4, <2>2 DEF UpdateStatus, Rollout, At, Busy
    <3>2. Attended(i)
      BY <1>1, <2>2, <3>1 DEF Progress
    <3> QED  BY <1>1, <1>3, <3>1, <3>2, AttendedStays
  <2> QED  BY <1>1, <1>2, <1>4, <2>1, <2>2, WorkerLeaves
<1>5. CASE ~Busy(i) /\ ~Start
  <2> DEFINE c == imports[i].now
             d == imports'[i].now
  <2>1. CASE c.live /\ ~c.del /\ c.status # "error"
    <3>1. Attended(i)
      BY <1>1, <1>5, <2>1 DEF RestInv
    <3>2. ~(Rollout /\ w.key = i)
      BY <1>5 DEF Rollout, At, Busy
    <3> QED  BY <1>1, <1>3, <3>1, <3>2, AttendedStays
  <2>2. CASE ~(c.live /\ ~c.del /\ c.status # "error")
    <3>1. ~(Same(c, d) /\ d.status = c.status) /\ d # c
      BY <2>2 DEF Same
    <3>2. Writes
      <4>1. Watch => Delivered(imports[i], imports'[i])
        BY <1>1, WatchDelivers
      <4>2. imports[i] \in Tracked(ImportObj)
        BY <1>1 DEF TypeOK
      <4>3. ~Watch
        BY <3>1, <4>1, <4>2, NowStays DEF Delivered, Observed
      <4> QED  BY <1>1, <1>5, <4>3, StepKinds
    <3>3. ImportWritten(i)
      BY <3>2 DEF Writes
    <3>4. ~(At("status") /\ w.key = i)
      BY <1>5 DEF At, Busy
    <3>5. ~Same(c, d)
      BY <3>1, <3>3, <3>4 DEF ImportWritten
    <3>6. Wakes(imports'[i])
      BY <1>1, <3>3, <3>5, WriteTells
    <3> QED  BY <3>6 DEF Woken, Attended
  <2> QED  BY <2>1, <2>2
<1> QED  BY <1>2, <1>4, <1>5

-----------------------------------------------------------------------------
(***************************************************************************)
(* The invariant holds at first, every step keeps it, and at rest it says  *)
(* that the imports are settled.                                           *)
(***************************************************************************)

\* At first there is nothing to attend to.
LEMMA InitConvergence == Init => ConvergenceInv
<1> SUFFICES ASSUME Init PROVE ConvergenceInv
  OBVIOUS
<1>1. TypeOK /\ NewsInv /\ w = Idle
  BY InitType, InitNews DEF Init
<1>2. \A v : Versions(InSync(v)) = {v} /\ InSync(v).now = v
  BY DEF InSync, Versions
<1>3. NameInv
  BY <1>2 DEF Init, NameInv, NoSecret
<1>4. HeldInv /\ Progress
  BY <1>1 DEF HeldInv, Progress, Idle, Resting
<1>5. AnnInv
  <2>1. w.pc \notin Critical
    BY <1>1 DEF Idle, Critical
  <2>2. ASSUME NEW k \in Instances, NEW v \in Versions(statefulsets[k])
        PROVE  Outdone(v, statefulsets[k], used.touches)
    <3>1. v = statefulsets[k].now
      <4> PICK kc \in [Instances -> [live: BOOLEAN, rv: {0}, ready: BOOLEAN]] :
             statefulsets = [x \in Instances |->
                 InSync([NoStatefulSet EXCEPT !.live = kc[x].live])]
        BY DEF Init
      <4> QED  BY <1>2, <2>2
    <3>2. \A i \in Imports : v.ann[i] \in Nat
      BY <1>1, <2>2, VersionTypes DEF TypeOK
    <3> QED  BY <3>1, <3>2 DEF Outdone, Surpassed
  <2> QED  BY <2>1, <2>2 DEF AnnInv
<1>6. DataInv /\ LiveInv
  <2>1. \A s \in Slots : /\ pods[s] = {} /\ jobs[s].now = NoJob
                        /\ Versions(jobs[s]) = {NoJob}
    BY <1>2 DEF Init
  <2>2. \A s \in Slots, k \in Instances : realms[s][k].rv = 0
    BY DEF Init, NoRealm
  <2>3. NoJob.phase # "complete" /\ ~NoJob.live
    BY DEF NoJob
  <2>4. DataInv
    BY <2>1, <2>2, <2>3 DEF DataInv, RealmData, JobData
  <2>5. LiveInv
    BY <2>1, <2>3 DEF LiveInv
  <2> QED  BY <2>4, <2>5
<1>7. RestInv
  BY <1>2 DEF Init, RestInv, NoImport
<1> QED  BY <1>1, <1>3, <1>4, <1>5, <1>6, <1>7 DEF ConvergenceInv

\* Every step keeps the invariant.
LEMMA NextConvergence ==
    ASSUME ImportInv, OrderInv, ConvergenceInv, [Next]_vars
    PROVE  ConvergenceInv'
<1>1. ImportInv'
  BY NextInv
<1>2. TypeOK /\ TypeOK'
  BY <1>1 DEF ImportInv
<1>3. CASE Next
  <2>1. NewsInv'
    BY <1>2, <1>3, NextNews DEF ConvergenceInv
  <2>2. NameInv' /\ HeldInv' /\ AnnInv' /\ DataInv' /\ LiveInv'
    BY <1>1, <1>2, <1>3, <2>1, NextName, NextHeld, NextAnn, NextData, NextLive
       DEF ConvergenceInv
  <2>3. Progress' /\ RestInv'
    BY <1>2, <1>3, NextProgress, NextRest
  <2> QED  BY <2>1, <2>2, <2>3 DEF ConvergenceInv
<1>4. CASE UNCHANGED vars
  <2> USE <1>4 DEF vars, objects
  <2>1. NewsInv' /\ NameInv' /\ HeldInv' /\ AnnInv'
    BY DEF ConvergenceInv, NewsInv, NameInv, HeldInv, AnnInv
  <2>2. DataInv' /\ LiveInv'
    BY DEF ConvergenceInv, DataInv, PodData, RealmData, JobData, LiveInv
  <2>3. \A i : /\ Home(i)' = Home(i) /\ Woken(i)' = Woken(i)
               /\ Busy(i)' = Busy(i) /\ Unready(i)' = Unready(i)
    BY DEF Home, Woken, Busy, Unready, At
  <2>4. \A i, n, b : /\ SecretRight(i, n)' = SecretRight(i, n)
                     /\ JobRight(i, n, b)' = JobRight(i, n, b)
                     /\ RolledTo(i, n)' = RolledTo(i, n)
    BY <2>3 DEF SecretRight, JobRight, RolledTo, Content
  <2>5. \A i : Attended(i)' = Attended(i)
    BY <2>3, <2>4 DEF Attended, InPlace
  <2>6. Progress' /\ RestInv'
    BY <2>3, <2>4, <2>5 DEF ConvergenceInv, Progress, RestInv
  <2> QED  BY <2>1, <2>2, <2>6 DEF ConvergenceInv
<1> QED  BY <1>3, <1>4

\* At rest no import is woken, so that one that is attended to and whose instance
\* is ready is in place; and then the database holds what the secret holds.
LEMMA RestIsSettled ==
    ASSUME ImportInv, ConvergenceInv
    PROVE  NoLostWakeup
<1> SUFFICES ASSUME Quiescent, NEW i \in Imports,
                    imports[i].now.live, ~imports[i].now.del,
                    imports[i].now.status # "error",
                    keycloaks[imports[i].now.spec.target].now.live,
                    keycloaks[imports[i].now.spec.target].now.ready
             PROVE  Settled(i)
  BY DEF NoLostWakeup
<1> DEFINE s == Home(i)
           k == imports[i].now.spec.target
           n == secrets[s].now.rv
           j == jobs[s].now
<1>1. /\ s \in Slots /\ k \in Instances
      /\ imports[i].now.spec.refs \subseteq Sources
  BY Places DEF ImportInv
<1>2. /\ w.pc = "idle" /\ i \notin queue /\ imports[i].pend = {}
      /\ keycloaks[k].pend = {} /\ secrets[s].pend = {} /\ jobs[s].pend = {}
      /\ \A x \in imports[i].now.spec.refs : sources[x].pend = {}
  BY <1>1 DEF Quiescent, At
<1>3. ~Woken(i)
  BY <1>2 DEF Woken, Wakes, Completes, Follows, At
<1>4. ~Unready(i)
  <2>1. Ordered(keycloaks[k])
    BY <1>1 DEF ConvergenceInv, NewsInv
  <2>2. keycloaks[k].seen = keycloaks[k].now
    BY <1>2, <2>1 DEF Ordered
  <2> QED  BY <2>2 DEF Unready
<1>5. SecretRight(i, n) /\ JobRight(i, n, RolledTo(i, n))
  <2>1. Attended(i)
    BY <1>2 DEF ConvergenceInv, RestInv, Busy
  <2> QED  BY <1>3, <1>4, <2>1 DEF Attended, InPlace
<1>6. ASSUME j.live, j.owner = i, j.phase = "complete"
      PROVE  /\ j.ver = n /\ RolledTo(i, n)
             /\ j.override => realms[s][j.into].data = secrets[s].now.data
  <2>1. j.ver = n /\ RolledTo(i, n)
    BY <1>5, <1>6 DEF JobRight, Succeeded
  <2>2. ASSUME j.override
        PROVE  realms[s][j.into].data = secrets[s].now.data
    <3> DEFINE r == realms[s][j.into]
    <3>1. /\ j.into \in Instances /\ r.rv \in Nat /\ n \in Nat
      BY <1>1 DEF ImportInv, TypeOK, Tracked, JobObj, SecretObj
    <3>2. r.rv <= n
      BY <1>1, <3>1, Numbers DEF Covered
    <3>3. r.rv >= n
      BY <1>1, <1>6, <2>1, <2>2 DEF ConvergenceInv, DataInv, JobData
    <3>4. n # 0
      BY <1>1, <1>5 DEF ImportInv, SecretInv, SecretRight, Versions
    <3>5. r.rv = n
      BY ONLY <3>1, <3>2, <3>3
    <3>6. RealmData(s)
      BY <1>1 DEF ConvergenceInv, DataInv
    <3> QED  BY <3>1, <3>4, <3>5, <3>6 DEF RealmData
  <2> QED  BY <2>1, <2>2
<1>7. s = Slot(i, imports[i].now.spec)
  BY DEF Home
<1> HIDE DEF s
<1> QED  BY <1>5, <1>6, <1>7 DEF Settled, SecretRight, JobRight, RolledTo, s

\* Whatever the caches showed, whoever else writes and however often the process
\* is started anew: when everything has come to rest, every import that reports
\* no error and whose instance is ready is settled.
THEOREM NoChangeMissed == Spec => []NoLostWakeup
<1>1. Init => ConvergenceInv
  BY InitConvergence
<1>2. ImportInv /\ OrderInv /\ ConvergenceInv /\ [Next]_vars => ConvergenceInv'
  BY NextConvergence
<1>3. ImportInv /\ ConvergenceInv => NoLostWakeup
  BY RestIsSettled
<1> QED  BY <1>1, <1>2, <1>3, Invariance, Order, PTL DEF Spec
=============================================================================
