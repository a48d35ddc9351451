-------------------------- MODULE RealmImportProofs -------------------------
(***************************************************************************)
(* Theorems about the KeycloakImport controller.                           *)
(***************************************************************************)
EXTENDS RealmImport, InformerProofs

\* The values that stand for absent objects, the idle worker and the ended one.
LEMMA Absent ==
    /\ SomeImport \in Imports /\ SomeSpec \in Specs
    /\ NoImport \in ImportObj /\ NoStatefulSet \in StatefulSetObj
    /\ NoSecret \in SecretObj /\ NoJob \in JobObj
    /\ Idle \in Worker /\ Down \in Worker
<1>1. SomeImport \in Imports /\ SomeSpec \in Specs
  BY ConstantsAssumption DEF SomeImport, SomeSpec
<1>2. /\ NoImport \in ImportObj /\ NoStatefulSet \in StatefulSetObj
      /\ NoSecret \in SecretObj
  BY <1>1 DEF NoImport, ImportObj, NoStatefulSet, StatefulSetObj, NoSecret,
              SecretObj, Status
<1>3. NoJob \in JobObj
  BY <1>1, ConstantsAssumption DEF NoJob, JobObj, Overrides, ImportSpec
<1>4. Idle \in Worker
  BY <1>1, <1>2 DEF Idle, Worker, Steps, Status
<1>5. Down \in Worker
  BY <1>4 DEF Down, Worker, Steps
<1> QED  BY <1>1, <1>2, <1>3, <1>4, <1>5

\* The initial states are of the right type.
LEMMA InitType == Init => TypeOK
<1> SUFFICES ASSUME Init PROVE TypeOK
  OBVIOUS
<1>1. imports \in [Imports -> Tracked(ImportObj)]
  BY Absent, InSyncType DEF Init
<1>2. /\ keycloaks \in [Instances -> Tracked(KeycloakObj)]
      /\ statefulsets \in [Instances -> Tracked(StatefulSetObj)]
  <2> PICK kc \in [Instances -> [live: BOOLEAN, rv: {0}, ready: BOOLEAN]] :
         /\ keycloaks = [k \in Instances |-> InSync(kc[k])]
         /\ statefulsets = [k \in Instances |->
                InSync([NoStatefulSet EXCEPT !.live = kc[k].live])]
    BY DEF Init
  <2>1. \A k \in Instances : kc[k] \in KeycloakObj
    BY DEF KeycloakObj
  <2>2. \A k \in Instances :
           [NoStatefulSet EXCEPT !.live = kc[k].live] \in StatefulSetObj
    BY Absent DEF StatefulSetObj
  <2> QED  BY <2>1, <2>2, InSyncType
<1>3. secrets \in [Slots -> Tracked(SecretObj)]
  BY Absent, InSyncType DEF Init
<1>4. jobs \in [Slots -> Tracked(JobObj)]
  BY Absent, InSyncType DEF Init
<1>5. sources \in [Sources -> Tracked(SourceObj)]
  <2> PICK val \in [Sources -> Values \cup {NoValue}] :
         sources = [s \in Sources |->
             InSync([live |-> val[s] # NoValue, rv |-> 0, val |-> val[s]])]
    BY DEF Init
  <2>1. \A s \in Sources :
           [live |-> val[s] # NoValue, rv |-> 0, val |-> val[s]] \in SourceObj
    BY DEF SourceObj
  <2> QED  BY <2>1, InSyncType
<1>6. /\ pods \in [Slots -> SUBSET PodObj]
      /\ realms \in [Slots -> [Instances -> [rv: Nat, data: Data \cup {NoValue}]]]
      /\ queue \subseteq Imports /\ w \in Worker
      /\ used \in [edits: Nat, deletes: Nat, touches: Nat, crashes: Nat]
  BY Absent DEF Init, NoRealm
<1> QED  BY <1>1, <1>2, <1>3, <1>4, <1>5, <1>6 DEF TypeOK

-----------------------------------------------------------------------------
(***************************************************************************)
(* Type correctness.                                                       *)
(***************************************************************************)

\* The slot an import writes to exists.
LEMMA SlotType ==
    ASSUME NEW i \in Imports, NEW spec \in Specs
    PROVE  /\ Slot(i, spec) \in Slots /\ spec.target \in Instances
           /\ Slot(i, spec)[1] = NamespaceOf[spec.target]
           /\ spec.json \in Jsons /\ spec.override \in Overrides
BY ConstantsAssumption DEF Slot, Slots, ImportSpec, Overrides

\* How a step ends: the worker and the queue keep their types.
LEMMA EndType ==
    ASSUME TypeOK
    PROVE  /\ Done => w' \in Worker /\ queue' \subseteq Imports
           /\ Requeue => w' \in Worker /\ queue' \subseteq Imports
           /\ \A pc \in Steps : Goto(pc) => w' \in Worker
           /\ \A st \in Status : Report(st) => w' \in Worker
<1>1. Idle \in Worker /\ w \in Worker /\ queue \subseteq Imports
      /\ w.key \in Imports
  BY Absent DEF TypeOK, Worker
<1>2. /\ Done => w' \in Worker /\ queue' \subseteq Imports
      /\ Requeue => w' \in Worker /\ queue' \subseteq Imports
  BY <1>1 DEF Done, Requeue
<1>3. ASSUME NEW pc \in Steps, Goto(pc) PROVE w' \in Worker
  BY <1>1, <1>3 DEF Goto, Worker
<1>4. ASSUME NEW st \in Status, Report(st) PROVE w' \in Worker
  <2>1. "status" \in Steps
    BY DEF Steps
  <2> QED  BY <1>1, <1>4, <2>1 DEF Report, Worker
<1> QED  BY <1>2, <1>3, <1>4

\* The steps that only read.
LEMMA ReadType ==
    ASSUME TypeOK,
           \/ \E i \in Imports : Dequeue(i)
           \/ GetImport \/ GetKeycloak
    PROVE  TypeOK'
<1>1. ASSUME NEW i \in Imports, Dequeue(i) PROVE TypeOK'
  BY <1>1 DEF TypeOK, Dequeue, objects, Worker, Steps
<1>2. CASE GetImport
  <2> DEFINE c == imports[w.key].seen
  <2>1. c \in ImportObj
    BY DEF TypeOK, Tracked, Worker
  <2>2. Branch(c) \in Steps
    BY DEF Branch, Steps
  <2>3. Idle \in Worker
    BY Absent
  <2>4. w' \in Worker /\ queue' \subseteq Imports
    BY <1>2, <2>1, <2>2, <2>3 DEF GetImport, Done, TypeOK, Worker
  <2> QED  BY <1>2, <2>4 DEF GetImport, objects, TypeOK
<1>3. CASE GetKeycloak
  <2> DEFINE sts == statefulsets[w.cr.spec.target].seen
  <2>1. sts \in StatefulSetObj
    BY SlotType DEF TypeOK, Tracked, Worker, ImportObj
  <2>2. \/ Report("error") \/ Report("waiting")
        \/ w' = [w EXCEPT !.pc = "secret", !.sts = sts]
    BY <1>3 DEF GetKeycloak
  <2>3. w \in Worker /\ "secret" \in Steps /\ {"error", "waiting"} \subseteq Status
    BY DEF TypeOK, Steps, Status
  <2>4. w' = [w EXCEPT !.pc = "secret", !.sts = sts] => w' \in Worker
    BY <2>1, <2>3 DEF Worker
  <2>5. w' \in Worker
    BY <2>2, <2>3, <2>4, EndType
  <2> QED  BY <1>3, <2>5 DEF GetKeycloak, objects, TypeOK
<1> QED  BY <1>1, <1>2, <1>3

\* Deletions.
LEMMA DeleteType ==
    /\ \A o \in Tracked(JobObj) : /\ DeleteForeground(o) \in Tracked(JobObj)
                                  /\ Remove(o) \in Tracked(JobObj)
    /\ \A o \in Tracked(SecretObj) : Remove(o) \in Tracked(SecretObj)
<1>1. ASSUME NEW o \in Tracked(JobObj)
      PROVE  /\ DeleteForeground(o) \in Tracked(JobObj)
             /\ Remove(o) \in Tracked(JobObj)
  <2>1. o.now \in JobObj /\ o.now.rv + 1 \in Nat
    BY <1>1 DEF Tracked, JobObj
  <2>2. /\ [[o.now EXCEPT !.del = TRUE] EXCEPT !.rv = o.now.rv + 1] \in JobObj
        /\ [[o.now EXCEPT !.live = FALSE] EXCEPT !.rv = o.now.rv + 1] \in JobObj
    BY <2>1 DEF JobObj
  <2> QED  BY <1>1, <2>2, PutType DEF DeleteForeground, Remove
<1>2. ASSUME NEW o \in Tracked(SecretObj)
      PROVE  Remove(o) \in Tracked(SecretObj)
  <2>1. o.now \in SecretObj /\ o.now.rv + 1 \in Nat
    BY <1>2 DEF Tracked, SecretObj
  <2>2. [[o.now EXCEPT !.live = FALSE] EXCEPT !.rv = o.now.rv + 1] \in SecretObj
    BY <2>1 DEF SecretObj
  <2> QED  BY <1>2, <2>2, PutType DEF Remove
<1> QED  BY <1>1, <1>2

\* The steps that write jobs and secrets.
LEMMA WorkType ==
    ASSUME TypeOK,
           CleanJobs \/ CleanSecrets \/ ApplySecret \/ ListJobs \/ CreateJob
    PROVE  TypeOK'
<1> DEFINE s == Slot(w.key, w.cr.spec)
<1>1. /\ s \in Slots /\ w.key \in Imports /\ w.cr.spec \in Specs
      /\ jobs[s] \in Tracked(JobObj) /\ secrets[s] \in Tracked(SecretObj)
  BY SlotType DEF TypeOK, Worker, ImportObj
<1> HIDE DEF s
<1>2. CASE CleanJobs
  <2>1. jobs' \in [Slots -> Tracked(JobObj)]
    BY <1>1, <1>2, DeleteType DEF CleanJobs, TypeOK, s
  <2>2. w' \in Worker /\ queue' \subseteq Imports
    BY <1>2, EndType DEF CleanJobs, Steps, TypeOK
  <2> QED  BY <1>2, <2>1, <2>2 DEF CleanJobs, TypeOK
<1>3. CASE CleanSecrets
  <2>1. secrets' \in [Slots -> Tracked(SecretObj)]
    BY <1>1, <1>3, DeleteType DEF CleanSecrets, TypeOK, s
  <2>2. w' \in Worker /\ queue' \subseteq Imports
    BY <1>3, EndType DEF CleanSecrets, Steps, TypeOK
  <2> QED  BY <1>3, <2>1, <2>2 DEF CleanSecrets, TypeOK
<1>4. CASE ApplySecret
  <2> DEFINE o == secrets[s]
             content == Content(w.cr.spec)
             v == [o.now EXCEPT !.live = TRUE, !.owner = w.key,
                                !.data = content]
             new == Put(o, v)
  <2>1. content \in Data
    <3>1. \A x \in Sources : sources[x].seen.val \in Values \cup {NoValue}
      BY DEF TypeOK, Tracked, SourceObj
    <3> QED  BY <1>1, <3>1, SlotType DEF Content, Data
  <2>2. o.now \in SecretObj /\ o.seen \in SecretObj /\ o.now.rv + 1 \in Nat
    BY <1>1 DEF Tracked, SecretObj
  <2>3. [v EXCEPT !.rv = o.now.rv + 1] \in SecretObj
    BY <1>1, <2>1, <2>2 DEF SecretObj
  <2>4. new \in Tracked(SecretObj)
    BY <1>1, <2>3, PutType
  <2>5. secrets' \in [Slots -> Tracked(SecretObj)]
    BY <1>1, <1>4, <2>4 DEF ApplySecret, TypeOK, s
  <2>6. w' \in Worker
    <3>1. o.seen.rv \in Nat /\ new.now.rv \in Nat
      BY <2>2, <2>4 DEF Tracked, SecretObj
    <3>2. \A ver \in Nat :
             [w EXCEPT !.pc = "listJobs", !.ver = ver] \in Worker
      BY DEF TypeOK, Worker, Steps
    <3> QED  BY <1>4, <3>1, <3>2, EndType DEF ApplySecret, s, Status
  <2>7. queue' \subseteq Imports
    BY <1>4, EndType DEF ApplySecret, TypeOK
  <2> QED  BY <1>4, <2>5, <2>6, <2>7 DEF ApplySecret, TypeOK
<1>5. CASE ListJobs
  <2>1. jobs' \in [Slots -> Tracked(JobObj)]
    BY <1>1, <1>5, DeleteType DEF ListJobs, TypeOK, s
  <2>2. w' \in Worker
    <3>1. \A b \in BOOLEAN :
             [w EXCEPT !.pc = "rollout", !.completed = b] \in Worker
      BY DEF TypeOK, Worker, Steps
    <3> QED  BY <1>5, <3>1, EndType DEF ListJobs, Steps, Status
  <2> QED  BY <1>5, <2>1, <2>2 DEF ListJobs, TypeOK
<1>6. CASE CreateJob
  <2> DEFINE o == jobs[s]
  <2>1. o.now.rv + 1 \in Nat
    BY <1>1 DEF Tracked, JobObj
  <2>2. [NewJob(o) EXCEPT !.rv = o.now.rv + 1] \in JobObj
    BY <1>1, <2>1, SlotType DEF NewJob, JobObj, TypeOK, Worker
  <2>3. Put(o, NewJob(o)) \in Tracked(JobObj)
    BY <1>1, <2>2, PutType
  <2>4. jobs' \in [Slots -> Tracked(JobObj)]
    BY <1>1, <1>6, <2>3 DEF CreateJob, TypeOK, s
  <2>5. w' \in Worker /\ queue' \subseteq Imports
    BY <1>6, EndType DEF CreateJob, Status, TypeOK
  <2> QED  BY <1>6, <2>4, <2>5 DEF CreateJob, TypeOK
<1> QED  BY <1>2, <1>3, <1>4, <1>5, <1>6

\* The steps that write the import itself and the StatefulSet.
LEMMA OwnType ==
    ASSUME TypeOK,
           RemoveFinalizer \/ AddFinalizer \/ UpdateStatus \/ Rollout
    PROVE  TypeOK'
<1> DEFINE o == imports[w.key]
<1>1. /\ w.key \in Imports /\ o \in Tracked(ImportObj)
      /\ o.now \in ImportObj /\ o.now.rv + 1 \in Nat
  BY DEF TypeOK, Worker, Tracked, ImportObj
<1>2. \A x \in ImportObj, pc \in Steps :
         [w EXCEPT !.pc = pc, !.cr = x] \in Worker
  BY DEF TypeOK, Worker
<1>3. CASE RemoveFinalizer
  <2> DEFINE new == WithoutFinalizer(o)
  <2>1. new \in Tracked(ImportObj)
    <3>1. /\ [[o.now EXCEPT !.fin = FALSE] EXCEPT !.rv = o.now.rv + 1]
                \in ImportObj
          /\ [[o.now EXCEPT !.fin = FALSE, !.live = FALSE]
                 EXCEPT !.rv = o.now.rv + 1] \in ImportObj
      BY <1>1 DEF ImportObj
    <3> QED  BY <1>1, <3>1, PutType DEF WithoutFinalizer
  <2>2. imports' \in [Imports -> Tracked(ImportObj)]
    BY <1>1, <1>3, <2>1 DEF RemoveFinalizer, TypeOK
  <2>3. w' \in Worker /\ queue' \subseteq Imports
    <3>1. new.now \in ImportObj
      BY <2>1 DEF Tracked
    <3> QED  BY <1>2, <1>3, <3>1, EndType DEF RemoveFinalizer, Steps, TypeOK
  <2> QED  BY <1>3, <2>2, <2>3 DEF RemoveFinalizer, TypeOK
<1>4. CASE AddFinalizer
  <2> DEFINE new == Put(o, [o.now EXCEPT !.fin = TRUE])
  <2>1. new \in Tracked(ImportObj)
    <3>1. [[o.now EXCEPT !.fin = TRUE] EXCEPT !.rv = o.now.rv + 1]
             \in ImportObj
      BY <1>1 DEF ImportObj
    <3> QED  BY <1>1, <3>1, PutType
  <2>2. imports' \in [Imports -> Tracked(ImportObj)]
    BY <1>1, <1>4, <2>1 DEF AddFinalizer, TypeOK
  <2>3. w' \in Worker /\ queue' \subseteq Imports
    <3>1. new.now \in ImportObj
      BY <2>1 DEF Tracked
    <3> QED  BY <1>2, <1>4, <3>1, EndType DEF AddFinalizer, Steps, TypeOK
  <2> QED  BY <1>4, <2>2, <2>3 DEF AddFinalizer, TypeOK
<1>5. CASE UpdateStatus
  <2> DEFINE new == Put(o, [o.now EXCEPT !.status = w.status])
  <2>1. new \in Tracked(ImportObj)
    <3>1. w.status \in Status
      BY DEF TypeOK, Worker
    <3>2. [[o.now EXCEPT !.status = w.status] EXCEPT !.rv = o.now.rv + 1]
             \in ImportObj
      BY <1>1, <3>1 DEF ImportObj
    <3> QED  BY <1>1, <3>2, PutType
  <2>2. imports' \in [Imports -> Tracked(ImportObj)]
    BY <1>1, <1>5, <2>1 DEF UpdateStatus, TypeOK
  <2>3. w' \in Worker /\ queue' \subseteq Imports
    BY <1>5, EndType DEF UpdateStatus
  <2> QED  BY <1>5, <2>2, <2>3 DEF UpdateStatus, TypeOK
<1>6. CASE Rollout
  <2> DEFINE k == w.cr.spec.target
             p == statefulsets[k]
             new == Put(p, [w.sts EXCEPT !.ann[w.key] = w.ver])
  <2>1. /\ k \in Instances /\ p \in Tracked(StatefulSetObj)
        /\ p.now.rv + 1 \in Nat
    BY <1>1, SlotType DEF TypeOK, Worker, ImportObj, Tracked, StatefulSetObj
  <2>2. new \in Tracked(StatefulSetObj)
    <3>1. /\ w.sts \in StatefulSetObj /\ w.ver \in Nat
          /\ w.sts.ann \in [Imports -> Nat]
      BY DEF TypeOK, Worker, StatefulSetObj
    <3>2. [w.sts.ann EXCEPT ![w.key] = w.ver] \in [Imports -> Nat]
      BY <1>1, <3>1
    <3>3. [[w.sts EXCEPT !.ann[w.key] = w.ver] EXCEPT !.rv = p.now.rv + 1]
             \in StatefulSetObj
      BY <2>1, <3>1, <3>2 DEF StatefulSetObj
    <3> QED  BY <2>1, <3>3, PutType
  <2>3. statefulsets' \in [Instances -> Tracked(StatefulSetObj)]
    BY <1>6, <2>1, <2>2 DEF Rollout, TypeOK
  <2>4. w' \in Worker /\ queue' \subseteq Imports
    BY <1>6, EndType DEF Rollout, Status, TypeOK
  <2> QED  BY <1>6, <2>3, <2>4 DEF Rollout, TypeOK
<1> QED  BY <1>3, <1>4, <1>5, <1>6

\* The handler of secrets keeps the worker and the queue typed.
LEMMA HandlerType ==
    ASSUME TypeOK, NEW A, NEW B, handleSecretChanged(A, B)
    PROVE  w' \in Worker /\ queue' \subseteq Imports
BY Absent DEF handleSecretChanged, TypeOK

\* Watches.
LEMMA WatchType ==
    ASSUME TypeOK, Watch
    PROVE  TypeOK'
<1>1. ASSUME NEW i \in Imports, ObserveImport(i) PROVE TypeOK'
  <2>1. imports' \in [Imports -> Tracked(ImportObj)]
    BY <1>1, ObserveType DEF ObserveImport, TypeOK
  <2>2. queue' \subseteq Imports
    BY <1>1 DEF ObserveImport, TypeOK
  <2> QED  BY <1>1, <2>1, <2>2 DEF ObserveImport, TypeOK
<1>2. ASSUME NEW k \in Instances, ObserveKeycloak(k) PROVE TypeOK'
  <2>1. keycloaks' \in [Instances -> Tracked(KeycloakObj)]
    BY <1>2, ObserveType DEF ObserveKeycloak, TypeOK
  <2> QED  BY <1>2, <2>1 DEF ObserveKeycloak, TypeOK
<1>3. ASSUME NEW k \in Instances, ObserveStatefulSet(k) PROVE TypeOK'
  <2>1. statefulsets' \in [Instances -> Tracked(StatefulSetObj)]
    BY <1>3, ObserveType DEF ObserveStatefulSet, TypeOK
  <2> QED  BY <1>3, <2>1 DEF ObserveStatefulSet, TypeOK
<1>4. ASSUME NEW s \in Slots, ObserveSecret(s) PROVE TypeOK'
  <2>1. secrets' \in [Slots -> Tracked(SecretObj)]
    BY <1>4, ObserveType DEF ObserveSecret, TypeOK
  <2>2. w' \in Worker /\ queue' \subseteq Imports
    BY <1>4, HandlerType DEF ObserveSecret
  <2> QED  BY <1>4, <2>1, <2>2 DEF ObserveSecret, TypeOK
<1>5. ASSUME NEW s \in Slots, ObserveJob(s) PROVE TypeOK'
  <2>1. jobs' \in [Slots -> Tracked(JobObj)]
    BY <1>5, ObserveType DEF ObserveJob, TypeOK
  <2>2. queue' \subseteq Imports
    <3>1. \A v \in jobs[s].pend : v.owner \in Imports
      BY DEF TypeOK, Tracked, JobObj
    <3> QED  BY <1>5, <3>1 DEF ObserveJob, TypeOK
  <2> QED  BY <1>5, <2>1, <2>2 DEF ObserveJob, TypeOK
<1>6. ASSUME NEW s \in Sources, ObserveSource(s) PROVE TypeOK'
  <2>1. sources' \in [Sources -> Tracked(SourceObj)]
    BY <1>6, ObserveType DEF ObserveSource, TypeOK
  <2>2. w' \in Worker /\ queue' \subseteq Imports
    BY <1>6, HandlerType DEF ObserveSource
  <2> QED  BY <1>6, <2>1, <2>2 DEF ObserveSource, TypeOK
<1> QED  BY <1>1, <1>2, <1>3, <1>4, <1>5, <1>6 DEF Watch

\* A restart of the operator keeps every object and the worker typed.
LEMMA RestartType ==
    ASSUME TypeOK, Restart \/ Relaunch
    PROVE  TypeOK'
<1>1. /\ imports' \in [Imports -> Tracked(ImportObj)]
      /\ keycloaks' \in [Instances -> Tracked(KeycloakObj)]
      /\ statefulsets' \in [Instances -> Tracked(StatefulSetObj)]
      /\ secrets' \in [Slots -> Tracked(SecretObj)]
      /\ jobs' \in [Slots -> Tracked(JobObj)]
      /\ sources' \in [Sources -> Tracked(SourceObj)]
  BY RelistType DEF Restart, Relaunch, Start, TypeOK
<1>2. used' \in [edits: Nat, deletes: Nat, touches: Nat, crashes: Nat]
  BY DEF Restart, Relaunch, TypeOK
<1>3. w' \in Worker /\ queue' \subseteq Imports
  BY Absent DEF Restart, Relaunch, Start
<1> QED  BY <1>1, <1>2, <1>3 DEF Restart, Relaunch, Start, TypeOK

\* Users.
LEMMA UserType ==
    ASSUME TypeOK, User
    PROVE  TypeOK'
<1>1. used' = used
      \/ used' = [used EXCEPT !.edits = @ + 1]
      \/ used' = [used EXCEPT !.deletes = @ + 1]
      => used' \in [edits: Nat, deletes: Nat, touches: Nat, crashes: Nat]
  <2>1. used \in [edits: Nat, deletes: Nat, touches: Nat, crashes: Nat]
    BY DEF TypeOK
  <2> QED  BY <2>1
<1>2. ASSUME NEW i \in Imports,
             \/ CreateImport(i) \/ EditImport(i)
             \/ DeleteImport(i) \/ ReleaseImport(i)
      PROVE  TypeOK'
  <2> DEFINE o == imports[i]
  <2>1. /\ o \in Tracked(ImportObj)
        /\ o.now \in ImportObj /\ o.now.rv + 1 \in Nat
    BY DEF TypeOK, Tracked, ImportObj
  <2>2. \A spec \in Specs, other \in Others :
           [[NoImport EXCEPT !.live = TRUE, !.spec = spec, !.other = other]
               EXCEPT !.rv = o.now.rv + 1] \in ImportObj
    BY <2>1, Absent, ConstantsAssumption DEF ImportObj
  <2>3. \A spec \in Specs :
           [[o.now EXCEPT !.spec = spec] EXCEPT !.rv = o.now.rv + 1]
              \in ImportObj
    BY <2>1 DEF ImportObj
  <2>4. /\ [[o.now EXCEPT !.del = TRUE] EXCEPT !.rv = o.now.rv + 1]
              \in ImportObj
        /\ [[o.now EXCEPT !.live = FALSE] EXCEPT !.rv = o.now.rv + 1]
              \in ImportObj
    BY <2>1 DEF ImportObj
  <2>5. [[o.now EXCEPT !.other = FALSE, !.live = o.now.fin]
            EXCEPT !.rv = o.now.rv + 1] \in ImportObj
    BY <2>1 DEF ImportObj
  <2>6. imports' \in [Imports -> Tracked(ImportObj)]
    <3>1. CASE CreateImport(i)
      <4>1. PICK spec \in Specs, other \in Others :
               imports' = [imports EXCEPT ![i] =
                   Put(o, [NoImport EXCEPT !.live = TRUE, !.spec = spec,
                                           !.other = other])]
        BY <3>1 DEF CreateImport
      <4>2. Put(o, [NoImport EXCEPT !.live = TRUE, !.spec = spec,
                                    !.other = other]) \in Tracked(ImportObj)
        BY <2>1, <2>2, PutType
      <4> QED  BY <4>1, <4>2 DEF TypeOK
    <3>2. CASE EditImport(i)
      <4>1. PICK spec \in Specs :
               imports' = [imports EXCEPT ![i] =
                   Put(o, [o.now EXCEPT !.spec = spec])]
        BY <3>2 DEF EditImport
      <4>2. Put(o, [o.now EXCEPT !.spec = spec]) \in Tracked(ImportObj)
        BY <2>1, <2>3, PutType
      <4> QED  BY <4>1, <4>2 DEF TypeOK
    <3>3. CASE DeleteImport(i)
      BY <2>1, <2>4, <3>3, PutType DEF DeleteImport, Remove, TypeOK
    <3>4. CASE ReleaseImport(i)
      BY <2>1, <2>5, <3>4, PutType DEF ReleaseImport, TypeOK
    <3> QED  BY <1>2, <3>1, <3>2, <3>3, <3>4
  <2> QED
    BY <1>1, <1>2, <2>6 DEF CreateImport, EditImport, DeleteImport,
                            ReleaseImport, Edit, UserVars, TypeOK
<1>3. ASSUME NEW s \in Sources, EditSource(s) PROVE TypeOK'
  <2> DEFINE o == sources[s]
  <2>1. /\ o \in Tracked(SourceObj)
        /\ o.now \in SourceObj /\ o.now.rv + 1 \in Nat
    BY DEF TypeOK, Tracked, SourceObj
  <2>2. \A val \in Values \cup {NoValue}, live \in BOOLEAN :
           [[o.now EXCEPT !.live = live, !.val = val]
               EXCEPT !.rv = o.now.rv + 1] \in SourceObj
    BY <2>1 DEF SourceObj
  <2>3. \A val \in Values \cup {NoValue}, live \in BOOLEAN :
           Put(o, [o.now EXCEPT !.live = live, !.val = val])
              \in Tracked(SourceObj)
    BY <2>1, <2>2, PutType
  <2>4. PICK val \in Values \cup {NoValue}, live \in BOOLEAN :
           sources' = [sources EXCEPT ![s] =
               Put(o, [o.now EXCEPT !.live = live, !.val = val])]
    BY <1>3 DEF EditSource
  <2>5. sources' \in [Sources -> Tracked(SourceObj)]
    BY <2>3, <2>4 DEF TypeOK
  <2> QED  BY <1>1, <1>3, <2>5 DEF EditSource, Edit, UserVars, TypeOK
<1> QED  BY <1>2, <1>3 DEF User

\* The writers of the instance.
LEMMA InstanceType ==
    ASSUME TypeOK, InstanceWriter
    PROVE  TypeOK'
<1>1. Touch => used' \in [edits: Nat, deletes: Nat, touches: Nat, crashes: Nat]
  <2>1. used \in [edits: Nat, deletes: Nat, touches: Nat, crashes: Nat]
    BY DEF TypeOK
  <2> QED  BY <2>1 DEF Touch
<1>2. ASSUME NEW k \in Instances, WriteKeycloak(k) PROVE TypeOK'
  <2> DEFINE o == keycloaks[k]
  <2>1. /\ o \in Tracked(KeycloakObj)
        /\ o.now \in KeycloakObj /\ o.now.rv + 1 \in Nat
    BY DEF TypeOK, Tracked, KeycloakObj
  <2>2. \A live, ready \in BOOLEAN :
           [[o.now EXCEPT !.live = live, !.ready = ready]
               EXCEPT !.rv = o.now.rv + 1] \in KeycloakObj
    BY <2>1 DEF KeycloakObj
  <2>3. \A live, ready \in BOOLEAN :
           Put(o, [o.now EXCEPT !.live = live, !.ready = ready])
              \in Tracked(KeycloakObj)
    BY <2>1, <2>2, PutType
  <2>4. keycloaks' \in [Instances -> Tracked(KeycloakObj)]
    BY <1>2, <2>3 DEF WriteKeycloak, TypeOK
  <2> QED  BY <1>1, <1>2, <2>4 DEF WriteKeycloak, TypeOK
<1>3. ASSUME NEW k \in Instances, WriteStatefulSet(k) PROVE TypeOK'
  <2> DEFINE o == statefulsets[k]
  <2>1. /\ o \in Tracked(StatefulSetObj)
        /\ o.now \in StatefulSetObj /\ o.now.rv + 1 \in Nat
    BY DEF TypeOK, Tracked, StatefulSetObj
  <2>2. /\ [o.now EXCEPT !.rv = o.now.rv + 1] \in StatefulSetObj
        /\ [[o.now EXCEPT !.live = FALSE] EXCEPT !.rv = o.now.rv + 1]
              \in StatefulSetObj
        /\ [[NoStatefulSet EXCEPT !.live = TRUE] EXCEPT !.rv = o.now.rv + 1]
              \in StatefulSetObj
    BY <2>1, Absent DEF StatefulSetObj
  <2>3. /\ Put(o, o.now) \in Tracked(StatefulSetObj)
        /\ Remove(o) \in Tracked(StatefulSetObj)
        /\ Put(o, [NoStatefulSet EXCEPT !.live = TRUE])
              \in Tracked(StatefulSetObj)
    BY <2>1, <2>2, PutType DEF Remove
  <2>4. statefulsets' \in [Instances -> Tracked(StatefulSetObj)]
    BY <1>3, <2>3 DEF WriteStatefulSet, TypeOK
  <2> QED  BY <1>1, <1>3, <2>4 DEF WriteStatefulSet, TypeOK
<1> QED  BY <1>2, <1>3 DEF InstanceWriter

\* The Job controller and the pods.
LEMMA JobType ==
    ASSUME TypeOK, NEW s \in Slots, JobController(s)
    PROVE  TypeOK'
<1> DEFINE o == jobs[s]
<1>1. /\ o \in Tracked(JobObj) /\ o.now \in JobObj /\ o.now.rv + 1 \in Nat
      /\ pods[s] \in SUBSET PodObj
  BY DEF TypeOK, Tracked, JobObj
<1>2. \A phase \in {"complete", "failed"} :
         Put(o, [o.now EXCEPT !.phase = phase]) \in Tracked(JobObj)
  <2>1. \A phase \in {"complete", "failed"} :
           [[o.now EXCEPT !.phase = phase] EXCEPT !.rv = o.now.rv + 1]
              \in JobObj
    BY <1>1 DEF JobObj
  <2> QED  BY <1>1, <2>1, PutType
<1>3. CASE StartPod(s)
  <2> DEFINE j == jobs[s].now
             x == secrets[s].now
             p == [uid |-> j.uid, ver |-> j.ver, rv |-> x.rv, data |-> x.data,
                   into |-> j.into, override |-> j.override, done |-> FALSE]
  <2>1. x \in SecretObj
    BY DEF TypeOK, Tracked
  <2>2. p \in PodObj
    BY <1>1, <2>1 DEF PodObj, JobObj, SecretObj
  <2> HIDE DEF p
  <2>3. pods' = [pods EXCEPT ![s] = @ \cup {p}]
    BY <1>3 DEF StartPod, p
  <2>4. pods' \in [Slots -> SUBSET PodObj]
    BY <1>1, <2>2, <2>3 DEF TypeOK
  <2> QED  BY <1>3, <2>4 DEF StartPod, objects, TypeOK
<1>4. CASE PodSucceeds(s)
  <2> PICK p \in pods[s] :
         /\ pods' = [pods EXCEPT ![s] =
                (@ \ {p}) \cup {[p EXCEPT !.done = TRUE]}]
         /\ realms' = IF p.override \/ realms[s][p.into].rv = 0
                      THEN [realms EXCEPT ![s][p.into] =
                               [rv |-> p.rv, data |-> p.data]]
                      ELSE realms
    BY <1>4 DEF PodSucceeds
  <2>1. p \in PodObj /\ [p EXCEPT !.done = TRUE] \in PodObj
    BY <1>1 DEF PodObj
  <2>2. [rv |-> p.rv, data |-> p.data] \in [rv: Nat, data: Data \cup {NoValue}]
    BY <2>1 DEF PodObj
  <2>3. pods' \in [Slots -> SUBSET PodObj]
    BY <1>1, <2>1 DEF TypeOK
  <2>4. realms' \in [Slots -> [Instances -> [rv: Nat, data: Data \cup {NoValue}]]]
    BY <2>2 DEF TypeOK
  <2> QED  BY <1>4, <2>3, <2>4 DEF PodSucceeds, objects, TypeOK
<1>5. CASE JobCompletes(s)
  <2>1. jobs' \in [Slots -> Tracked(JobObj)]
    BY <1>2, <1>5 DEF JobCompletes, TypeOK
  <2>2. pods' \in [Slots -> SUBSET PodObj]
    BY <1>1, <1>5 DEF JobCompletes, TypeOK
  <2> QED  BY <1>5, <2>1, <2>2 DEF JobCompletes, TypeOK
<1>6. CASE PodFails(s)
  <2>1. jobs' \in [Slots -> Tracked(JobObj)]
    BY <1>2, <1>6 DEF PodFails, TypeOK
  <2>2. pods' \in [Slots -> SUBSET PodObj]
    BY <1>1, <1>6 DEF PodFails, TypeOK
  <2> QED  BY <1>6, <2>1, <2>2 DEF PodFails, TypeOK
<1>7. CASE KillPod(s)
  <2>1. pods' \in [Slots -> SUBSET PodObj]
    BY <1>1, <1>7 DEF KillPod, TypeOK
  <2> QED  BY <1>7, <2>1 DEF KillPod, objects, TypeOK
<1>8. CASE JobGone(s)
  <2>1. jobs' \in [Slots -> Tracked(JobObj)]
    BY <1>1, <1>8, DeleteType DEF JobGone, TypeOK
  <2> QED  BY <1>8, <2>1 DEF JobGone, TypeOK
<1> QED  BY <1>3, <1>4, <1>5, <1>6, <1>7, <1>8 DEF JobController

\* Every step of the controller and of its cluster preserves the types.
LEMMA TypeStep == TypeOK /\ [Next]_vars => TypeOK'
<1> SUFFICES ASSUME TypeOK, [Next]_vars PROVE TypeOK'
  OBVIOUS
<1>1. CASE Next
  BY <1>1, ReadType, WorkType, OwnType, WatchType, RestartType, UserType,
     InstanceType, JobType DEF Next, Reconcile
<1>2. CASE UNCHANGED vars
  BY <1>2 DEF vars, objects, TypeOK
<1> QED  BY <1>1, <1>2

\* Every variable of the controller and of its environment keeps its type.
THEOREM TypeCorrect == Spec => []TypeOK
BY InitType, TypeStep, PTL DEF Spec

-----------------------------------------------------------------------------
(***************************************************************************)
(* Rollouts follow imports.  The property speaks of the StatefulSet that   *)
(* the API server holds; to be inductive it has to speak of every version  *)
(* of a job or StatefulSet that a cache, a watch or the worker may still   *)
(* hold, of the worker between ListJobs and Rollout, and of the pods.      *)
(***************************************************************************)

\* A version of the realm of slot s as new as ver is in the database of an
\* instance of its namespace n.
Holds(realm, n, ver) ==
    \E k \in Instances : /\ NamespaceOf[k] = n
                         /\ realm[k].rv # 0
                         /\ AllOverride => realm[k].rv >= ver

Landed(s, ver) == Holds(realms[s], s[1], ver)

\* A step takes no realm of slot s back.
Onward(s) == \A k \in Instances : realms'[s][k].rv >= realms[s][k].rv

\* No realm of slot s is newer than its secret.
Covered(s) == \A k \in Instances : realms[s][k].rv <= secrets[s].now.rv

\* No version of an import secret is newer than the stored one.
SecretInv ==
    \A s \in Slots : /\ Covered(s)
                     /\ \A v \in Versions(secrets[s]) :
                            /\ v.rv <= secrets[s].now.rv
                            /\ v.live => v.rv # 0

\* A job is for a version of the secret that exists or existed and for an
\* instance of its namespace, and one that has completed has imported it.
JobInv ==
    \A s \in Slots : \A v \in Versions(jobs[s]) :
        /\ v.ver <= secrets[s].now.rv
        /\ v.live => NamespaceOf[v.into] = s[1]
        /\ v.phase = "complete" => Landed(s, v.ver)

\* A slot has one pod at most, it belongs to the job that is stored, and it
\* has read a version of the secret that is not older than its job or realm.
PodInv ==
    \A s \in Slots :
        /\ \A p, q \in pods[s] : p = q
        /\ \A p \in pods[s] :
              /\ jobs[s].now.live /\ p.uid = jobs[s].now.uid
              /\ p.ver = jobs[s].now.ver /\ NamespaceOf[p.into] = s[1]
              /\ p.rv <= secrets[s].now.rv /\ p.rv >= p.ver /\ p.rv # 0
              /\ ~p.done => \A k \in Instances : realms[s][k].rv <= p.rv
              /\ p.done => Landed(s, p.ver)

\* The worker holds a version of the secret, a StatefulSet whose rollouts are
\* in order, and knows of a completed job only if there was one.
WorkerInv ==
    LET s == Slot(w.key, w.cr.spec) IN
    /\ w.pc \in {"listJobs", "createJob", "rollout"} =>
           w.ver <= secrets[s].now.rv
    /\ w.pc = "rollout" /\ w.completed => Landed(s, w.ver)
    /\ w.pc \in {"secret", "listJobs", "createJob", "rollout"} =>
           \A i \in Imports : w.sts.ann[i] # 0 =>
               Landed(<<NamespaceOf[w.cr.spec.target], NameOf[i]>>, w.sts.ann[i])

RolloutInv ==
    \A k \in Instances : \A v \in Versions(statefulsets[k]) :
        \A i \in Imports : v.ann[i] # 0 => Landed(<<NamespaceOf[k], NameOf[i]>>, v.ann[i])

ImportInv == /\ TypeOK /\ SecretInv /\ JobInv /\ PodInv
             /\ WorkerInv /\ RolloutInv

\* The numbers that versions carry.
LEMMA VersionTypes ==
    /\ \A o \in Tracked(SecretObj) : /\ o.now.rv \in Nat
                                     /\ \A v \in Versions(o) : v.rv \in Nat
    /\ \A o \in Tracked(JobObj) : \A v \in Versions(o) : v.ver \in Nat
    /\ \A o \in Tracked(StatefulSetObj) : \A v \in Versions(o) :
           \A i \in Imports : v.ann[i] \in Nat
<1>1. ASSUME NEW o \in Tracked(SecretObj)
      PROVE  /\ o.now.rv \in Nat
             /\ \A v \in Versions(o) : v.rv \in Nat
  <2>1. o.now \in Versions(o) /\ \A v \in Versions(o) : v \in SecretObj
    BY <1>1, VersionsType DEF Versions
  <2> QED  BY <2>1 DEF SecretObj
<1>2. ASSUME NEW o \in Tracked(JobObj), NEW v \in Versions(o)
      PROVE  v.ver \in Nat
  <2>1. v \in JobObj
    BY <1>2, VersionsType
  <2> QED  BY <2>1 DEF JobObj
<1>3. ASSUME NEW o \in Tracked(StatefulSetObj), NEW v \in Versions(o),
             NEW i \in Imports
      PROVE  v.ann[i] \in Nat
  <2>1. v \in StatefulSetObj
    BY <1>3, VersionsType
  <2> QED  BY <2>1 DEF StatefulSetObj
<1> QED  BY <1>1, <1>2, <1>3

\* If every import overrides then so does every job.
LEMMA JobsOverride ==
    ASSUME AllOverride, NEW b \in Overrides
    PROVE  b
BY Zenon DEF AllOverride, Overrides

\* What has landed stays, as the realm only moves on.
LEMMA LandedStays ==
    ASSUME TypeOK, TypeOK', NEW s \in Slots, NEW ver \in Nat,
           Onward(s), Landed(s, ver)
    PROVE  Landed(s, ver)'
<1>1. PICK k \in Instances : /\ NamespaceOf[k] = s[1]
                             /\ realms[s][k].rv # 0
                             /\ AllOverride => realms[s][k].rv >= ver
  BY DEF Landed, Holds
<1>2. realms[s][k].rv \in Nat /\ realms'[s][k].rv \in Nat
  BY DEF TypeOK
<1>3. realms'[s][k].rv # 0 /\ (AllOverride => realms'[s][k].rv >= ver)
  BY <1>1, <1>2 DEF Onward
<1> QED  BY <1>1, <1>3 DEF Landed, Holds

\* The slot of an import on an instance.
LEMMA SlotOf ==
    ASSUME NEW k \in Instances, NEW i \in Imports
    PROVE  <<NamespaceOf[k], NameOf[i]>> \in Slots
BY ConstantsAssumption DEF Slots

\* Numbers that the steps below compare.
LEMMA Numbers ==
    ASSUME ImportInv
    PROVE  /\ \A s \in Slots :
                 /\ secrets[s].now.rv \in Nat /\ Covered(s)
                 /\ \A k \in Instances : realms[s][k].rv \in Nat
                 /\ secrets[s] \in Tracked(SecretObj)
                 /\ jobs[s] \in Tracked(JobObj)
           /\ \A k \in Instances : statefulsets[k] \in Tracked(StatefulSetObj)
           /\ w \in Worker /\ w.ver \in Nat /\ w.key \in Imports
           /\ Slot(w.key, w.cr.spec) \in Slots
           /\ w.cr.spec.target \in Instances
           /\ Slot(w.key, w.cr.spec)[1] = NamespaceOf[w.cr.spec.target]
BY VersionTypes, SlotType DEF ImportInv, TypeOK, SecretInv, Worker, ImportObj

\* A step that moves no realm and no secret.
LEMMA Still ==
    ASSUME ImportInv, UNCHANGED realms, NEW s \in Slots,
           secrets'[s].now = secrets[s].now
    PROVE  /\ Onward(s) /\ Covered(s)'
           /\ secrets'[s].now.rv >= secrets[s].now.rv
BY Numbers DEF Onward, Covered

\* A step that moves realms and secrets on, and adds only versions that are in
\* order, preserves the invariant if it preserves the parts on pods and worker.
LEMMA StepInv ==
    ASSUME ImportInv, TypeOK', PodInv', WorkerInv',
           \A s \in Slots :
               /\ Onward(s) /\ Covered(s)'
               /\ secrets'[s].now.rv >= secrets[s].now.rv
               /\ \A v \in Versions(secrets'[s]) :
                     \/ v \in Versions(secrets[s])
                     \/ v.rv <= secrets'[s].now.rv /\ v.rv # 0
               /\ \A v \in Versions(jobs'[s]) :
                     \/ v \in Versions(jobs[s])
                     \/ /\ v.ver <= secrets'[s].now.rv
                        /\ v.live => NamespaceOf[v.into] = s[1]
                        /\ v.phase = "complete" => Landed(s, v.ver)',
           \A k \in Instances : \A v \in Versions(statefulsets'[k]) :
               \/ v \in Versions(statefulsets[k])
               \/ \A i \in Imports : v.ann[i] # 0 =>
                     Landed(<<NamespaceOf[k], NameOf[i]>>, v.ann[i])'
    PROVE  ImportInv'
<1> USE DEF ImportInv
<1>1. SecretInv'
  <2> SUFFICES ASSUME NEW s \in Slots, NEW v \in Versions(secrets'[s])
               PROVE  /\ v.rv <= secrets'[s].now.rv
                      /\ v.live => v.rv # 0
    BY DEF SecretInv
  <2>1. /\ v.rv \in Nat
        /\ secrets[s].now.rv \in Nat /\ secrets'[s].now.rv \in Nat
    BY VersionTypes DEF TypeOK
  <2>2. CASE v \in Versions(secrets[s])
    BY <2>1, <2>2 DEF SecretInv
  <2> QED  BY <2>1, <2>2
<1>2. JobInv'
  <2> SUFFICES ASSUME NEW s \in Slots, NEW v \in Versions(jobs'[s])
               PROVE  /\ v.ver <= secrets'[s].now.rv
                      /\ v.live => NamespaceOf[v.into] = s[1]
                      /\ v.phase = "complete" => Landed(s, v.ver)'
    BY DEF JobInv
  <2>1. /\ v.ver \in Nat
        /\ secrets[s].now.rv \in Nat /\ secrets'[s].now.rv \in Nat
    BY VersionTypes DEF TypeOK
  <2>2. CASE v \in Versions(jobs[s])
    <3>1. /\ v.ver <= secrets[s].now.rv
          /\ v.live => NamespaceOf[v.into] = s[1]
          /\ v.phase = "complete" => Landed(s, v.ver)
      BY <2>2 DEF JobInv
    <3> QED  BY <2>1, <3>1, LandedStays
  <2> QED  BY <2>2
<1>3. RolloutInv'
  <2> SUFFICES ASSUME NEW k \in Instances, NEW v \in Versions(statefulsets'[k]),
                      NEW i \in Imports, v.ann[i] # 0
               PROVE  Landed(<<NamespaceOf[k], NameOf[i]>>, v.ann[i])'
    BY DEF RolloutInv
  <2>1. v.ann[i] \in Nat
    BY VersionTypes DEF TypeOK
  <2>2. CASE v \in Versions(statefulsets[k])
    BY <2>1, <2>2, LandedStays, SlotOf DEF RolloutInv
  <2> QED  BY <2>2
<1> QED  BY <1>1, <1>2, <1>3

\* Pods are in order as long as only pods go, and the job of those that stay is
\* the same job.
LEMMA PodFrame ==
    ASSUME ImportInv, TypeOK',
           \A s \in Slots :
               /\ pods'[s] \subseteq pods[s]
               /\ realms'[s] = realms[s]
               /\ secrets'[s].now.rv >= secrets[s].now.rv
               /\ \/ pods'[s] = {}
                  \/ /\ jobs[s].now.live => jobs'[s].now.live
                     /\ jobs'[s].now.uid = jobs[s].now.uid
                     /\ jobs'[s].now.ver = jobs[s].now.ver
    PROVE  PodInv'
<1> SUFFICES ASSUME NEW s \in Slots, pods'[s] # {}
             PROVE  /\ \A p, q \in pods'[s] : p = q
                    /\ \A p \in pods'[s] :
                          /\ jobs'[s].now.live /\ p.uid = jobs'[s].now.uid
                          /\ p.ver = jobs'[s].now.ver
                          /\ p.rv <= secrets'[s].now.rv
                          /\ p.rv >= p.ver /\ p.rv # 0
                          /\ NamespaceOf[p.into] = s[1]
                          /\ ~p.done => \A k \in Instances :
                                          realms'[s][k].rv <= p.rv
                          /\ p.done => Landed(s, p.ver)'
  BY DEF PodInv
<1>1. \A p, q \in pods'[s] : p = q
  BY DEF ImportInv, PodInv
<1>2. ASSUME NEW p \in pods'[s]
      PROVE  /\ jobs'[s].now.live /\ p.uid = jobs'[s].now.uid
             /\ p.ver = jobs'[s].now.ver
             /\ p.rv <= secrets'[s].now.rv
             /\ p.rv >= p.ver /\ p.rv # 0
             /\ NamespaceOf[p.into] = s[1]
             /\ ~p.done => \A k \in Instances : realms'[s][k].rv <= p.rv
             /\ p.done => Landed(s, p.ver)'
  <2>1. /\ p \in pods[s] /\ p.rv \in Nat
        /\ secrets[s].now.rv \in Nat /\ secrets'[s].now.rv \in Nat
    BY <1>2 DEF ImportInv, TypeOK, PodObj, Tracked, SecretObj
  <2>2. /\ jobs[s].now.live /\ p.uid = jobs[s].now.uid
        /\ p.ver = jobs[s].now.ver
        /\ p.rv <= secrets[s].now.rv
        /\ p.rv >= p.ver /\ p.rv # 0
        /\ NamespaceOf[p.into] = s[1]
        /\ ~p.done => \A k \in Instances : realms[s][k].rv <= p.rv
        /\ p.done => Landed(s, p.ver)
    BY <2>1 DEF ImportInv, PodInv
  <2>3. p.done => Landed(s, p.ver)'
    BY <2>2 DEF Landed
  <2>4. p.rv <= secrets'[s].now.rv
    BY <2>1, <2>2
  <2>5. /\ jobs'[s].now.live /\ p.uid = jobs'[s].now.uid
        /\ p.ver = jobs'[s].now.ver
    BY <2>2
  <2> QED  BY <2>2, <2>3, <2>4, <2>5
<1> QED  BY <1>1, <1>2

\* A worker outside of the critical steps holds nothing that matters; one that
\* does not move is not disturbed by realms and secrets that move on.
Critical == {"secret", "listJobs", "createJob", "rollout"}

\* What the worker knows of secret versions and realms stays right while it
\* rests and they only move forward.
LEMMA WorkerFrame ==
    ASSUME ImportInv, TypeOK',
           \/ w'.pc \notin Critical
           \/ /\ w' = w
              /\ \A s \in Slots : /\ Onward(s)
                                  /\ secrets'[s].now.rv >= secrets[s].now.rv
    PROVE  WorkerInv'
<1>1. CASE w'.pc \notin Critical
  BY <1>1 DEF WorkerInv, Critical
<1>2. CASE /\ w' = w
           /\ \A s \in Slots : /\ Onward(s)
                               /\ secrets'[s].now.rv >= secrets[s].now.rv
  <2> DEFINE s == Slot(w.key, w.cr.spec)
  <2>1. /\ s \in Slots /\ w.ver \in Nat /\ w.cr.spec.target \in Instances
        /\ \A i \in Imports : w.sts.ann[i] \in Nat
        /\ secrets[s].now.rv \in Nat /\ secrets'[s].now.rv \in Nat
    BY SlotType DEF ImportInv, TypeOK, Worker, ImportObj, StatefulSetObj,
                    Tracked, SecretObj
  <2>2. WorkerInv /\ TypeOK
    BY DEF ImportInv
  <2>3. w.pc \in {"listJobs", "createJob", "rollout"} =>
           w.ver <= secrets'[s].now.rv
    BY <1>2, <2>1, <2>2 DEF WorkerInv
  <2>4. w.pc = "rollout" /\ w.completed => Landed(s, w.ver)'
    BY <1>2, <2>1, <2>2, LandedStays DEF WorkerInv
  <2>5. w.pc \in Critical => \A i \in Imports : w.sts.ann[i] # 0 =>
           Landed(<<NamespaceOf[w.cr.spec.target], NameOf[i]>>, w.sts.ann[i])'
    BY <1>2, <2>1, <2>2, LandedStays, SlotOf DEF WorkerInv, Critical
  <2> QED  BY <1>2, <2>3, <2>4, <2>5 DEF WorkerInv, Critical
<1> QED  BY <1>1, <1>2

\* The inductive invariant holds before anything was created.
LEMMA InitInv == Init => ImportInv
<1> SUFFICES ASSUME Init PROVE ImportInv
  OBVIOUS
<1>1. TypeOK
  BY InitType
<1>2. SecretInv
  <2>1. \A s \in Slots : /\ secrets[s] = InSync(NoSecret)
                         /\ \A k \in Instances : realms[s][k].rv = 0
    BY DEF Init, NoRealm
  <2> QED  BY <2>1 DEF SecretInv, Covered, InSync, Versions, NoSecret
<1>3. JobInv
  <2>1. \A s \in Slots : /\ jobs[s] = InSync(NoJob)
                         /\ secrets[s] = InSync(NoSecret)
    BY DEF Init
  <2> QED  BY <2>1 DEF JobInv, InSync, Versions, NoJob, NoSecret
<1>4. PodInv
  BY DEF Init, PodInv
<1>5. WorkerInv
  BY DEF Init, Idle, WorkerInv
<1>6. RolloutInv
  <2>1. PICK kc \in [Instances -> [live: BOOLEAN, rv: {0}, ready: BOOLEAN]] :
           statefulsets = [k \in Instances |->
               InSync([NoStatefulSet EXCEPT !.live = kc[k].live])]
    BY DEF Init
  <2>2. ASSUME NEW k \in Instances, NEW v \in Versions(statefulsets[k])
        PROVE  v.ann = [i \in Imports |-> 0]
    <3>1. v = [NoStatefulSet EXCEPT !.live = kc[k].live]
      BY <2>1 DEF InSync, Versions
    <3> QED  BY <3>1 DEF NoStatefulSet
  <2> QED  BY <2>2 DEF RolloutInv
<1> QED  BY <1>1, <1>2, <1>3, <1>4, <1>5, <1>6 DEF ImportInv

\* A step that writes no secret, job, StatefulSet, pod or realm, and does not
\* take the worker into a critical step.
LEMMA QuietInv ==
    ASSUME ImportInv, TypeOK', UNCHANGED <<pods, realms>>,
           \A s \in Slots :
               /\ secrets'[s].now = secrets[s].now
               /\ jobs'[s].now = jobs[s].now
               /\ Versions(secrets'[s]) \subseteq Versions(secrets[s])
               /\ Versions(jobs'[s]) \subseteq Versions(jobs[s]),
           \A k \in Instances :
               Versions(statefulsets'[k]) \subseteq Versions(statefulsets[k]),
           w' = w \/ w'.pc \notin Critical
    PROVE  ImportInv'
<1>1. \A s \in Slots : /\ Onward(s) /\ Covered(s)'
                       /\ secrets'[s].now.rv >= secrets[s].now.rv
  BY Still
<1>2. PodInv'
  BY <1>1, PodFrame
<1>3. WorkerInv'
  BY <1>1, WorkerFrame
<1>4. \A s \in Slots :
         /\ \A v \in Versions(secrets'[s]) : v \in Versions(secrets[s])
         /\ \A v \in Versions(jobs'[s]) : v \in Versions(jobs[s])
  OBVIOUS
<1>5. \A k \in Instances : \A v \in Versions(statefulsets'[k]) :
         v \in Versions(statefulsets[k])
  OBVIOUS
<1> QED  BY <1>1, <1>2, <1>3, <1>4, <1>5, StepInv

\* The steps of the worker that write neither secrets, jobs nor StatefulSets.
LEMMA QuietSteps ==
    ASSUME ImportInv, TypeOK',
           \/ \E i \in Imports : Dequeue(i)
           \/ GetImport \/ RemoveFinalizer \/ AddFinalizer \/ UpdateStatus
    PROVE  ImportInv'
<1>1. UNCHANGED <<secrets, jobs, statefulsets, pods, realms>>
  BY DEF Dequeue, GetImport, RemoveFinalizer, AddFinalizer, UpdateStatus,
         objects
<1>2. w'.pc \notin Critical
  <2>1. w \in Worker
    BY DEF ImportInv, TypeOK
  <2>2. Idle.pc = "idle"
    BY DEF Idle
  <2>3. ASSUME NEW i \in Imports, Dequeue(i) PROVE w'.pc = "get"
    BY <2>1, <2>3 DEF Dequeue, Worker
  <2>4. CASE GetImport
    BY <2>1, <2>2, <2>4 DEF GetImport, Done, Branch, Worker, Critical
  <2>5. CASE RemoveFinalizer
    BY <2>1, <2>2, <2>5 DEF RemoveFinalizer, Requeue, Worker, Critical
  <2>6. CASE AddFinalizer
    BY <2>1, <2>2, <2>6 DEF AddFinalizer, Requeue, Worker, Critical
  <2>7. CASE UpdateStatus
    BY <2>2, <2>7 DEF UpdateStatus, Done, Requeue, Critical
  <2> QED  BY <2>3, <2>4, <2>5, <2>6, <2>7 DEF Critical
<1> QED  BY <1>1, <1>2, QuietInv

\* The handler of secrets leaves the worker alone or ends it.
LEMMA HandlerQuiet ==
    ASSUME NEW A, NEW B, handleSecretChanged(A, B)
    PROVE  w' = w \/ w'.pc \notin Critical
BY DEF handleSecretChanged, Down, Idle, Critical

\* Watches, restarts and users.
LEMMA QuietEnvironment ==
    ASSUME ImportInv, TypeOK',
           \/ Watch \/ Restart \/ Relaunch \/ User
           \/ \E k \in Instances : WriteKeycloak(k)
    PROVE  ImportInv'
<1>1. /\ secrets \in [Slots -> Tracked(SecretObj)]
      /\ jobs \in [Slots -> Tracked(JobObj)]
      /\ statefulsets \in [Instances -> Tracked(StatefulSetObj)]
  BY DEF ImportInv, TypeOK
<1>2. ASSUME UNCHANGED <<secrets, jobs, statefulsets, pods, realms, w>>
      PROVE  ImportInv'
  BY <1>2, QuietInv
<1>3. CASE User \/ \E k \in Instances : WriteKeycloak(k)
  BY <1>2, <1>3 DEF User, CreateImport, EditImport, DeleteImport,
                    ReleaseImport, EditSource, UserVars, WriteKeycloak
<1>4. CASE \/ \E i \in Imports : ObserveImport(i)
           \/ \E k \in Instances : ObserveKeycloak(k)
  BY <1>2, <1>4 DEF ObserveImport, ObserveKeycloak
<1>9. ASSUME NEW s \in Sources, ObserveSource(s) PROVE ImportInv'
  <2>1. UNCHANGED <<secrets, jobs, statefulsets, pods, realms>>
    BY <1>9 DEF ObserveSource
  <2>2. w' = w \/ w'.pc \notin Critical
    BY <1>9, HandlerQuiet DEF ObserveSource
  <2> QED  BY <2>1, <2>2, QuietInv
<1>5. ASSUME NEW k \in Instances, ObserveStatefulSet(k) PROVE ImportInv'
  <2> PICK v \in statefulsets[k].pend :
         statefulsets' = [statefulsets EXCEPT ![k] = Observe(@, v)]
    BY <1>5 DEF ObserveStatefulSet
  <2>1. \A x \in Instances :
           Versions(statefulsets'[x]) \subseteq Versions(statefulsets[x])
    BY <1>1, ObserveVersions
  <2>2. UNCHANGED <<secrets, jobs, pods, realms, w>>
    BY <1>5 DEF ObserveStatefulSet
  <2> QED  BY <2>1, <2>2, QuietInv
<1>6. ASSUME NEW s \in Slots, ObserveSecret(s) PROVE ImportInv'
  <2> PICK v \in secrets[s].pend :
         secrets' = [secrets EXCEPT ![s] = Observe(@, v)]
    BY <1>6 DEF ObserveSecret
  <2>1. \A x \in Slots : /\ secrets'[x].now = secrets[x].now
                         /\ Versions(secrets'[x]) \subseteq Versions(secrets[x])
    BY <1>1, ObserveVersions
  <2>2. UNCHANGED <<statefulsets, jobs, pods, realms>>
    BY <1>6 DEF ObserveSecret
  <2>3. w' = w \/ w'.pc \notin Critical
    BY <1>6, HandlerQuiet DEF ObserveSecret
  <2> QED  BY <2>1, <2>2, <2>3, QuietInv
<1>7. ASSUME NEW s \in Slots, ObserveJob(s) PROVE ImportInv'
  <2> PICK v \in jobs[s].pend :
         jobs' = [jobs EXCEPT ![s] = Observe(@, v)]
    BY <1>7 DEF ObserveJob
  <2>1. \A x \in Slots : /\ jobs'[x].now = jobs[x].now
                         /\ Versions(jobs'[x]) \subseteq Versions(jobs[x])
    BY <1>1, ObserveVersions
  <2>2. UNCHANGED <<statefulsets, secrets, pods, realms, w>>
    BY <1>7 DEF ObserveJob
  <2> QED  BY <2>1, <2>2, QuietInv
<1>8. CASE Restart \/ Relaunch
  <2>1. \A s \in Slots : /\ secrets'[s] = Relist(secrets[s])
                         /\ jobs'[s] = Relist(jobs[s])
    BY <1>8 DEF Restart, Relaunch, Start
  <2>2. \A k \in Instances : statefulsets'[k] = Relist(statefulsets[k])
    BY <1>8 DEF Restart, Relaunch, Start
  <2>3. UNCHANGED <<pods, realms>> /\ w'.pc \notin Critical
    BY <1>8 DEF Restart, Relaunch, Start, Idle, Down, Critical
  <2>4. \A s \in Slots : /\ secrets'[s].now = secrets[s].now
                         /\ jobs'[s].now = jobs[s].now
                         /\ Versions(secrets'[s]) \subseteq Versions(secrets[s])
                         /\ Versions(jobs'[s]) \subseteq Versions(jobs[s])
    BY <1>1, <2>1, RelistVersions
  <2>5. \A k \in Instances :
           Versions(statefulsets'[k]) \subseteq Versions(statefulsets[k])
    BY <1>1, <2>2, RelistVersions
  <2> QED  BY <2>3, <2>4, <2>5, QuietInv
<1> QED  BY <1>3, <1>4, <1>5, <1>6, <1>7, <1>8, <1>9 DEF Watch

\* The StatefulSet that the worker reads has its rollouts in order.
LEMMA GetKeycloakInv ==
    ASSUME ImportInv, TypeOK', GetKeycloak
    PROVE  ImportInv'
<1>1. UNCHANGED <<secrets, jobs, statefulsets, pods, realms>>
  BY DEF GetKeycloak, objects
<1>2. CASE \E st \in Status : Report(st)
  <2>1. w'.pc \notin Critical
    BY <1>2, Numbers DEF Report, Worker, Critical
  <2> QED  BY <1>1, <2>1, QuietInv
<1>3. CASE w' = [w EXCEPT !.pc = "secret",
                          !.sts = statefulsets[w.cr.spec.target].seen]
  <2> DEFINE k == w.cr.spec.target
             sts == statefulsets[k].seen
  <2>1. w'.pc = "secret" /\ w'.sts = sts /\ w'.cr = w.cr
    BY <1>3, Numbers DEF Worker
  <2>2. sts \in Versions(statefulsets[k])
    BY DEF Versions
  <2>3. \A i \in Imports : sts.ann[i] # 0 => Landed(<<NamespaceOf[k], NameOf[i]>>, sts.ann[i])
    BY <2>2, Numbers DEF ImportInv, RolloutInv
  <2>4. WorkerInv'
    BY <1>1, <2>1, <2>3 DEF WorkerInv, Landed
  <2>5. PodInv'
    BY <1>1, Still, PodFrame
  <2>6. \A s \in Slots : /\ Onward(s) /\ Covered(s)'
                         /\ secrets'[s].now.rv >= secrets[s].now.rv
    BY <1>1, Still
  <2> QED  BY <1>1, <2>4, <2>5, <2>6, StepInv
<1> QED  BY <1>2, <1>3 DEF GetKeycloak, Status

\* A job that is marked for deletion is otherwise what it was.
LEMMA ForegroundKeeps ==
    ASSUME NEW o \in Tracked(JobObj)
    PROVE  LET d == DeleteForeground(o) IN
           /\ d.now.live = o.now.live /\ d.now.uid = o.now.uid
           /\ d.now.ver = o.now.ver /\ d.now.phase = o.now.phase
           /\ d.now.into = o.now.into
           /\ Versions(d) \subseteq Versions(o) \cup {d.now}
<1>1. o.now \in JobObj
  BY DEF Tracked
<1>2. CASE o.now.del
  BY <1>2 DEF DeleteForeground
<1>3. CASE ~o.now.del
  <2>1. DeleteForeground(o) = Put(o, [o.now EXCEPT !.del = TRUE])
    BY <1>3 DEF DeleteForeground
  <2>2. /\ Put(o, [o.now EXCEPT !.del = TRUE]).now =
              [[o.now EXCEPT !.del = TRUE] EXCEPT !.rv = o.now.rv + 1]
        /\ Versions(DeleteForeground(o)) \subseteq
              Versions(o) \cup {DeleteForeground(o).now}
    BY <2>1, PutVersions
  <2> QED  BY <1>1, <2>1, <2>2 DEF JobObj
<1> QED  BY <1>2, <1>3

\* Marking a job for deletion, with a worker that is in order afterwards.
LEMMA MarkInv ==
    ASSUME ImportInv, TypeOK', NEW t \in Slots,
           jobs' = [jobs EXCEPT ![t] = DeleteForeground(@)],
           UNCHANGED <<secrets, statefulsets, pods, realms>>, WorkerInv'
    PROVE  ImportInv'
<1>1. \A s \in Slots :
         /\ jobs'[s].now.live = jobs[s].now.live
         /\ jobs'[s].now.uid = jobs[s].now.uid
         /\ jobs'[s].now.ver = jobs[s].now.ver
         /\ jobs'[s].now.phase = jobs[s].now.phase
         /\ jobs'[s].now.into = jobs[s].now.into
         /\ Versions(jobs'[s]) \subseteq Versions(jobs[s]) \cup {jobs'[s].now}
  <2>1. jobs'[t] = DeleteForeground(jobs[t])
    BY DEF ImportInv, TypeOK
  <2>2. \A s \in Slots \ {t} : jobs'[s] = jobs[s]
    BY DEF ImportInv, TypeOK
  <2> QED  BY <2>1, <2>2, Numbers, ForegroundKeeps
<1>2. PodInv'
  BY <1>1, Still, PodFrame
<1>3. \A s \in Slots : /\ Onward(s) /\ Covered(s)'
                       /\ secrets'[s].now.rv >= secrets[s].now.rv
  BY Still
<1>4. ASSUME NEW s \in Slots, NEW v \in Versions(jobs'[s])
      PROVE  \/ v \in Versions(jobs[s])
             \/ /\ v.ver <= secrets'[s].now.rv
                /\ v.live => NamespaceOf[v.into] = s[1]
                /\ v.phase = "complete" => Landed(s, v.ver)'
  <2>1. CASE v = jobs'[s].now
    <3>1. jobs[s].now \in Versions(jobs[s])
      BY DEF Versions
    <3>2. /\ jobs[s].now.ver <= secrets[s].now.rv
          /\ jobs[s].now.live => NamespaceOf[jobs[s].now.into] = s[1]
          /\ jobs[s].now.phase = "complete" => Landed(s, jobs[s].now.ver)
      BY <1>4, <3>1 DEF ImportInv, JobInv
    <3> QED  BY <1>1, <1>4, <2>1, <3>2 DEF Landed
  <2> QED  BY <1>1, <1>4, <2>1
<1> QED  BY <1>2, <1>3, <1>4, StepInv

\* The deletion of jobs in cleanupExternalResources preserves the invariant.
LEMMA CleanJobsInv ==
    ASSUME ImportInv, TypeOK', CleanJobs
    PROVE  ImportInv'
<1>1. UNCHANGED <<secrets, statefulsets, pods, realms>>
  BY DEF CleanJobs
<1>2. w'.pc \notin Critical
  BY Numbers DEF CleanJobs, Goto, Requeue, Idle, Worker, Critical
<1>3. WorkerInv'
  BY <1>2, WorkerFrame
<1>4. CASE UNCHANGED jobs
  BY <1>1, <1>2, <1>4, QuietInv
<1>5. CASE jobs' = [jobs EXCEPT ![Slot(w.key, w.cr.spec)] =
                       DeleteForeground(jobs[Slot(w.key, w.cr.spec)])]
  BY <1>1, <1>3, <1>5, Numbers, MarkInv
<1> QED  BY <1>4, <1>5 DEF CleanJobs

\* Listing jobs and deleting the outdated one preserves the invariant.
LEMMA ListJobsInv ==
    ASSUME ImportInv, TypeOK', ListJobs
    PROVE  ImportInv'
<1> DEFINE s == Slot(w.key, w.cr.spec)
           o == jobs[s]
<1>1. UNCHANGED <<secrets, statefulsets, pods, realms>>
  BY DEF ListJobs
<1>2. WorkerInv'
  <2>1. /\ w.ver <= secrets[s].now.rv
        /\ \A i \in Imports : w.sts.ann[i] # 0 =>
              Landed(<<NamespaceOf[w.cr.spec.target], NameOf[i]>>, w.sts.ann[i])
    BY DEF ImportInv, WorkerInv, ListJobs, At
  <2>2. CASE Goto("createJob")
    <3>1. w'.pc = "createJob" /\ w'.ver = w.ver /\ w'.key = w.key
          /\ w'.cr = w.cr /\ w'.sts = w.sts
      BY <2>2, Numbers DEF Goto, Worker
    <3> QED  BY <1>1, <2>1, <3>1 DEF WorkerInv, Landed
  <2>3. CASE Report("error")
    <3>1. w'.pc \notin Critical
      BY <2>3, Numbers DEF Report, Worker, Critical
    <3> QED  BY <3>1, WorkerFrame
  <2>4. CASE /\ o.seen.ver = w.ver
             /\ w' = [w EXCEPT !.pc = "rollout",
                               !.completed = o.seen.phase = "complete"]
    <3>1. /\ w'.pc = "rollout" /\ w'.ver = w.ver /\ w'.key = w.key
          /\ w'.cr = w.cr /\ w'.sts = w.sts
          /\ w'.completed = (o.seen.phase = "complete")
      BY <2>4, Numbers DEF Worker
    <3>2. o.seen.phase = "complete" => Landed(s, w.ver)
      BY <2>4, Numbers DEF ImportInv, JobInv, Versions
    <3> QED  BY <1>1, <2>1, <3>1, <3>2 DEF WorkerInv, Landed
  <2> QED  BY <2>2, <2>3, <2>4 DEF ListJobs
<1>3. CASE UNCHANGED jobs
  <2>1. PodInv'
    BY <1>1, <1>3, Still, PodFrame
  <2>2. \A x \in Slots : /\ Onward(x) /\ Covered(x)'
                         /\ secrets'[x].now.rv >= secrets[x].now.rv
    BY <1>1, Still
  <2> QED  BY <1>1, <1>2, <1>3, <2>1, <2>2, StepInv
<1>4. CASE jobs' = [jobs EXCEPT ![s] = DeleteForeground(o)]
  BY <1>1, <1>2, <1>4, Numbers, MarkInv
<1> QED  BY <1>3, <1>4 DEF ListJobs

\* Storing a version of a secret, with a worker that is in order afterwards.
LEMMA StoreInv ==
    ASSUME ImportInv, TypeOK', NEW t \in Slots, NEW new \in SecretObj,
           secrets' = [secrets EXCEPT ![t] = Put(@, new)],
           UNCHANGED <<jobs, statefulsets, pods, realms>>, WorkerInv'
    PROVE  ImportInv'
<1>1. \A s \in Slots :
         /\ secrets'[s].now.rv >= secrets[s].now.rv
         /\ \A v \in Versions(secrets'[s]) :
               \/ v \in Versions(secrets[s])
               \/ v.rv <= secrets'[s].now.rv /\ v.rv # 0
  <2>1. \A s \in Slots \ {t} : secrets'[s] = secrets[s]
    BY DEF ImportInv, TypeOK
  <2>2. secrets'[t] = Put(secrets[t], new)
    BY DEF ImportInv, TypeOK
  <2>3. /\ secrets'[t].now = [new EXCEPT !.rv = secrets[t].now.rv + 1]
        /\ Versions(secrets'[t]) \subseteq
              Versions(secrets[t]) \cup {secrets'[t].now}
    BY <2>2, Numbers, PutVersions
  <2>4. secrets'[t].now.rv = secrets[t].now.rv + 1
    BY <2>3 DEF SecretObj
  <2> QED  BY <2>1, <2>3, <2>4, Numbers
<1>2. PodInv'
  BY <1>1, PodFrame
<1>3. ASSUME NEW s \in Slots PROVE Onward(s) /\ Covered(s)'
  <2>1. secrets'[s].now.rv \in Nat
    BY VersionTypes DEF TypeOK
  <2>2. \A k \in Instances : realms[s][k].rv <= secrets'[s].now.rv
    BY <1>1, <2>1, Numbers DEF Covered
  <2> QED  BY <2>2, Numbers DEF Onward, Covered
<1> QED  BY <1>1, <1>2, <1>3, StepInv

\* The deletion of secrets in cleanupExternalResources preserves the
\* invariant.
LEMMA CleanSecretsInv ==
    ASSUME ImportInv, TypeOK', CleanSecrets
    PROVE  ImportInv'
<1> DEFINE s == Slot(w.key, w.cr.spec)
           o == secrets[s]
<1>1. UNCHANGED <<jobs, statefulsets, pods, realms>>
  BY DEF CleanSecrets
<1>2. w'.pc \notin Critical
  BY Numbers DEF CleanSecrets, Goto, Requeue, Idle, Worker, Critical
<1>3. WorkerInv'
  BY <1>2, WorkerFrame
<1>4. CASE UNCHANGED secrets
  BY <1>1, <1>2, <1>4, QuietInv
<1>5. CASE secrets' = [secrets EXCEPT ![s] = Remove(o)]
  <2>1. o.now \in SecretObj
    BY Numbers DEF Tracked
  <2>2. [o.now EXCEPT !.live = FALSE] \in SecretObj
    BY <2>1 DEF SecretObj
  <2>3. secrets' = [secrets EXCEPT ![s] =
                       Put(@, [o.now EXCEPT !.live = FALSE])]
    BY <1>5 DEF Remove
  <2> QED  BY <1>1, <1>3, <2>2, <2>3, Numbers, StoreInv
<1> QED  BY <1>4, <1>5 DEF CleanSecrets

\* The worker leaves ApplySecret with a version that is stored, or was.
LEMMA ApplySecretInv ==
    ASSUME ImportInv, TypeOK', ApplySecret
    PROVE  ImportInv'
<1> DEFINE s == Slot(w.key, w.cr.spec)
           o == secrets[s]
           v == [o.now EXCEPT !.live = TRUE, !.owner = w.key,
                              !.data = Content(w.cr.spec)]
<1>1. UNCHANGED <<jobs, statefulsets, pods, realms>>
  BY DEF ApplySecret
<1>2. \A i \in Imports : w.sts.ann[i] # 0 =>
         Landed(<<NamespaceOf[w.cr.spec.target], NameOf[i]>>, w.sts.ann[i])
  BY DEF ImportInv, WorkerInv, ApplySecret, At
<1>3. ASSUME NEW ver,
             w' = [w EXCEPT !.pc = "listJobs", !.ver = ver],
             ver <= secrets'[s].now.rv
      PROVE  WorkerInv'
  <2>1. /\ w'.pc = "listJobs" /\ w'.ver = ver /\ w'.key = w.key
        /\ w'.cr = w.cr /\ w'.sts = w.sts
    BY <1>3, Numbers DEF Worker
  <2> QED  BY <1>1, <1>2, <1>3, <2>1 DEF WorkerInv, Landed
<1>4. CASE Report("error") /\ UNCHANGED secrets
  <2>1. w'.pc \notin Critical
    BY <1>4, Numbers DEF Report, Worker, Critical
  <2> QED  BY <1>1, <1>4, <2>1, QuietInv
<1>5. CASE /\ w' = [w EXCEPT !.pc = "listJobs", !.ver = o.seen.rv]
           /\ UNCHANGED secrets
  <2>1. o.seen.rv <= secrets[s].now.rv
    BY Numbers DEF ImportInv, SecretInv, Versions
  <2>2. WorkerInv'
    BY <1>3, <1>5, <2>1
  <2>3. PodInv'
    BY <1>1, <1>5, Still, PodFrame
  <2>4. \A x \in Slots : /\ Onward(x) /\ Covered(x)'
                         /\ secrets'[x].now.rv >= secrets[x].now.rv
    BY <1>1, <1>5, Still
  <2> QED  BY <1>1, <1>5, <2>2, <2>3, <2>4, StepInv
<1>6. CASE /\ secrets' = [secrets EXCEPT ![s] = Put(o, v)]
           /\ w' = [w EXCEPT !.pc = "listJobs", !.ver = Put(o, v).now.rv]
  <2>1. secrets'[s] = Put(o, v)
    BY <1>6, Numbers DEF ImportInv, TypeOK
  <2>2. v \in SecretObj
    <3>1. secrets'[s].now \in SecretObj
      BY Numbers DEF TypeOK, Tracked
    <3>2. secrets'[s].now = [v EXCEPT !.rv = o.now.rv + 1]
      BY <2>1, Numbers, PutVersions
    <3>3. o.now \in SecretObj
      BY Numbers DEF Tracked
    <3>4. secrets'[s].now.data = Content(w.cr.spec)
      BY <3>2, <3>3 DEF SecretObj
    <3>5. Content(w.cr.spec) \in Data \cup {NoValue}
      BY <3>1, <3>4 DEF SecretObj
    <3> QED  BY <3>3, <3>5, Numbers DEF SecretObj
  <2>3. WorkerInv'
    <3>1. secrets'[s].now.rv \in Nat
      BY Numbers, VersionTypes DEF TypeOK
    <3> DEFINE ver == Put(o, v).now.rv
    <3>2. ver <= secrets'[s].now.rv
      BY <2>1, <3>1
    <3>3. w' = [w EXCEPT !.pc = "listJobs", !.ver = ver]
      BY <1>6
    <3> HIDE DEF ver
    <3> QED  BY <1>3, <3>2, <3>3
  <2>4. secrets' = [secrets EXCEPT ![s] = Put(@, v)]
    BY <1>6
  <2> HIDE DEF v
  <2> QED  BY <1>1, <2>2, <2>3, <2>4, Numbers, StoreInv
<1>7. CASE Requeue /\ UNCHANGED secrets
  <2>1. w'.pc \notin Critical
    BY <1>7 DEF Requeue, Idle, Critical
  <2> QED  BY <1>1, <1>7, <2>1, QuietInv
<1> QED  BY <1>4, <1>5, <1>6, <1>7 DEF ApplySecret

\* A new job finds the slot without pods.
LEMMA CreateJobInv ==
    ASSUME ImportInv, TypeOK', CreateJob
    PROVE  ImportInv'
<1> DEFINE t == Slot(w.key, w.cr.spec)
           o == jobs[t]
<1>1. UNCHANGED <<secrets, statefulsets, pods, realms>>
  BY DEF CreateJob
<1>2. w'.pc \notin Critical
  <2>1. CASE Report("waiting")
    BY <2>1, Numbers DEF Report, Worker, Critical
  <2>2. CASE Requeue
    BY <2>2 DEF Requeue, Idle, Critical
  <2> QED  BY <2>1, <2>2 DEF CreateJob
<1>3. CASE UNCHANGED jobs
  BY <1>1, <1>2, <1>3, QuietInv
<1>4. CASE ~o.now.live /\ jobs' = [jobs EXCEPT ![t] = Put(o, NewJob(o))]
  <2>1. /\ jobs'[t] = Put(o, NewJob(o))
        /\ \A s \in Slots \ {t} : jobs'[s] = jobs[s]
    BY <1>4, Numbers DEF ImportInv, TypeOK
  <2>2. /\ Versions(jobs'[t]) \subseteq Versions(jobs[t]) \cup {jobs'[t].now}
        /\ jobs'[t].now.ver = w.ver /\ jobs'[t].now.phase = "active"
        /\ jobs'[t].now.into = w.cr.spec.target
    <3>1. /\ Versions(jobs'[t]) \subseteq Versions(jobs[t]) \cup {jobs'[t].now}
          /\ jobs'[t].now = [NewJob(o) EXCEPT !.rv = o.now.rv + 1]
      BY <2>1, Numbers, PutVersions
    <3> QED  BY <3>1 DEF NewJob
  <2>3. pods[t] = {}
    BY <1>4, Numbers DEF ImportInv, PodInv
  <2>4. PodInv'
    BY <1>1, <2>1, <2>3, Still, PodFrame
  <2>5. WorkerInv'
    BY <1>2, WorkerFrame
  <2>6. \A s \in Slots : /\ Onward(s) /\ Covered(s)'
                         /\ secrets'[s].now.rv >= secrets[s].now.rv
    BY <1>1, Still
  <2>7. w.ver <= secrets'[t].now.rv
    BY <1>1 DEF ImportInv, WorkerInv, CreateJob, At
  <2>8. ASSUME NEW s \in Slots, NEW v \in Versions(jobs'[s])
        PROVE  \/ v \in Versions(jobs[s])
               \/ /\ v.ver <= secrets'[s].now.rv
                  /\ v.live => NamespaceOf[v.into] = s[1]
                  /\ v.phase = "complete" => Landed(s, v.ver)'
    BY <2>1, <2>2, <2>7, <2>8, Numbers
  <2> QED  BY <1>1, <2>4, <2>5, <2>6, <2>8, StepInv
<1> QED  BY <1>3, <1>4 DEF CreateJob

\* The rollout writes what the worker has read, and one annotation more.
LEMMA RolloutStepInv ==
    ASSUME ImportInv, TypeOK', Rollout
    PROVE  ImportInv'
<1> DEFINE k == w.cr.spec.target
           o == statefulsets[k]
           v == [w.sts EXCEPT !.ann[w.key] = w.ver]
<1>1. UNCHANGED <<secrets, jobs, pods, realms>>
  BY DEF Rollout
<1>2. w'.pc \notin Critical
  <2>1. CASE Report("ready")
    BY <2>1, Numbers DEF Report, Worker, Critical
  <2>2. CASE Requeue
    BY <2>2 DEF Requeue, Idle, Critical
  <2> QED  BY <2>1, <2>2 DEF Rollout
<1>3. CASE UNCHANGED statefulsets
  BY <1>1, <1>2, <1>3, QuietInv
<1>4. CASE w.completed /\ statefulsets' = [statefulsets EXCEPT ![k] = Put(o, v)]
  <2>1. /\ statefulsets'[k] = Put(o, v)
        /\ \A x \in Instances \ {k} : statefulsets'[x] = statefulsets[x]
    BY <1>4, Numbers DEF ImportInv, TypeOK
  <2>2. /\ Versions(statefulsets'[k]) \subseteq
              Versions(statefulsets[k]) \cup {statefulsets'[k].now}
        /\ statefulsets'[k].now = [v EXCEPT !.rv = o.now.rv + 1]
    <3>1. o \in Tracked(StatefulSetObj)
      BY Numbers
    <3>2. /\ Put(o, v).now = [v EXCEPT !.rv = o.now.rv + 1]
          /\ Versions(Put(o, v)) \subseteq Versions(o) \cup {Put(o, v).now}
      BY <3>1, PutVersions, ZenonT(30)
    <3> HIDE DEF v
    <3> QED  BY <2>1, <3>2
  <2>3. w.sts \in StatefulSetObj /\ w.sts.ann \in [Imports -> Nat]
    BY Numbers DEF Worker, StatefulSetObj
  <2>4. statefulsets'[k].now.ann = [w.sts.ann EXCEPT ![w.key] = w.ver]
    BY <2>2, <2>3 DEF StatefulSetObj
  <2>5. /\ Landed(<<NamespaceOf[k], NameOf[w.key]>>, w.ver)
        /\ \A i \in Imports : w.sts.ann[i] # 0 =>
              Landed(<<NamespaceOf[k], NameOf[i]>>, w.sts.ann[i])
    BY <1>4 DEF ImportInv, WorkerInv, Rollout, At, Slot
  <2>6. \A i \in Imports : statefulsets'[k].now.ann[i] # 0 =>
           Landed(<<NamespaceOf[k], NameOf[i]>>, statefulsets'[k].now.ann[i])
    BY <2>3, <2>4, <2>5
  <2>7. PodInv'
    BY <1>1, Still, PodFrame
  <2>8. WorkerInv'
    BY <1>2, WorkerFrame
  <2>9. \A s \in Slots : /\ Onward(s) /\ Covered(s)'
                         /\ secrets'[s].now.rv >= secrets[s].now.rv
    BY <1>1, Still
  <2>10. \A x \in Instances : \A y \in Versions(statefulsets'[x]) :
            \/ y \in Versions(statefulsets[x])
            \/ \A i \in Imports : y.ann[i] # 0 =>
                  Landed(<<NamespaceOf[x], NameOf[i]>>, y.ann[i])'
    <3> SUFFICES ASSUME NEW x \in Instances, NEW y \in Versions(statefulsets'[x]),
                        y \notin Versions(statefulsets[x]),
                        NEW i \in Imports, y.ann[i] # 0
                 PROVE  Landed(<<NamespaceOf[x], NameOf[i]>>, y.ann[i])'
      OBVIOUS
    <3>1. Landed(<<NamespaceOf[x], NameOf[i]>>, y.ann[i])
      BY <2>1, <2>2, <2>6
    <3> QED  BY <1>1, <3>1 DEF Landed
  <2> QED  BY <1>1, <2>7, <2>8, <2>9, <2>10, StepInv
<1> QED  BY <1>3, <1>4 DEF Rollout, RolloutDue

\* The writers of the instance keep the annotations or start with none.
LEMMA WriteStatefulSetInv ==
    ASSUME ImportInv, TypeOK', NEW k \in Instances, WriteStatefulSet(k)
    PROVE  ImportInv'
<1> DEFINE o == statefulsets[k]
<1>1. UNCHANGED <<secrets, jobs, pods, realms, w>>
  BY DEF WriteStatefulSet
<1>2. o \in Tracked(StatefulSetObj) /\ o.now \in StatefulSetObj
  BY Numbers DEF Tracked
<1>3. /\ \A x \in Instances \ {k} : statefulsets'[x] = statefulsets[x]
      /\ Versions(statefulsets'[k]) \subseteq
            Versions(o) \cup {statefulsets'[k].now}
      /\ \/ statefulsets'[k].now.ann = o.now.ann
         \/ statefulsets'[k].now.ann = [i \in Imports |-> 0]
  <2>1. ASSUME NEW v \in StatefulSetObj,
               statefulsets' = [statefulsets EXCEPT ![k] = Put(o, v)],
               v.ann = o.now.ann \/ v.ann = [i \in Imports |-> 0]
        PROVE  /\ \A x \in Instances \ {k} : statefulsets'[x] = statefulsets[x]
               /\ Versions(statefulsets'[k]) \subseteq
                     Versions(o) \cup {statefulsets'[k].now}
               /\ \/ statefulsets'[k].now.ann = o.now.ann
                  \/ statefulsets'[k].now.ann = [i \in Imports |-> 0]
    <3>1. /\ statefulsets'[k] = Put(o, v)
          /\ \A x \in Instances \ {k} : statefulsets'[x] = statefulsets[x]
      BY <2>1 DEF ImportInv, TypeOK
    <3>2. /\ Versions(statefulsets'[k]) \subseteq
                Versions(o) \cup {statefulsets'[k].now}
          /\ statefulsets'[k].now = [v EXCEPT !.rv = o.now.rv + 1]
      BY <1>2, <3>1, PutVersions
    <3> QED  BY <2>1, <3>1, <3>2 DEF StatefulSetObj
  <2>2. /\ [o.now EXCEPT !.live = FALSE] \in StatefulSetObj
        /\ [o.now EXCEPT !.live = FALSE].ann = o.now.ann
    BY <1>2 DEF StatefulSetObj
  <2>3. /\ [NoStatefulSet EXCEPT !.live = TRUE] \in StatefulSetObj
        /\ [NoStatefulSet EXCEPT !.live = TRUE].ann = [i \in Imports |-> 0]
    BY DEF NoStatefulSet, StatefulSetObj
  <2>4. CASE statefulsets' = [statefulsets EXCEPT ![k] = Put(o, o.now)]
    BY <1>2, <2>1, <2>4
  <2>5. CASE statefulsets' = [statefulsets EXCEPT ![k] = Remove(o)]
    BY <2>1, <2>2, <2>5 DEF Remove
  <2>6. CASE statefulsets' = [statefulsets EXCEPT ![k] =
                Put(o, [NoStatefulSet EXCEPT !.live = TRUE])]
    BY <2>1, <2>3, <2>6
  <2> QED  BY <2>4, <2>5, <2>6 DEF WriteStatefulSet
<1>4. \A i \in Imports : statefulsets'[k].now.ann[i] # 0 =>
         Landed(<<NamespaceOf[k], NameOf[i]>>, statefulsets'[k].now.ann[i])
  <2>1. \A i \in Imports : o.now.ann[i] # 0 =>
           Landed(<<NamespaceOf[k], NameOf[i]>>, o.now.ann[i])
    BY DEF ImportInv, RolloutInv, Versions
  <2> QED  BY <1>3, <2>1
<1>5. PodInv'
  BY <1>1, Still, PodFrame
<1>6. \A s \in Slots : /\ Onward(s) /\ Covered(s)'
                       /\ secrets'[s].now.rv >= secrets[s].now.rv
  BY <1>1, Still
<1>7. WorkerInv'
  BY <1>1, <1>6, WorkerFrame
<1>8. \A x \in Instances : \A y \in Versions(statefulsets'[x]) :
         \/ y \in Versions(statefulsets[x])
         \/ \A i \in Imports : y.ann[i] # 0 =>
               Landed(<<NamespaceOf[x], NameOf[i]>>, y.ann[i])'
  <2> SUFFICES ASSUME NEW x \in Instances, NEW y \in Versions(statefulsets'[x]),
                      y \notin Versions(statefulsets[x]),
                      NEW i \in Imports, y.ann[i] # 0
               PROVE  Landed(<<NamespaceOf[x], NameOf[i]>>, y.ann[i])'
    OBVIOUS
  <2>1. Landed(<<NamespaceOf[x], NameOf[i]>>, y.ann[i])
    BY <1>3, <1>4
  <2> QED  BY <1>1, <2>1 DEF Landed
<1> QED  BY <1>1, <1>5, <1>6, <1>7, <1>8, StepInv

-----------------------------------------------------------------------------
\* The Job controller and the pods.  PodSucceeds is where the realm moves: the
\* only pod of the slot has read a version that is not older than the realm.
LEMMA PodStepsInv ==
    ASSUME ImportInv, TypeOK', NEW t \in Slots, StartPod(t) \/ PodSucceeds(t)
    PROVE  ImportInv' /\ \A s \in Slots : Onward(s)
<1>1. UNCHANGED <<secrets, jobs, statefulsets, w>>
  BY DEF StartPod, PodSucceeds, objects
<1>2. pods \in [Slots -> SUBSET PodObj] /\ TypeOK /\ PodInv
  BY DEF ImportInv, TypeOK
<1>3. CASE StartPod(t)
  <2> DEFINE j == jobs[t].now
             x == secrets[t].now
             p == [uid |-> j.uid, ver |-> j.ver, rv |-> x.rv, data |-> x.data,
                   into |-> j.into, override |-> j.override, done |-> FALSE]
  <2>1. /\ pods' = [pods EXCEPT ![t] = @ \cup {p}] /\ realms' = realms
        /\ j.live /\ x.live /\ OwnPods(t) = {}
    BY <1>3 DEF StartPod
  <2>2. pods[t] = {}
    BY <1>2, <2>1 DEF PodInv, OwnPods
  <2>3. /\ pods'[t] = {p} /\ \A s \in Slots \ {t} : pods'[s] = pods[s]
    BY <1>2, <2>1, <2>2
  <2>4. /\ x.rv # 0 /\ j.ver <= x.rv /\ Covered(t)
        /\ x.rv \in Nat /\ j.ver \in Nat /\ NamespaceOf[j.into] = t[1]
    <3>1. x \in Versions(secrets[t]) /\ j \in Versions(jobs[t])
      BY DEF Versions
    <3> QED  BY <2>1, <3>1, Numbers, VersionTypes
                DEF ImportInv, SecretInv, JobInv
  <2>5. PodInv'
    <3> SUFFICES ASSUME NEW s \in Slots
                 PROVE  /\ \A a, b \in pods'[s] : a = b
                        /\ \A q \in pods'[s] :
                              /\ jobs'[s].now.live /\ q.uid = jobs'[s].now.uid
                              /\ q.ver = jobs'[s].now.ver
                              /\ q.rv <= secrets'[s].now.rv
                              /\ q.rv >= q.ver /\ q.rv # 0
                              /\ NamespaceOf[q.into] = s[1]
                              /\ ~q.done => \A k \in Instances :
                                              realms'[s][k].rv <= q.rv
                              /\ q.done => Landed(s, q.ver)'
      BY DEF PodInv
    <3>1. CASE s = t
      <4>1. /\ p.uid = j.uid /\ p.ver = j.ver /\ p.rv = x.rv
            /\ p.into = j.into /\ p.done = FALSE
        OBVIOUS
      <4>2. \A k \in Instances : realms'[t][k].rv <= x.rv
        BY <2>1, <2>4 DEF Covered
      <4> HIDE DEF p
      <4> QED  BY <1>1, <2>1, <2>3, <2>4, <3>1, <4>1, <4>2
    <3>2. CASE s # t
      BY <1>1, <1>2, <2>1, <2>3, <3>2 DEF PodInv, Landed
    <3> QED  BY <3>1, <3>2
  <2>6. \A s \in Slots : /\ Onward(s) /\ Covered(s)'
                         /\ secrets'[s].now.rv >= secrets[s].now.rv
    BY <1>1, <2>1, Still
  <2>7. WorkerInv'
    BY <1>1, <2>6, WorkerFrame
  <2>8. ImportInv'
    BY <1>1, <2>5, <2>6, <2>7, StepInv
  <2> QED  BY <2>6, <2>8
<1>4. CASE PodSucceeds(t)
  <2> PICK p \in pods[t] :
         /\ ~p.done
         /\ pods' = [pods EXCEPT ![t] =
                (@ \ {p}) \cup {[p EXCEPT !.done = TRUE]}]
         /\ realms' = IF p.override \/ realms[t][p.into].rv = 0
                      THEN [realms EXCEPT ![t][p.into] =
                               [rv |-> p.rv, data |-> p.data]]
                      ELSE realms
    BY <1>4 DEF PodSucceeds
  <2> DEFINE d == [p EXCEPT !.done = TRUE]
  <2>1. /\ p \in PodObj /\ p.rv \in Nat /\ p.ver \in Nat
        /\ p.override \in Overrides /\ p.into \in Instances
        /\ d.uid = p.uid /\ d.ver = p.ver /\ d.rv = p.rv
        /\ d.into = p.into /\ d.done
    BY <1>2 DEF PodObj
  <2>2. /\ jobs[t].now.live /\ p.uid = jobs[t].now.uid
        /\ p.ver = jobs[t].now.ver
        /\ p.rv <= secrets[t].now.rv /\ p.rv >= p.ver /\ p.rv # 0
        /\ NamespaceOf[p.into] = t[1]
        /\ \A k \in Instances : realms[t][k].rv <= p.rv
    BY <1>2 DEF PodInv
  <2>3. /\ pods'[t] = {d} /\ \A s \in Slots \ {t} : pods'[s] = pods[s]
    <3>1. pods[t] = {p}
      BY <1>2 DEF PodInv
    <3> HIDE DEF d
    <3>2. pods' = [pods EXCEPT ![t] = (@ \ {p}) \cup {d}]
      BY DEF d
    <3> QED  BY <1>2, <3>1, <3>2
  <2>4. /\ \A s \in Slots \ {t} : realms'[s] = realms[s]
        /\ \A k \in Instances : realms'[t][k].rv \in {realms[t][k].rv, p.rv}
        /\ realms'[t][p.into].rv # 0
        /\ AllOverride => realms'[t][p.into].rv = p.rv
    <3>1. realms \in [Slots -> [Instances -> [rv: Nat, data: Data \cup {NoValue}]]]
      BY <1>2 DEF TypeOK
    <3>2. AllOverride => p.override
      BY <2>1, JobsOverride
    <3>3. CASE p.override \/ realms[t][p.into].rv = 0
      <4> DEFINE r == [rv |-> p.rv, data |-> p.data]
      <4>1. realms' = [realms EXCEPT ![t][p.into] = r] /\ r.rv = p.rv
        BY <3>3
      <4> HIDE DEF r
      <4>2. /\ \A s \in Slots \ {t} : realms'[s] = realms[s]
            /\ \A k \in Instances \ {p.into} : realms'[t][k] = realms[t][k]
            /\ realms'[t][p.into] = r
        BY <2>1, <3>1, <4>1
      <4> QED  BY <2>2, <4>1, <4>2
    <3>4. CASE ~(p.override \/ realms[t][p.into].rv = 0)
      BY <3>2, <3>4
    <3> QED  BY <3>3, <3>4
  <2>5. \A s \in Slots : /\ Onward(s) /\ Covered(s)'
                         /\ secrets'[s].now.rv >= secrets[s].now.rv
    <3>1. \A k \in Instances :
             /\ realms[t][k].rv \in Nat /\ realms'[t][k].rv >= realms[t][k].rv
             /\ realms'[t][k].rv <= secrets[t].now.rv
      <4> TAKE k \in Instances
      <4>1. realms[t][k].rv <= secrets[t].now.rv /\ realms[t][k].rv \in Nat
        BY Numbers DEF Covered
      <4> QED  BY <2>1, <2>2, <2>4, <4>1, Numbers
    <3>2. \A s \in Slots \ {t} : Onward(s) /\ Covered(s)'
      BY <1>1, <2>4, Numbers DEF Onward, Covered
    <3>3. Onward(t) /\ Covered(t)'
      BY <1>1, <3>1 DEF Onward, Covered
    <3> QED  BY <1>1, <3>2, <3>3, Numbers
  <2>6. Landed(t, p.ver)'
    BY <2>1, <2>2, <2>4 DEF Landed, Holds
  <2>7. PodInv'
    <3> SUFFICES ASSUME NEW s \in Slots
                 PROVE  /\ \A a, b \in pods'[s] : a = b
                        /\ \A q \in pods'[s] :
                              /\ jobs'[s].now.live /\ q.uid = jobs'[s].now.uid
                              /\ q.ver = jobs'[s].now.ver
                              /\ q.rv <= secrets'[s].now.rv
                              /\ q.rv >= q.ver /\ q.rv # 0
                              /\ NamespaceOf[q.into] = s[1]
                              /\ ~q.done => \A k \in Instances :
                                              realms'[s][k].rv <= q.rv
                              /\ q.done => Landed(s, q.ver)'
      BY DEF PodInv
    <3>1. CASE s = t
      <4> HIDE DEF d
      <4> QED  BY <1>1, <2>1, <2>2, <2>3, <2>6, <3>1
    <3>2. CASE s # t
      BY <1>1, <1>2, <2>3, <2>4, <3>2 DEF PodInv, Landed
    <3> QED  BY <3>1, <3>2
  <2>8. WorkerInv'
    BY <1>1, <2>5, WorkerFrame
  <2>9. ImportInv'
    BY <1>1, <2>5, <2>7, <2>8, StepInv
  <2> QED  BY <2>5, <2>9
<1> QED  BY <1>3, <1>4

\* The steps of the Job controller and of its pods preserve the invariant.
LEMMA JobStepsInv ==
    ASSUME ImportInv, TypeOK', NEW t \in Slots,
           JobCompletes(t) \/ PodFails(t) \/ KillPod(t) \/ JobGone(t)
    PROVE  ImportInv'
<1>1. UNCHANGED <<secrets, statefulsets, realms, w>>
  BY DEF JobCompletes, PodFails, KillPod, JobGone, objects
<1>2. /\ pods \in [Slots -> SUBSET PodObj] /\ PodInv /\ JobInv
      /\ jobs \in [Slots -> Tracked(JobObj)]
      /\ jobs[t] \in Tracked(JobObj) /\ jobs[t].now \in JobObj
  BY DEF ImportInv, TypeOK, Tracked
<1>3. /\ WorkerInv'
      /\ \A s \in Slots : /\ Onward(s) /\ Covered(s)'
                          /\ secrets'[s].now.rv >= secrets[s].now.rv
  BY <1>1, Still, WorkerFrame
<1>4. \A s \in Slots : pods'[s] \subseteq pods[s]
  BY <1>2 DEF JobCompletes, PodFails, KillPod, JobGone
<1>5. CASE KillPod(t)
  <2>1. jobs' = jobs
    BY <1>5 DEF KillPod, objects
  <2>2. PodInv'
    BY <1>1, <1>3, <1>4, <2>1, PodFrame
  <2> QED  BY <1>1, <1>3, <2>1, <2>2, StepInv
<1>6. ASSUME NEW v \in JobObj,
             jobs' = [jobs EXCEPT ![t] = Put(@, v)],
             v.uid = jobs[t].now.uid, v.ver = jobs[t].now.ver,
             v.into = jobs[t].now.into, v.live => jobs[t].now.live,
             v.live \/ pods'[t] = {},
             v.phase = "complete" => Landed(t, v.ver)
      PROVE  ImportInv'
  <2>1. /\ jobs'[t] = Put(jobs[t], v)
        /\ \A s \in Slots \ {t} : jobs'[s] = jobs[s]
    BY <1>2, <1>6
  <2>2. /\ jobs'[t].now = [v EXCEPT !.rv = jobs[t].now.rv + 1]
        /\ Versions(jobs'[t]) \subseteq Versions(jobs[t]) \cup {jobs'[t].now}
    BY <1>2, <2>1, PutVersions
  <2>3. /\ jobs'[t].now.live = v.live /\ jobs'[t].now.uid = v.uid
        /\ jobs'[t].now.ver = v.ver /\ jobs'[t].now.phase = v.phase
        /\ jobs'[t].now.into = v.into
    BY <1>6, <2>2 DEF JobObj
  <2>4. PodInv'
    BY <1>1, <1>3, <1>4, <1>6, <2>1, <2>3, PodFrame
  <2>5. /\ v.ver <= secrets'[t].now.rv
        /\ v.live => NamespaceOf[v.into] = t[1]
    BY <1>1, <1>2, <1>6 DEF JobInv, Versions
  <2>6. ASSUME NEW s \in Slots, NEW y \in Versions(jobs'[s])
        PROVE  \/ y \in Versions(jobs[s])
               \/ /\ y.ver <= secrets'[s].now.rv
                  /\ y.live => NamespaceOf[y.into] = s[1]
                  /\ y.phase = "complete" => Landed(s, y.ver)'
    <3>1. CASE y \notin Versions(jobs[s])
      <4>1. /\ s = t /\ y.ver = v.ver /\ y.phase = v.phase
            /\ y.into = v.into /\ y.live = v.live
        BY <2>1, <2>2, <2>3, <2>6, <3>1
      <4>2. y.phase = "complete" => Landed(s, y.ver)
        BY <1>6, <4>1
      <4> QED  BY <1>1, <2>5, <4>1, <4>2 DEF Landed
    <3> QED  BY <3>1
  <2> QED  BY <1>1, <1>3, <2>4, <2>6, StepInv
<1>7. CASE JobCompletes(t)
  <2> DEFINE v == [jobs[t].now EXCEPT !.phase = "complete"]
  <2>1. /\ v \in JobObj /\ v.uid = jobs[t].now.uid /\ v.ver = jobs[t].now.ver
        /\ v.into = jobs[t].now.into
        /\ v.live = jobs[t].now.live
    BY <1>2 DEF JobObj
  <2>2. v.live /\ Landed(t, v.ver)
    BY <1>2, <1>7, <2>1 DEF JobCompletes, OwnPods, PodInv
  <2>3. jobs' = [jobs EXCEPT ![t] = Put(@, v)]
    BY <1>7 DEF JobCompletes
  <2> HIDE DEF v
  <2> QED  BY <1>6, <2>1, <2>2, <2>3
<1>8. CASE PodFails(t)
  <2> DEFINE v == [jobs[t].now EXCEPT !.phase = "failed"]
  <2>1. /\ v \in JobObj /\ v.uid = jobs[t].now.uid /\ v.ver = jobs[t].now.ver
        /\ v.into = jobs[t].now.into
        /\ v.live = jobs[t].now.live /\ v.phase = "failed"
    BY <1>2 DEF JobObj
  <2>2. jobs' = [jobs EXCEPT ![t] = Put(@, v)] /\ v.live
    BY <1>8, <2>1 DEF PodFails
  <2> HIDE DEF v
  <2> QED  BY <1>6, <2>1, <2>2
<1>9. CASE JobGone(t)
  <2> DEFINE v == [jobs[t].now EXCEPT !.live = FALSE]
  <2>1. /\ v \in JobObj /\ v.uid = jobs[t].now.uid /\ v.ver = jobs[t].now.ver
        /\ v.into = jobs[t].now.into
        /\ v.phase = jobs[t].now.phase /\ ~v.live
    BY <1>2 DEF JobObj
  <2>2. jobs' = [jobs EXCEPT ![t] = Put(@, v)]
    BY <1>9 DEF JobGone, Remove
  <2>3. pods'[t] = {}
    BY <1>2, <1>9 DEF JobGone, OwnPods, PodInv
  <2>4. v.phase = "complete" => Landed(t, v.ver)
    BY <1>2, <2>1 DEF JobInv, Versions
  <2> HIDE DEF v
  <2> QED  BY <1>6, <2>1, <2>2, <2>3, <2>4
<1> QED  BY <1>5, <1>7, <1>8, <1>9

\* Every step preserves the inductive invariant.
LEMMA NextInv == ImportInv /\ [Next]_vars => ImportInv'
<1> SUFFICES ASSUME ImportInv, [Next]_vars PROVE ImportInv'
  OBVIOUS
<1>1. TypeOK
  BY DEF ImportInv
<1>2. TypeOK'
  BY <1>1, TypeStep
<1>3. CASE Next
  BY <1>2, <1>3, QuietSteps, QuietEnvironment, GetKeycloakInv, CleanJobsInv,
     CleanSecretsInv, ApplySecretInv, ListJobsInv, CreateJobInv,
     RolloutStepInv, WriteStatefulSetInv, PodStepsInv, JobStepsInv
     DEF Next, Reconcile, InstanceWriter, JobController
<1>4. CASE UNCHANGED vars
  <2>1. UNCHANGED <<secrets, jobs, statefulsets, pods, realms, w>>
    BY <1>4 DEF vars, objects
  <2> QED  BY <1>2, <2>1, QuietInv
<1> QED  BY <1>3, <1>4

\* The invariant above holds throughout.
THEOREM Invariance == Spec => []ImportInv
BY InitInv, NextInv, PTL DEF Spec

\* For any number of imports, instances and sources, whatever caches show and
\* whenever the operator is restarted, the server is rolled out only for a
\* realm that is in its database, or in that of an instance that shares its
\* namespace.
THEOREM RolloutSafety == Spec => []RolloutFollowsImport
<1>1. ASSUME ImportInv PROVE RolloutFollowsImport
  <2> SUFFICES ASSUME NEW k \in Instances, NEW i \in Imports,
                      statefulsets[k].now.ann[i] # 0
               PROVE  \E x \in Instances :
                         /\ NamespaceOf[x] = NamespaceOf[k]
                         /\ LandedIn(x, i, statefulsets[k].now.ann[i])
    BY DEF RolloutFollowsImport
  <2> DEFINE s == <<NamespaceOf[k], NameOf[i]>>
             ann == statefulsets[k].now.ann[i]
  <2>1. Landed(s, ann)
    BY <1>1 DEF ImportInv, RolloutInv, Versions
  <2>2. PICK x \in Instances : /\ NamespaceOf[x] = s[1] /\ realms[s][x].rv # 0
                               /\ AllOverride => realms[s][x].rv >= ann
    BY <2>1 DEF Landed, Holds
  <2> QED  BY <2>2 DEF LandedIn, Realm
<1> QED  BY <1>1, Invariance, PTL

\* No two instances share a namespace.
NamespaceEach == \A k, x \in Instances : NamespaceOf[k] = NamespaceOf[x] => k = x

\* Where no two instances share a namespace, the server is rolled out only for
\* a realm that is in its own database.
THEOREM OwnRolloutSafety ==
    NamespaceEach => (Spec => []RolloutFollowsOwnImport)
<1> SUFFICES ASSUME NamespaceEach PROVE Spec => []RolloutFollowsOwnImport
  OBVIOUS
<1>1. RolloutFollowsImport => RolloutFollowsOwnImport
  BY DEF NamespaceEach, RolloutFollowsImport, RolloutFollowsOwnImport
<1> QED  BY <1>1, RolloutSafety, PTL

\* Two pods never import the same realm at the same time.
THEOREM ImportExclusion == Spec => []OneImportAtATime
<1>1. ImportInv => OneImportAtATime
  BY DEF ImportInv, PodInv, OneImportAtATime
<1> QED  BY <1>1, Invariance, PTL

\* The realm in the database never goes back to an older version.
THEOREM RealmMonotonic == Spec => RealmNeverRegresses
<1>1. ImportInv /\ ImportInv' /\ [Next]_vars =>
         [\A s \in Slots, k \in Instances :
            realms'[s][k].rv >= realms[s][k].rv]_vars
  <2> SUFFICES ASSUME ImportInv, ImportInv', Next
               PROVE  \A s \in Slots : Onward(s)
    BY DEF Onward
  <2>1. CASE realms' = realms
    BY <2>1, Numbers DEF Onward
  <2>2. ASSUME NEW t \in Slots, PodSucceeds(t)
        PROVE  \A s \in Slots : Onward(s)
    BY <2>2, PodStepsInv DEF ImportInv
  <2> QED
    BY <2>1, <2>2 DEF Next, Reconcile, Watch, User, InstanceWriter,
       JobController, Dequeue, GetImport, CleanJobs, CleanSecrets,
       RemoveFinalizer, AddFinalizer, GetKeycloak, ApplySecret, ListJobs,
       CreateJob, Rollout, UpdateStatus, ObserveImport, ObserveKeycloak,
       ObserveStatefulSet, ObserveSecret, ObserveJob, ObserveSource, Restart,
       Relaunch, Start,
       CreateImport, EditImport, DeleteImport, ReleaseImport, EditSource,
       UserVars, WriteKeycloak, WriteStatefulSet, StartPod, JobCompletes,
       PodFails, KillPod, JobGone
<1> QED  BY <1>1, Invariance, PTL DEF Spec, RealmNeverRegresses
=============================================================================
