----------------------------- MODULE RealmImport ----------------------------
(***************************************************************************)
(* The KeycloakImport controller: one worker that reconciles KeycloakImport*)
(* resources into an import Secret, an import Job and a rollout annotation *)
(* on the StatefulSet of the Keycloak instance, with the parts of the      *)
(* cluster it reacts to: users, the API server, informer caches, the Job   *)
(* controller with its pods, and the writers of the Keycloak and           *)
(* StatefulSet objects.                                                    *)
(*                                                                         *)
(* A reconcile is a sequence of steps, one for each request it sends to    *)
(* the API server; every other actor may move between two of them.  A read *)
(* through the cache is part of the step that uses it.                     *)
(***************************************************************************)
EXTENDS Informer

CONSTANTS
    Imports,     \* KeycloakImport resources: a name in a namespace
    Names,       \* names of KeycloakImport resources
    NameOf,      \* NameOf[i]: the name of import i, without its namespace
    Instances,   \* Keycloak instances, each with a database of its own
    Namespaces,  \* the namespaces that instances are in
    NamespaceOf, \* NamespaceOf[k]: the namespace of instance k
    Jsons,       \* realm templates
    BadJsons,    \* the templates that do not expand
    Sources,     \* Secrets that substitutions take values from
    Values,      \* their values, after EscapeString
    NoValue,     \* no value
    Specs,       \* the specs that users write
    MaxLag,      \* bound: versions of an object that a watch may be behind
    Others,      \* whether imports may carry a finalizer of someone else
    MaxEdits,    \* bound: creations and edits by users
    MaxDeletes,  \* bound: deletions of imports by users
    MaxTouches,  \* bound: writes by the writers of Keycloak and StatefulSet
    MaxCrashes   \* bound: restarts of the operator

\* plain: the first substitution has a plain value and no secret.
ImportSpec == [target: Instances, json: Jsons, override: BOOLEAN,
               refs: SUBSET Sources, plain: BOOLEAN]

ASSUME ConstantsAssumption ==
    /\ Imports # {}
    /\ NameOf \in [Imports -> Names]
    /\ NamespaceOf \in [Instances -> Namespaces]
    /\ BadJsons \subseteq Jsons
    /\ Specs # {} /\ Specs \subseteq ImportSpec
    /\ NoValue \notin Values
    /\ Others \subseteq BOOLEAN
    /\ {MaxLag, MaxEdits, MaxDeletes, MaxTouches, MaxCrashes} \subseteq Nat

Data == [json: Jsons, subs: [Sources -> Values \cup {NoValue}]]

(***************************************************************************)
(* The objects, one set of versions for each kind.                         *)
(*   status of an import: unset, ready (Ready=True), waiting (Ready=False, *)
(*     HandleError without an error), error (Ready=False, with one);       *)
(*   owner of a secret or job: the pair of owner labels;                   *)
(*   ver of a job: the label GetImportJobAnnotation, a resourceVersion of  *)
(*     the import Secret;  into: the instance whose StatefulSet the job was*)
(*     made from, and so whose database it imports into;                   *)
(*   uid: tells apart jobs that had the same name;                         *)
(*   ann of a StatefulSet: the pod template annotation of each import, a   *)
(*     resourceVersion of its Secret, 0 when there is none.                *)
(***************************************************************************)
Overrides == {spec.override : spec \in Specs}
AllOverride == \A spec \in Specs : spec.override

Status == {"unset", "ready", "waiting", "error"}

ImportObj == [live: BOOLEAN, rv: Nat, spec: Specs, del: BOOLEAN,
              fin: BOOLEAN, other: BOOLEAN, status: Status]
KeycloakObj == [live: BOOLEAN, rv: Nat, ready: BOOLEAN]
StatefulSetObj == [live: BOOLEAN, rv: Nat, ann: [Imports -> Nat]]
SecretObj == [live: BOOLEAN, rv: Nat, owner: Imports,
              data: Data \cup {NoValue}]
JobObj == [live: BOOLEAN, rv: Nat, uid: Nat, owner: Imports, ver: Nat,
           into: Instances, override: Overrides,
           phase: {"active", "complete", "failed"}, del: BOOLEAN]
SourceObj == [live: BOOLEAN, rv: Nat, val: Values \cup {NoValue}]

\* Import secrets and jobs live in the namespace of the target instance,
\* under names made from the name of the import alone: they do not tell apart
\* the instances of one namespace.
Slots == Namespaces \X Names
Slot(i, spec) == <<NamespaceOf[spec.target], NameOf[i]>>

VARIABLES
    imports, keycloaks, statefulsets, secrets, jobs, sources,
    pods,     \* import pods that run or have succeeded, for each slot
    realms,   \* what pods of a slot brought into the database of an instance,
              \* and the secret version it came from
    queue,    \* the controller's workqueue
    w,        \* the worker
    used      \* how much of each bound is used up

objects == <<imports, keycloaks, statefulsets, secrets, jobs, sources>>
vars == <<objects, pods, realms, queue, w, used>>

PodObj == [uid: Nat, ver: Nat, rv: Nat, data: Data \cup {NoValue},
           into: Instances, override: Overrides, done: BOOLEAN]

Steps == {"down", "idle", "get", "cleanJobs", "cleanSecrets", "removeFinalizer",
          "addFinalizer", "getKeycloak", "secret", "listJobs", "createJob",
          "rollout", "status"}

Worker == [pc: Steps, key: Imports, cr: ImportObj, sts: StatefulSetObj,
           ver: Nat, completed: BOOLEAN, status: Status]

TypeOK ==
    /\ imports \in [Imports -> Tracked(ImportObj)]
    /\ keycloaks \in [Instances -> Tracked(KeycloakObj)]
    /\ statefulsets \in [Instances -> Tracked(StatefulSetObj)]
    /\ secrets \in [Slots -> Tracked(SecretObj)]
    /\ jobs \in [Slots -> Tracked(JobObj)]
    /\ sources \in [Sources -> Tracked(SourceObj)]
    /\ pods \in [Slots -> SUBSET PodObj]
    /\ realms \in [Slots -> [Instances -> [rv: Nat, data: Data \cup {NoValue}]]]
    /\ queue \subseteq Imports
    /\ w \in Worker
    /\ used \in [edits: Nat, deletes: Nat, touches: Nat, crashes: Nat]

-----------------------------------------------------------------------------
SomeImport == CHOOSE i \in Imports : TRUE
SomeSpec == CHOOSE s \in Specs : TRUE

NoImport == [live |-> FALSE, rv |-> 0, spec |-> SomeSpec, del |-> FALSE,
             fin |-> FALSE, other |-> FALSE, status |-> "unset"]
NoStatefulSet == [live |-> FALSE, rv |-> 0, ann |-> [i \in Imports |-> 0]]
NoSecret == [live |-> FALSE, rv |-> 0, owner |-> SomeImport, data |-> NoValue]
NoJob == [live |-> FALSE, rv |-> 0, uid |-> 0, owner |-> SomeImport,
          ver |-> 0, into |-> SomeSpec.target, override |-> SomeSpec.override,
          phase |-> "active", del |-> FALSE]

NoRealm == [rv |-> 0, data |-> NoValue]

\* Between two reconciles the worker keeps nothing.
Idle == [pc |-> "idle", key |-> SomeImport, cr |-> NoImport,
         sts |-> NoStatefulSet, ver |-> 0, completed |-> FALSE,
         status |-> "unset"]

\* The process has ended.
Down == [Idle EXCEPT !.pc = "down"]

Init ==
    /\ imports = [i \in Imports |-> InSync(NoImport)]
    /\ \E kc \in [Instances -> [live: BOOLEAN, rv: {0}, ready: BOOLEAN]] :
         /\ \A k \in Instances : kc[k].ready => kc[k].live
         /\ keycloaks = [k \in Instances |-> InSync(kc[k])]
         /\ statefulsets = [k \in Instances |->
                InSync([NoStatefulSet EXCEPT !.live = kc[k].live])]
    /\ secrets = [s \in Slots |-> InSync(NoSecret)]
    /\ jobs = [s \in Slots |-> InSync(NoJob)]
    /\ \E val \in [Sources -> Values \cup {NoValue}] :
         sources = [s \in Sources |->
             InSync([live |-> val[s] # NoValue, rv |-> 0, val |-> val[s]])]
    /\ pods = [s \in Slots |-> {}]
    /\ realms = [s \in Slots |-> [k \in Instances |-> NoRealm]]
    /\ queue = {}
    /\ w = Idle
    /\ used = [edits |-> 0, deletes |-> 0, touches |-> 0, crashes |-> 0]

Room(o) == Cardinality(o.pend) < MaxLag

-----------------------------------------------------------------------------
(***************************************************************************)
(* The reconciler, KeycloakImportReconciler.Reconcile.                     *)
(***************************************************************************)
At(pc) == w.pc = pc
Goto(pc) == w' = [w EXCEPT !.pc = pc]

\* The reconcile returns no error: the key is forgotten.
Done == w' = Idle /\ UNCHANGED queue

\* The reconcile returns an error (or Requeue): the key is queued again.
Requeue == w' = Idle /\ queue' = queue \cup {w.key}

\* HandleSuccess and HandleError set the condition, then update the status.
Report(status) == w' = [w EXCEPT !.pc = "status", !.status = status]

Dequeue(i) ==
    /\ At("idle") /\ i \in queue
    /\ w' = [w EXCEPT !.pc = "get", !.key = i]
    /\ queue' = queue \ {i}
    /\ UNCHANGED <<objects, pods, realms, used>>

\* The branch for the deletion timestamp and the finalizer of the resource.
BranchNoFinalizer(c) == IF c.del THEN "cleanJobs" ELSE "getKeycloak"

Branch(c) == IF c.del THEN "cleanJobs"
             ELSE IF c.fin THEN "getKeycloak" ELSE "addFinalizer"

GetImportRetriesMissing ==
    /\ At("get")
    /\ LET c == imports[w.key].seen IN
       \/ /\ ~c.live
          /\ Requeue
       \/ /\ c.live /\ c.del /\ ~c.fin
          /\ Done
       \/ /\ c.live /\ (c.del => c.fin)
          /\ w' = [w EXCEPT !.cr = c, !.pc = Branch(c)]
          /\ UNCHANGED queue
    /\ UNCHANGED <<objects, pods, realms, used>>

GetImport ==
    /\ At("get")
    /\ LET c == imports[w.key].seen IN
       \/ /\ ~c.live \/ (c.del /\ ~c.fin)
          /\ Done
       \/ /\ c.live /\ (c.del => c.fin)
          /\ w' = [w EXCEPT !.cr = c, !.pc = Branch(c)]
          /\ UNCHANGED queue
    /\ UNCHANGED <<objects, pods, realms, used>>

\* Foreground deletion: the job stays until its pods are gone.
DeleteBackground(o) == Remove(o)

DeleteForeground(o) == IF o.now.del THEN o
                       ELSE Put(o, [o.now EXCEPT !.del = TRUE])

\* cleanupExternalResources, the jobs that carry both owner labels.
CleanJobs ==
    /\ At("cleanJobs")
    /\ LET s == Slot(w.key, w.cr.spec)
           o == jobs[s]
           listed == o.seen.live /\ o.seen.owner = w.key
       IN  \/ /\ ~listed
              /\ Goto("cleanSecrets")
              /\ UNCHANGED <<jobs, queue>>
           \/ /\ listed /\ o.now.live /\ Room(o)
              /\ jobs' = [jobs EXCEPT ![s] = DeleteForeground(o)]
              /\ Goto("cleanSecrets")
              /\ UNCHANGED queue
           \/ /\ listed /\ ~o.now.live
              /\ Requeue
              /\ UNCHANGED jobs
    /\ UNCHANGED <<imports, keycloaks, statefulsets, secrets, sources,
                   pods, realms, used>>

\* cleanupExternalResources, the secrets that carry both owner labels.
CleanSecrets ==
    /\ At("cleanSecrets")
    /\ LET s == Slot(w.key, w.cr.spec)
           o == secrets[s]
           listed == o.seen.live /\ o.seen.owner = w.key
       IN  \/ /\ ~listed
              /\ Goto("removeFinalizer")
              /\ UNCHANGED <<secrets, queue>>
           \/ /\ listed /\ o.now.live /\ Room(o)
              /\ secrets' = [secrets EXCEPT ![s] = Remove(o)]
              /\ Goto("removeFinalizer")
              /\ UNCHANGED queue
           \/ /\ listed /\ ~o.now.live
              /\ Requeue
              /\ UNCHANGED secrets
    /\ UNCHANGED <<imports, keycloaks, statefulsets, jobs, sources,
                   pods, realms, used>>

\* The API server removes a resource under deletion with its last finalizer.
WithoutFinalizer(o) ==
    IF o.now.other THEN Put(o, [o.now EXCEPT !.fin = FALSE])
    ELSE Put(o, [o.now EXCEPT !.fin = FALSE, !.live = FALSE])

\* There is no return here: the reconcile goes on to add the finalizer.
RemoveFinalizer ==
    /\ At("removeFinalizer")
    /\ LET o == imports[w.key]
           new == WithoutFinalizer(o)
       IN  \/ /\ Current(o, w.cr) /\ Room(o)
              /\ imports' = [imports EXCEPT ![w.key] = new]
              /\ w' = [w EXCEPT !.pc = "addFinalizer", !.cr = new.now]
              /\ UNCHANGED queue
           \/ /\ ~Current(o, w.cr)
              /\ Requeue
              /\ UNCHANGED imports
    /\ UNCHANGED <<keycloaks, statefulsets, secrets, jobs, sources,
                   pods, realms, used>>

\* The API server refuses new finalizers on a resource under deletion.
AddFinalizer ==
    /\ At("addFinalizer")
    /\ LET o == imports[w.key]
           accepted == Current(o, w.cr) /\ ~o.now.del
           new == Put(o, [o.now EXCEPT !.fin = TRUE])
       IN  \/ /\ accepted /\ Room(o)
              /\ imports' = [imports EXCEPT ![w.key] = new]
              /\ w' = [w EXCEPT !.pc = "getKeycloak", !.cr = new.now]
              /\ UNCHANGED queue
           \/ /\ ~accepted
              /\ Requeue
              /\ UNCHANGED imports
    /\ UNCHANGED <<keycloaks, statefulsets, secrets, jobs, sources,
                   pods, realms, used>>

\* Fetch the instance, check that it is ready, fetch its StatefulSet.
GetKeycloak ==
    /\ At("getKeycloak")
    /\ LET kc == keycloaks[w.cr.spec.target].seen
           sts == statefulsets[w.cr.spec.target].seen
       IN  \/ ~kc.live /\ Report("error")
           \/ kc.live /\ ~kc.ready /\ Report("waiting")
           \/ kc.live /\ kc.ready /\ ~sts.live /\ Report("error")
           \/ /\ kc.live /\ kc.ready /\ sts.live
              /\ w' = [w EXCEPT !.pc = "secret", !.sts = sts]
    /\ UNCHANGED <<objects, pods, realms, queue, used>>

\* What the import secret holds: the template with the values filled in.
Content(spec) ==
    [json |-> spec.json,
     subs |-> [s \in Sources |->
                  IF s \in spec.refs THEN sources[s].seen.val ELSE NoValue]]

Expands(spec) == /\ ~spec.plain
                 /\ \A s \in spec.refs : sources[s].seen.live
                 /\ spec.json \notin BadJsons

\* ImportRealmSecret.CreateOrUpdate: read through the cache, write if changed.
\* A substitution without a secret is dereferenced: the panic ends this
\* reconcile only, as an error.
ApplySecret ==
    /\ At("secret")
    /\ LET s == Slot(w.key, w.cr.spec)
           o == secrets[s]
           content == Content(w.cr.spec)
           same == o.seen.live /\ o.seen.owner = w.key /\ o.seen.data = content
           accepted == IF o.seen.live THEN Current(o, o.seen) ELSE ~o.now.live
           new == Put(o, [o.now EXCEPT !.live = TRUE, !.owner = w.key,
                                       !.data = content])
       IN  \/ /\ w.cr.spec.plain
              /\ Requeue
              /\ UNCHANGED secrets
           \/ /\ ~w.cr.spec.plain /\ ~Expands(w.cr.spec)
              /\ Report("error")
              /\ UNCHANGED <<secrets, queue>>
           \/ /\ Expands(w.cr.spec) /\ same
              /\ w' = [w EXCEPT !.pc = "listJobs", !.ver = o.seen.rv]
              /\ UNCHANGED <<secrets, queue>>
           \/ /\ Expands(w.cr.spec) /\ ~same /\ accepted /\ Room(o)
              /\ secrets' = [secrets EXCEPT ![s] = new]
              /\ w' = [w EXCEPT !.pc = "listJobs", !.ver = new.now.rv]
              /\ UNCHANGED queue
           \/ /\ Expands(w.cr.spec) /\ ~same /\ ~accepted
              /\ Report("error")
              /\ UNCHANGED <<secrets, queue>>
    /\ UNCHANGED <<imports, keycloaks, statefulsets, jobs, sources,
                   pods, realms, used>>

\* The jobs are listed by the name label alone: at most the one of this slot.
\* One that is not for this version of the secret is deleted.
ListJobs ==
    /\ At("listJobs")
    /\ LET s == Slot(w.key, w.cr.spec)
           o == jobs[s]
           found == /\ o.seen.live
                    /\ o.seen.owner = w.key /\ o.seen.ver = w.ver
       IN  \/ /\ found
              /\ w' = [w EXCEPT !.pc = "rollout",
                                !.completed = o.seen.phase = "complete"]
              /\ UNCHANGED jobs
           \/ /\ ~found /\ ~o.seen.live
              /\ Goto("createJob")
              /\ UNCHANGED jobs
           \/ /\ ~found /\ o.seen.live /\ o.now.live /\ Room(o)
              /\ jobs' = [jobs EXCEPT ![s] = DeleteForeground(o)]
              /\ Goto("createJob")
           \/ /\ ~found /\ o.seen.live /\ ~o.now.live
              /\ Report("error")
              /\ UNCHANGED jobs
    /\ UNCHANGED <<imports, keycloaks, statefulsets, secrets, sources,
                   pods, realms, queue, used>>

\* realm.Build: the job for this version of the secret.
NewJobKeepsRealm(o) ==
    [live |-> TRUE, rv |-> 0, uid |-> o.now.rv + 1, owner |-> w.key,
     ver |-> w.ver, into |-> w.cr.spec.target, override |-> FALSE,
     phase |-> "active", del |-> FALSE]

NewJob(o) == [live |-> TRUE, rv |-> 0, uid |-> o.now.rv + 1, owner |-> w.key,
              ver |-> w.ver, into |-> w.cr.spec.target,
              override |-> w.cr.spec.override,
              phase |-> "active", del |-> FALSE]

CreateJob ==
    /\ At("createJob")
    /\ LET s == Slot(w.key, w.cr.spec)
           o == jobs[s]
       IN  \/ /\ ~o.now.live /\ Room(o)
              /\ jobs' = [jobs EXCEPT ![s] = Put(o, NewJob(o))]
              /\ Report("waiting")
              /\ UNCHANGED queue
           \/ /\ o.now.live
              /\ Requeue
              /\ UNCHANGED jobs
    /\ UNCHANGED <<imports, keycloaks, statefulsets, secrets, sources,
                   pods, realms, used>>

\* The job of this version has completed and is not rolled out yet.
RolloutDueForAnyJob == w.sts.ann[w.key] # w.ver

RolloutDue == w.sts.ann[w.key] # w.ver /\ w.completed

RolloutUnlocked(o) == o.now.live

RolloutAccepted(o) == Current(o, w.sts)

\* rolloutChanges: write back the StatefulSet as it was read, annotated.
Rollout ==
    /\ At("rollout")
    /\ LET k == w.cr.spec.target
           o == statefulsets[k]
       IN  \/ /\ ~RolloutDue
              /\ Report("ready")
              /\ UNCHANGED <<statefulsets, queue>>
           \/ /\ RolloutDue /\ RolloutAccepted(o) /\ Room(o)
              /\ statefulsets' = [statefulsets EXCEPT ![k] =
                     Put(o, [w.sts EXCEPT !.ann[w.key] = w.ver])]
              /\ Report("ready")
              /\ UNCHANGED queue
           \/ /\ RolloutDue /\ ~RolloutAccepted(o)
              /\ Requeue
              /\ UNCHANGED statefulsets
    /\ UNCHANGED <<imports, keycloaks, secrets, jobs, sources,
                   pods, realms, used>>

\* Status().Update at the end of HandleSuccess and HandleError.  The condition
\* carries a new time stamp, so that the update is never a repetition.
UpdateStatus ==
    /\ At("status")
    /\ LET o == imports[w.key]
       IN  \/ /\ Current(o, w.cr) /\ Room(o)
              /\ imports' = [imports EXCEPT ![w.key] =
                     Put(o, [o.now EXCEPT !.status = w.status])]
              /\ Done
           \/ /\ ~Current(o, w.cr)
              /\ Requeue
              /\ UNCHANGED imports
    /\ UNCHANGED <<keycloaks, statefulsets, secrets, jobs, sources,
                   pods, realms, used>>

Reconcile ==
    \/ GetImport \/ CleanJobs \/ CleanSecrets \/ RemoveFinalizer
    \/ AddFinalizer \/ GetKeycloak \/ ApplySecret \/ ListJobs \/ CreateJob
    \/ Rollout \/ UpdateStatus

-----------------------------------------------------------------------------
(***************************************************************************)
(* Watches: an event updates the cache, and the handler of the watch       *)
(* queues the imports it maps the event to.                                *)
(***************************************************************************)
Running == ~At("down")

Known(i) == imports[i].seen.live

\* The generation changes with the spec and with the start of deletion.
SpecChanged(old, new) == old.spec # new.spec

GenerationChanged(old, new) == old.spec # new.spec \/ old.del # new.del

ObserveImport(i) ==
    /\ Running
    /\ \E v \in imports[i].pend :
         /\ NextEvent(imports[i], v)
         /\ imports' = [imports EXCEPT ![i] = Observe(@, v)]
         /\ LET old == imports[i].seen
                passes == UpdateEvent(old, v) => GenerationChanged(old, v)
            IN  queue' = IF passes THEN queue \cup {i} ELSE queue
    /\ UNCHANGED <<keycloaks, statefulsets, secrets, jobs, sources,
                   pods, realms, w, used>>

\* handleRHBKChanged
ObserveKeycloak(k) ==
    /\ Running
    /\ \E v \in keycloaks[k].pend :
         /\ NextEvent(keycloaks[k], v)
         /\ keycloaks' = [keycloaks EXCEPT ![k] = Observe(@, v)]
    /\ queue' = queue \cup
           {i \in Imports : Known(i) /\ imports[i].seen.spec.target = k}
    /\ UNCHANGED <<imports, statefulsets, secrets, jobs, sources,
                   pods, realms, w, used>>

\* The controller does not watch StatefulSets: only the cache changes.
ObserveStatefulSet(k) ==
    /\ Running
    /\ \E v \in statefulsets[k].pend :
         /\ NextEvent(statefulsets[k], v)
         /\ statefulsets' = [statefulsets EXCEPT ![k] = Observe(@, v)]
    /\ UNCHANGED <<imports, keycloaks, secrets, jobs, sources,
                   pods, realms, queue, w, used>>

\* handleSecretChanged: an import is queued when the secret carries its name
\* in the owner label or when a substitution refers to the secret.  The second
\* test dereferences a substitution without a secret, in a goroutine of the
\* informer, where a panic ends the process.
handleSecretChanged(labelled, referring) ==
    IF \E i \in Imports \ labelled : Known(i) /\ imports[i].seen.spec.plain
    THEN w' = Down /\ queue' = {}
    ELSE /\ queue' = queue \cup
                {i \in Imports : Known(i) /\ i \in labelled \cup referring}
         /\ UNCHANGED w

Named(i) == {x \in Imports : NameOf[x] = NameOf[i]}

\* An import secret.
ObserveSecret(s) ==
    /\ Running
    /\ \E v \in secrets[s].pend :
         /\ NextEvent(secrets[s], v)
         /\ secrets' = [secrets EXCEPT ![s] = Observe(@, v)]
         /\ handleSecretChanged(Named(v.owner), {})
    /\ UNCHANGED <<imports, keycloaks, statefulsets, jobs, sources,
                   pods, realms, used>>

\* A secret that substitutions refer to.
ObserveSource(s) ==
    /\ Running
    /\ \E v \in sources[s].pend :
         /\ NextEvent(sources[s], v)
         /\ sources' = [sources EXCEPT ![s] = Observe(@, v)]
    /\ handleSecretChanged({}, {i \in Imports : s \in imports[i].seen.spec.refs})
    /\ UNCHANGED <<imports, keycloaks, statefulsets, secrets, jobs,
                   pods, realms, used>>

\* Only the update that completes a job passes.
JobCreated(old, new) == CreateEvent(old, new)

JobCompleted(old, new) == /\ UpdateEvent(old, new)
                          /\ old.phase # "complete" /\ new.phase = "complete"

\* handleJobChanged: mapped to the import that both owner labels name.
ObserveJob(s) ==
    /\ Running
    /\ \E v \in jobs[s].pend :
         /\ NextEvent(jobs[s], v)
         /\ jobs' = [jobs EXCEPT ![s] = Observe(@, v)]
         /\ queue' = IF JobCompleted(jobs[s].seen, v)
                     THEN queue \cup {i \in {v.owner} : Known(i)} ELSE queue
    /\ UNCHANGED <<imports, keycloaks, statefulsets, secrets, sources,
                   pods, realms, w, used>>

Watch ==
    \/ \E i \in Imports : ObserveImport(i)
    \/ \E k \in Instances : ObserveKeycloak(k) \/ ObserveStatefulSet(k)
    \/ \E s \in Slots : ObserveSecret(s) \/ ObserveJob(s)
    \/ \E s \in Sources : ObserveSource(s)

\* The process starts: caches are filled by a list, and every object in them
\* raises a create event.  Those of the imports queue them; one of a secret may
\* end the process again.
Panics ==
    \E i \in Imports :
        /\ imports[i].now.live /\ imports[i].now.spec.plain
        /\ \/ \E s \in Slots : /\ secrets[s].now.live
                              /\ i \notin Named(secrets[s].now.owner)
           \/ \E s \in Sources : sources[s].now.live

Start ==
    /\ imports' = [i \in Imports |-> Relist(imports[i])]
    /\ keycloaks' = [k \in Instances |-> Relist(keycloaks[k])]
    /\ statefulsets' = [k \in Instances |-> Relist(statefulsets[k])]
    /\ secrets' = [s \in Slots |-> Relist(secrets[s])]
    /\ jobs' = [s \in Slots |-> Relist(jobs[s])]
    /\ sources' = [s \in Sources |-> Relist(sources[s])]
    /\ queue' = IF Panics THEN {} ELSE {i \in Imports : imports[i].now.live}
    /\ w' = IF Panics THEN Down ELSE Idle
    /\ UNCHANGED <<pods, realms>>

\* The process ends in the middle of anything and starts again.
Restart ==
    /\ used.crashes < MaxCrashes
    /\ used' = [used EXCEPT !.crashes = @ + 1]
    /\ Start

\* The container is started again after a panic.
Relaunch == At("down") /\ Start /\ UNCHANGED used

-----------------------------------------------------------------------------
(***************************************************************************)
(* Users.                                                                  *)
(***************************************************************************)
Edit == /\ used.edits < MaxEdits
        /\ used' = [used EXCEPT !.edits = @ + 1]

UserVars == <<keycloaks, statefulsets, secrets, jobs, pods, realms, queue, w>>

CreateImport(i) ==
    /\ Edit
    /\ ~imports[i].now.live /\ Room(imports[i])
    /\ \E spec \in Specs, other \in Others :
         imports' = [imports EXCEPT ![i] =
             Put(@, [NoImport EXCEPT !.live = TRUE, !.spec = spec,
                                     !.other = other])]
    /\ UNCHANGED <<UserVars, sources>>

EditImport(i) ==
    /\ Edit
    /\ imports[i].now.live /\ ~imports[i].now.del /\ Room(imports[i])
    /\ \E spec \in Specs \ {imports[i].now.spec} :
         imports' = [imports EXCEPT ![i] =
             Put(@, [@.now EXCEPT !.spec = spec])]
    /\ UNCHANGED <<UserVars, sources>>

DeleteImport(i) ==
    /\ used.deletes < MaxDeletes
    /\ used' = [used EXCEPT !.deletes = @ + 1]
    /\ imports[i].now.live /\ ~imports[i].now.del /\ Room(imports[i])
    /\ LET o == imports[i] IN
       imports' = [imports EXCEPT ![i] =
           IF o.now.fin \/ o.now.other
           THEN Put(o, [o.now EXCEPT !.del = TRUE]) ELSE Remove(o)]
    /\ UNCHANGED <<UserVars, sources>>

\* Whoever put another finalizer on the resource lets go of it.
ReleaseImport(i) ==
    /\ imports[i].now.live /\ imports[i].now.del /\ imports[i].now.other
    /\ Room(imports[i])
    /\ LET o == imports[i] IN
       imports' = [imports EXCEPT ![i] =
           Put(o, [o.now EXCEPT !.other = FALSE, !.live = o.now.fin])]
    /\ UNCHANGED <<UserVars, sources, used>>

EditSource(s) ==
    /\ Edit
    /\ Room(sources[s])
    /\ \/ \E val \in Values \ {sources[s].now.val} :
            sources' = [sources EXCEPT ![s] =
                Put(@, [@.now EXCEPT !.live = TRUE, !.val = val])]
       \/ /\ sources[s].now.live
          /\ sources' = [sources EXCEPT ![s] =
                 Put(@, [@.now EXCEPT !.live = FALSE, !.val = NoValue])]
    /\ UNCHANGED <<UserVars, imports>>

User ==
    \/ \E i \in Imports : \/ CreateImport(i) \/ EditImport(i)
                          \/ DeleteImport(i) \/ ReleaseImport(i)
    \/ \E s \in Sources : EditSource(s)

-----------------------------------------------------------------------------
(***************************************************************************)
(* The writers of the instance: the Keycloak controller, the StatefulSet   *)
(* controller, and the users and the garbage collector behind them.  None  *)
(* of them changes the annotations of a StatefulSet that exists.           *)
(***************************************************************************)
Touch == /\ used.touches < MaxTouches
         /\ used' = [used EXCEPT !.touches = @ + 1]

WriteKeycloak(k) ==
    /\ Touch
    /\ Room(keycloaks[k])
    /\ \/ \E ready \in BOOLEAN :
            keycloaks' = [keycloaks EXCEPT ![k] =
                Put(@, [@.now EXCEPT !.live = TRUE, !.ready = ready])]
       \/ /\ keycloaks[k].now.live
          /\ keycloaks' = [keycloaks EXCEPT ![k] =
                 Put(@, [@.now EXCEPT !.live = FALSE, !.ready = FALSE])]
    /\ UNCHANGED <<imports, statefulsets, secrets, jobs, sources,
                   pods, realms, queue, w>>

WriteStatefulSet(k) ==
    /\ Touch
    /\ Room(statefulsets[k])
    /\ LET o == statefulsets[k] IN
       \/ /\ o.now.live
          /\ \/ statefulsets' = [statefulsets EXCEPT ![k] = Put(o, o.now)]
             \/ statefulsets' = [statefulsets EXCEPT ![k] = Remove(o)]
       \/ /\ ~o.now.live
          /\ statefulsets' = [statefulsets EXCEPT ![k] =
                 Put(o, [NoStatefulSet EXCEPT !.live = TRUE])]
    /\ UNCHANGED <<imports, keycloaks, secrets, jobs, sources,
                   pods, realms, queue, w>>

InstanceWriter == \E k \in Instances : WriteKeycloak(k) \/ WriteStatefulSet(k)

-----------------------------------------------------------------------------
(***************************************************************************)
(* The Job controller and the import pods.  A pod mounts the secret by its *)
(* name and reads the version that is current when it starts.              *)
(***************************************************************************)
OwnPods(s) == {p \in pods[s] : p.uid = jobs[s].now.uid}

StartPod(s) ==
    /\ LET j == jobs[s].now
           x == secrets[s].now
       IN  /\ j.live /\ ~j.del /\ j.phase = "active" /\ OwnPods(s) = {}
           /\ x.live
           /\ pods' = [pods EXCEPT ![s] = @ \cup
                  {[uid |-> j.uid, ver |-> j.ver, rv |-> x.rv,
                    data |-> x.data, into |-> j.into,
                    override |-> j.override, done |-> FALSE]}]
    /\ UNCHANGED <<objects, realms, queue, w, used>>

\* kc.sh import: an existing realm is only replaced with --override=true.
PodSucceeds(s) ==
    /\ \E p \in pods[s] :
         /\ ~p.done
         /\ pods' = [pods EXCEPT ![s] =
                (@ \ {p}) \cup {[p EXCEPT !.done = TRUE]}]
         /\ realms' = IF p.override \/ realms[s][p.into].rv = 0
                      THEN [realms EXCEPT ![s][p.into] =
                               [rv |-> p.rv, data |-> p.data]]
                      ELSE realms
    /\ UNCHANGED <<objects, queue, w, used>>

JobCompletes(s) ==
    /\ LET j == jobs[s].now IN
       /\ j.live /\ ~j.del /\ j.phase = "active" /\ Room(jobs[s])
       /\ \E p \in OwnPods(s) : p.done
       /\ jobs' = [jobs EXCEPT ![s] = Put(@, [j EXCEPT !.phase = "complete"])]
       /\ pods' = [pods EXCEPT ![s] = @ \ OwnPods(s)]
    /\ UNCHANGED <<imports, keycloaks, statefulsets, secrets, sources,
                   realms, queue, w, used>>

\* The last pod that backoffLimit allows fails.  The failure of an earlier one
\* is a late StartPod.
PodFails(s) ==
    /\ LET j == jobs[s].now IN
       /\ j.live /\ ~j.del /\ j.phase = "active" /\ Room(jobs[s])
       /\ \E p \in OwnPods(s) :
            /\ ~p.done
            /\ pods' = [pods EXCEPT ![s] = @ \ {p}]
       /\ jobs' = [jobs EXCEPT ![s] = Put(@, [j EXCEPT !.phase = "failed"])]
    /\ UNCHANGED <<imports, keycloaks, statefulsets, secrets, sources,
                   realms, queue, w, used>>

\* The pods of a job that is gone or under deletion are killed.
KillPod(s) ==
    /\ \E p \in pods[s] :
         /\ (jobs[s].now.live /\ jobs[s].now.uid = p.uid) => jobs[s].now.del
         /\ pods' = [pods EXCEPT ![s] = @ \ {p}]
    /\ UNCHANGED <<objects, realms, queue, w, used>>

JobGone(s) ==
    /\ jobs[s].now.live /\ jobs[s].now.del /\ OwnPods(s) = {}
    /\ Room(jobs[s])
    /\ jobs' = [jobs EXCEPT ![s] = Remove(@)]
    /\ UNCHANGED <<imports, keycloaks, statefulsets, secrets, sources,
                   pods, realms, queue, w, used>>

JobController(s) == \/ StartPod(s) \/ PodSucceeds(s) \/ JobCompletes(s)
                    \/ PodFails(s) \/ KillPod(s) \/ JobGone(s)

-----------------------------------------------------------------------------
Next ==
    \/ \E i \in Imports : Dequeue(i)
    \/ Reconcile
    \/ Watch
    \/ Restart \/ Relaunch
    \/ User
    \/ InstanceWriter
    \/ \E s \in Slots : JobController(s)

Spec == Init /\ [][Next]_vars

(***************************************************************************)
(* Fairness.  The process keeps running its worker and its informers; the  *)
(* workqueue is first in, first out, so that a key that keeps being queued *)
(* is taken in the end; the Job controller keeps working on its pods.      *)
(* Users, crashes and the writers of the instance promise nothing, except  *)
(* that whoever holds another finalizer lets go of it.                     *)
(***************************************************************************)
Fairness ==
    /\ WF_vars(Reconcile) /\ WF_vars(Relaunch)
    /\ \A i \in Imports : /\ SF_vars(Dequeue(i))
                          /\ WF_vars(ObserveImport(i))
                          /\ WF_vars(ReleaseImport(i))
    /\ \A k \in Instances : /\ WF_vars(ObserveKeycloak(k))
                            /\ WF_vars(ObserveStatefulSet(k))
    /\ \A s \in Sources : WF_vars(ObserveSource(s))
    /\ \A s \in Slots : /\ WF_vars(ObserveSecret(s)) /\ WF_vars(ObserveJob(s))
                        /\ WF_vars(StartPod(s)) /\ WF_vars(PodSucceeds(s))
                        /\ WF_vars(JobCompletes(s)) /\ WF_vars(KillPod(s))
                        /\ WF_vars(JobGone(s))

FairSpec == Spec /\ Fairness

-----------------------------------------------------------------------------
(***************************************************************************)
(* Properties.                                                             *)
(***************************************************************************)

\* The realm of import i in the database of instance k.
Realm(k, i) == realms[<<NamespaceOf[k], NameOf[i]>>][k]

\* A version has landed in a database: a pod has imported it or, if every import
\* overrides, it or a later one is what the database holds.
LandedIn(k, i, ver) == /\ Realm(k, i).rv # 0
                       /\ AllOverride => Realm(k, i).rv >= ver

\* A server is only restarted for a realm that has been imported: when
\* rolloutChanges has annotated a StatefulSet with a version of the import
\* secret, that version has landed in the database of this instance, or of
\* another one in its namespace (see RolloutFollowsOwnImport).
RolloutFollowsImport ==
    \A k \in Instances, i \in Imports :
        LET ann == statefulsets[k].now.ann[i] IN
        ann # 0 => \E x \in Instances : /\ NamespaceOf[x] = NamespaceOf[k]
                                        /\ LandedIn(x, i, ann)

\* The import of an old version of a realm never lands on top of a newer one:
\* old jobs are deleted in the foreground, so that their pods are gone before
\* the job for the next version can be created.
RealmNeverRegresses ==
    [][\A s \in Slots, k \in Instances :
          realms'[s][k].rv >= realms[s][k].rv]_vars

\* Two pods never import the same realm at the same time.
OneImportAtATime == \A s \in Slots : \A p, q \in pods[s] : p = q

\* A rollout for one import does not undo the rollout of another one, nor a
\* write by the Keycloak controller: annotations are only changed by the
\* reconcile of their own import, for as long as the StatefulSet exists.
NoLostRollout ==
    [][\A k \in Instances, i \in Imports :
         /\ statefulsets[k].now.live /\ statefulsets'[k].now.live
         /\ statefulsets'[k].now.ann[i] # statefulsets[k].now.ann[i]
         => w.key = i /\ statefulsets'[k].now.ann[i] = w.ver]_vars

(***************************************************************************)
(* The life cycle of a realm that RealmLifecycle describes, seen in the    *)
(* objects that are stored: what the caches and the worker hold, jobs and  *)
(* pods are details.                                                       *)
(***************************************************************************)
Published == [s \in Slots |-> secrets[s].now.rv]
Imported == [s \in Slots |-> [k \in Instances |-> realms[s][k].rv]]
RolledOut == [k \in Instances |-> [i \in Imports |->
    IF statefulsets[k].now.live THEN statefulsets[k].now.ann[i] ELSE 0]]

Lifecycle == INSTANCE RealmLifecycle
             WITH published <- Published, imported <- Imported,
                  rolled <- RolledOut, Overriding <- AllOverride

\* The controller implements the life cycle: a step publishes, imports or rolls
\* out one realm, only forward, and only rolls out what has been imported; in
\* particular a server is never rolled out again for an older version, although
\* secret, job and StatefulSet are read from caches of different age.
ImplementsLifecycle == Lifecycle!Spec

\* Whatever the cache showed, the operator writes import secrets and creates
\* import jobs only for a resource that still exists with the finalizer that
\* makes its deletion wait for cleanupExternalResources; in particular the
\* reconcile that goes on after it has removed the finalizer writes nothing.
Protected(i) == imports[i].now.live /\ imports[i].now.fin

WritesAreProtected ==
    [][\A s \in Slots :
         /\ secrets'[s].now # secrets[s].now /\ secrets'[s].now.live
               => Protected(secrets'[s].now.owner)
         /\ jobs'[s].now.uid # jobs[s].now.uid
               => Protected(jobs'[s].now.owner)]_vars

\* Nothing is under way: caches are up to date, the queue is empty, and no job
\* has a pod to run.
Quiescent ==
    /\ At("idle") /\ queue = {}
    /\ \A i \in Imports : imports[i].pend = {}
    /\ \A k \in Instances : keycloaks[k].pend \cup statefulsets[k].pend = {}
    /\ \A s \in Sources : sources[s].pend = {}
    /\ \A s \in Slots : /\ secrets[s].pend \cup jobs[s].pend = {}
                        /\ jobs[s].now.live => /\ ~jobs[s].now.del
                                               /\ jobs[s].now.phase # "active"

\* The worker has done its part for an import as its spec and sources are now:
\* the secret holds the content, a job was created, and a job of this import
\* that has succeeded is the one for this version, its realm is in the database
\* that it imported into and it is rolled out, unless the StatefulSet was replaced
\* since.
Settled(i) ==
    LET c == imports[i].now
        s == Slot(i, c.spec)
        j == jobs[s].now
        ann == statefulsets[c.spec.target].now.ann[i]
    IN  /\ secrets[s].now.live /\ secrets[s].now.owner = i
        /\ secrets[s].now.data = Content(c.spec)
        /\ j.rv # 0
        /\ j.live /\ j.owner = i /\ j.phase = "complete" =>
               /\ j.ver = secrets[s].now.rv
               /\ ann = j.ver \/ (ann = 0 /\ used.touches > 0)
               /\ j.override => realms[s][j.into].data = secrets[s].now.data

\* Moreover its job is there: it has succeeded, or it has failed for good.
Converged(i) ==
    LET s == Slot(i, imports[i].now.spec)
        j == jobs[s].now
    IN  Settled(i) /\ j.live /\ j.owner = i /\ j.ver = secrets[s].now.rv

\* No change is missed: once everything has come to rest, an import that does
\* not report an error is settled, if its instance is ready: the events of its
\* spec, of its sources, of its secret, of its instance and of the completion of
\* its job suffice to wake the worker, whatever the caches showed it before.
\* That its job survives is another matter, see ReadyMeansImported.
NoLostWakeup ==
    Quiescent => \A i \in Imports :
        LET c == imports[i].now
            kc == keycloaks[c.spec.target].now
        IN  c.live /\ ~c.del /\ kc.live /\ kc.ready /\ c.status # "error"
               => Settled(i)

\* A resource that a user deletes goes away, with no further help: the cleanup
\* is retried until the finalizer is removed.
DeletionCompletes ==
    \A i \in Imports :
        imports[i].now.live /\ imports[i].now.del ~> ~imports[i].now.live

\* Retries end: once users, writers and crashes leave it alone, the controller
\* comes to rest, although a reconcile that returns an error is queued again.
ComesToRest == <>[](At("idle") /\ queue = {})

\* "If no job found create job and wait for next reconcile when job is
\* completed": once everything has come to rest, an import that reports Ready
\* has its realm in the database, unless its job has failed.
ReadyMeansImported ==
    Quiescent => \A i \in Imports :
        LET c == imports[i].now
            s == Slot(i, c.spec)
        IN  c.live /\ c.status = "ready" /\ jobs[s].now.phase # "failed"
               => Realm(c.spec.target, i).rv # 0

\* "Keycloak instance to import the realm": a server is only restarted for a
\* realm that is in its own database.
RolloutFollowsOwnImport ==
    \A k \in Instances, i \in Imports :
        LET ann == statefulsets[k].now.ann[i] IN ann # 0 => LandedIn(k, i, ann)

\* "Remove jobs" and "Remove secrets": once everything has come to rest, no
\* import secret and no job is left of a resource that is gone.
NoOrphans ==
    Quiescent => \A s \in Slots :
        /\ secrets[s].now.live => imports[secrets[s].now.owner].now.live
        /\ jobs[s].now.live => imports[jobs[s].now.owner].now.live

\* "Value" is an optional alternative to "Secret" in a substitution: a resource
\* that makes use of it does not take the operator down.
StaysUp == Running

\* "should update realm when secret is updated", "when spec is updated",
\* "Override if realm already exists": once everything has come to rest, every
\* import whose instance is ready and whose template can be expanded has
\* converged and, if its spec overrides, its realm is what it asks for.
EveryChangeLands ==
    Quiescent => \A i \in Imports :
        LET c == imports[i].now
            k == c.spec.target
        IN  /\ c.live /\ ~c.del /\ keycloaks[k].now.live /\ keycloaks[k].now.ready
            /\ statefulsets[k].now.live /\ Expands(c.spec)
            => /\ Converged(i)
               /\ LET s == Slot(i, c.spec) IN
                  c.spec.override /\ jobs[s].now.phase = "complete"
                  => Realm(k, i).data = secrets[s].now.data
=============================================================================
