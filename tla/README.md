# A TLA+ model of rhbk-operator

rhbk-operator installs Red Hat build of Keycloak instances (`Keycloak`
resources) and imports realms into them (`KeycloakImport` resources) on
OpenShift. It has two controllers in one process. Neither keeps state of its
own: everything it knows it reads from a cache of the cluster's objects, which
may be behind, and everything it does is a request to the API server, which may
be refused. What makes it hard to test is what happens between two of those
requests: users, the Job and StatefulSet controllers, the garbage collector, the
other controller, a late watch event or a restart.

## Inventory

| part | state | operations | interacts with |
|---|---|---|---|
| KeycloakImport controller (`internal/controller/keycloakimport_controller.go`) | workqueue, the reconcile in progress | `Reconcile`, `rolloutChanges`, `cleanupExternalResources`, `HandleError`, `HandleSuccess`, the predicates and map functions of `SetupWithManager` | reads `Keycloak` (Ready) and the StatefulSet; writes import secret, job, pod template annotation, finalizer, status |
| import secret (`resources/realm/realm_import_secret.go`) | the expanded realm; its resourceVersion is the *version* of the realm | `CreateOrUpdate`, `GetImportSecrets` | mounted by the job's pod |
| import job (`resources/realm/realm_import_job.go`) | version label, override flag, phase | `Build`, `GetImportJobs` | its pod writes the realm into the database |
| Keycloak controller (`internal/controller/keycloak_controller.go`) | workqueue, the reconcile in progress | `Reconcile`, `HandleError`, `HandleSuccess`, predicates | writes five children and the status |
| children (`resources/rhbk/*.go`, `resources/monitoring`) | Service, Route, StatefulSet, discovery Service, ServiceMonitor | `Build`/`mutateFn` and `CreateOrUpdate` of each | the StatefulSet takes its hostname from the Route |
| Ready condition (`api/v1alpha1/condition.go`) | status of both resources | `SetReady`, `IsReady` | the import controller reads the Keycloak's |
| helpers (`resources/utils.go`) | none | `IsJobCompleted`, `IsStatefulSetReady`, `MatchSet`, `GetOwnerLabels`, `AddOrReplaceEnv`, `EscapeString` | |
| sizing, provider init container (`api/v1alpha1/sizing.go`, `resources/realm/providers_import_init_container.go`) | none | `CalculateResourceLimits`, `GetInitContainer`, `ConvertToEnvName` | called by the StatefulSet's `Build` |
| manager (`cmd/main.go`) | caches, shared by both controllers | start, label filter of the Secret cache | a panic in a watch handler ends it with both controllers |

Hard behaviours, and what makes each part correct:

* **Import.** Secret, job and StatefulSet are read from caches of different age.
  A server may only be restarted for a realm that is in its database; an old
  import must not overwrite a newer one; two imports must not run at once; a
  change must not be missed although most job events are filtered out.
* **Deletion.** A finalizer makes deletion wait for a cleanup that reads through
  the cache, and the reconcile goes on after the finalizer is removed.
* **Errors.** `HandleError` records an error and returns `nil`. Nothing retries.
* **Instance.** The StatefulSet is rewritten from scratch by one controller and
  annotated by the other. A Keycloak that is deleted and created again takes over
  the children of its predecessor, if the garbage collector leaves it any. Readiness is reported from a status that starts as 0 of 0.
* **Building.** Options of the user override defaults by name, and the import job is
  made from the server's own template, which it must not join; names and values are
  converted on the way into variables, commands and JSON.

`PROJECT.json` lists the hazards at their lines, with the properties that would
catch them.

## Modules

* `Informer` (external): one API object, as the operator meets it: the stored
  version, the cached version and the versions on their way. `Put` writes under
  the next resourceVersion, `Current` is the optimistic lock, `Observe` delivers
  the next version to the cache, `Relist` is a restart.
* `RealmImport`: the KeycloakImport controller with its cluster.
  One action per request of `Reconcile`: `GetImport`, `CleanJobs`,
  `CleanSecrets`, `RemoveFinalizer`, `AddFinalizer`, `GetKeycloak`,
  `ApplySecret`, `ListJobs`, `CreateJob`, `Rollout`, `UpdateStatus`. A read
  through the cache belongs to the step that uses it. `Observe*` are the watches
  with the handlers of `SetupWithManager`; `Restart` ends the process anywhere. A
  substitution with a plain value (`plain`) makes `ApplySecret` panic, which
  controller-runtime turns into an error, and makes the handler of the Secret
  watch panic in a goroutine of the informer, which ends the process (`Down`)
  until the container is started again (`Relaunch`).
  Secret and job are in a `Slot`: the name of the import in the namespace of its
  instance, which other instances may share. A job imports into the database of the
  instance whose StatefulSet it was made from (`into`).
  Around them: users (`CreateImport`, `EditImport`, `DeleteImport`,
  `EditSource`), the holder of another finalizer (`ReleaseImport`), the writers of
  Keycloak and StatefulSet, and the Job controller with its pods (`StartPod`,
  `PodSucceeds`, `JobCompletes`, `PodFails`, `KillPod`, `JobGone`). A pod reads
  the secret when it starts, which may be a later version than its job is for.
* `RealmLifecycle`: what the import controller promises, without caches, jobs,
  retries or restarts. A version of a realm is published in a namespace, imported into
  the database of an instance there, rolled out; each stage only moves forward, and
  only what is imported by some instance of the namespace is rolled out.
  `RealmImport` implements it with `published` the stored version of the import
  secret, `imported` the versions in the databases and `rolled` the annotations of a
  StatefulSet that exists.
* `KeycloakInstance`: the Keycloak controller with its cluster, for one
  resource. `CreateOrUpdate(k)` is one step for each child `k`, with `Build(k,
  _)` and `SetControllerReference`; the StatefulSet's host is the host of the Route
  that the API server returned. Around it: users who write the Keycloak and drift its children, the
  garbage collector, the StatefulSet controller (`UpdatePods`) and the rollouts of
  the import controller (`RollOut`).
* `Operator`: the manager, which composes the two for one instance and one import.
  `KeycloakInstance` and `RealmImport` are instantiated over one Keycloak and one
  StatefulSet, each seen by the import controller through a projection (`View`); an
  event of either is one step of both (`ObserveKeycloak`, `ObserveStatefulSet`), a
  rollout writes the StatefulSet that the other controller builds, and a restart is
  one of both. The environments by which each stands for the other are not used.
* `Sizing`, `Manifests`: what the objects are made of. A build is one behaviour,
  with a step for each iteration of a loop of the code: `AddProvider`
  (`GetInitContainer`), `SetDefaults` and `AddOption` (`DecorateENV`),
  `DecorateSizing`, `BuildJob` (`realm.Build`), `FillIn` (a value goes into the realm
  file, as it is if `EscapeString` takes it for a PEM block) and `Marshal`
  (`json.Marshal`, symbol by symbol). Floating point is a choice: a result that
  should be a whole number of thousandths may be truncated to the one before. Of
  `strings.ToUpper` it is only assumed that it maps "_", and no other character, to
  "_".
* `InformerProofs`, `RealmImportProofs`, `RealmLifecycleProofs`,
  `ProtectionProofs`, `ConvergenceProofs`, `KeycloakInstanceProofs`, `WakeupProofs`,
  `ManifestsProofs`: lemmas and theorems.
* `MCRealmImport`, `MCKeycloakInstance`, `MCOperator`, `MCManifests`: instances for
  TLC.

By itself `RealmImport` takes the Keycloak controller as an environment that writes
the Keycloak's readiness and rewrites the StatefulSet without touching its
annotations; `RolloutsSurvive` of `KeycloakInstance` is the promise behind that.

What is abstracted: a realm template is a value that does or does not expand; in
the controllers an escaped secret value is a value, and all of a Keycloak's spec but
its hostname is one value; a name is a model value, except for the names of
variables and of providers in `Manifests`; condition messages are gone, but
Ready=False with an error is told apart from Ready=False while waiting. In
`Manifests` the literals of the code are one value, `"fixed"`, and the secrets of
admin and database are one option, since each of them goes through `getENV`. A
secret without the `watched` label is not in the cache (`cmd/main.go`), and so
counts as absent.

What the API server does is taken from how the code relies on it: a write with an
old resourceVersion is refused; a new finalizer on a resource under deletion is
refused; foreground deletion keeps a job until its pods are gone; a write that
changes nothing keeps the resourceVersion; a Route without a host is given one and
keeps it; an object that vanished is delivered as a deletion. `Versioned` are the
kinds whose `metadata.generation` counts: not Service, and Route only where it is
a custom resource. `SetControllerReference` is controller-runtime's (v0.20.1 in
`go.mod`): it compares group, kind and name of the controller that a child has, and
not the uid, and replaces the reference. A Keycloak created again under the same name
thus takes over the children of its predecessor; since no controller of another name
writes the children, it never refuses one.

## Runs

Mutable counters are bounded by constants: `MaxLag` (versions a watch is
behind), `MaxEdits`, `MaxDeletes`, `MaxTouches` (writes by others), `MaxCrashes`; in
`KeycloakInstance` the deletions, the drifts and the restarts have one bound together,
`MaxDisturbances`, and those of the garbage collector have `MaxCollects`. All of them
guard the environment, except `MaxLag`, which stops writers until the watch has
delivered. The number of reconciles is not bounded: it follows from the events.
`CHECK_DEADLOCK` is off because a controller with nothing to do rests.

| run | question | bounds |
|---|---|---|
| `import_core` | do rollouts follow imports, do imports stay apart and in order, is a change missed, is it all a life cycle? | 1 import, 1 source with 2 values; lag 2, 2 edits, 1 touch |
| `two_imports` | does one rollout undo another, does a restart or a panic at any point lose work? | 2 imports of 1 instance; 4 specs (override, no override, does not expand, plain value); lag 1, 2 edits, 1 crash |
| `deletion` | are secrets and jobs only written under the finalizer, does a deletion complete, do retries end? | with and without another finalizer; lag 1, 1 edit, 1 deletion, 1 crash; fairness |
| `keycloak_children` | do rollouts survive, is a change, a drift, a deletion or readiness missed? | Route, with a generation, and StatefulSet; 2 specs; lag 1, 2 creations or edits, 1 deletion, drift or restart, 2 collections, 2 touches |
| `operator` | do both controllers together get everything done, and leave each other's work alone? | Route and StatefulSet, 2 specs; 1 import; lag 1, 1 edit of each, 1 restart or status update |
| `manifests` | is what is built from a spec right? | up to 3 options of 4 names, 2 providers with names of up to 2 characters, 5 rates up to 15 and up to 3 instances, values of up to 4 symbols |

Two versions of lag let a reconcile act on a state that is two writes old, which
is what it takes for a cached object to be both outdated and gone. One edit after
the creation is enough for an old and a new version to meet; a second value makes
the change visible. Two of the five children are enough for most runs: Service,
discovery Service and ServiceMonitor are written and watched in the same way, and only
Route and StatefulSet hand something on; `keycloak_ready` has all five. In
`keycloak_children` the second creation and the deletion bring a Keycloak of the same
name back before, between or after the steps of the garbage collector, so that each
child is either taken over or collected. The two touches are the status updates by
which a StatefulSet becomes ready. With the ServiceMonitor as a third child there are
5.3 million states for one collection, and 9.7 million for three; with two instances in
one namespace `two_imports` has 3.1 million states. The properties hold there too, but
these are larger than the runs are meant to be. No run has two imports of equal names:
what is said of those are the theorems. In `operator` the instance starts
installed, so that the one edit meets an import in any of its stages. In `manifests`
two options can meet each other and a default, and the third tells the last of a name
from the first; two characters give a name a first and a second place for a digit or a
mark. `ready_early` has a lag of 3: the cache of the jobs must be behind by the
deletion of the old job, the creation of the new one and its deletion.

The properties, beside a type invariant for each controller:

* `RolloutFollowsImport`: an annotation of the StatefulSet names a version that is
  in the database of this instance or of another one in its namespace. More cannot be
  said in general, see `shared_namespace`; where every instance has a namespace of its
  own it is `RolloutFollowsOwnImport`, that the database is its own.
* `RealmNeverRegresses`, `OneImportAtATime`: foreground deletion keeps the pods of
  two jobs apart, so an old realm never lands on a newer one.
* `ImplementsLifecycle`: `RealmImport` implements `RealmLifecycle`. Beyond the
  above, a server is never annotated with an older version than it has.
* `NothingMissed`: when everything is at rest, a Keycloak that does not report an
  error has what its spec asks for.
* `NoLostWakeup`: at rest, an import that does not report an error is `Settled`: the
  secret holds what its spec and its sources say, a job was created, and if a job of
  this import is there and has succeeded, then it is the one for this version, what it
  imported is in the database that it imported into and the server was restarted for
  it. Both find lost events, those of a Keycloak that is deleted and created again
  included. `Settled` does not say that the job is still there, which is false, see
  `ready_early`, nor that it was made for this instance, see `shared_namespace`.
* `WritesAreProtected`: the step after the removal of the finalizer does no harm.
* `NoLostRollout`, `RolloutsSurvive`: neither controller undoes a rollout, each with
  the other as an environment and, in `operator`, with the other itself.
* `DeletionCompletes`, `ComesToRest`: liveness of deletion and of the workqueue. The
  import of that run has a spec that expands; one with a plain value panics in every
  reconcile and is queued again for ever.
* `ChangesConverge`: at rest, and without an error, a server that is Ready has been
  built from its spec and restarted since the realm is in its database.
* `OneValuePerName`, `OptionsOverride`: `AddOrReplaceEnv` against what the CRD says
  of additional options.
* `JobStandsAlone`: the import job does not join the server's cluster, whatever the
  options.
* `ProvidersFromTheirURL`: each provider is fetched from its own URL unless names
  are alike but for case and punctuation, which share a variable.
* `CpuFollowsLoad`: truncation costs an instance at most a thousandth of a core.
* `ValuesReadBack`: a JSON parser reads a value from the realm file as it was.

Six runs end in a violation; each finding in `PROJECT.json` quotes the line of the
repository that says otherwise. What `ready_early`, `stuck_error` and `keycloak_ready`
show of a system at rest stays so until something else wakes the worker: an edit, a
restart, or the periodic resync of the informers, 10 hours by default, which the model
does not have. A resync does not mend `orphans` and `shared_namespace`.

* `ready_early`: an import reports Ready, at rest, and its realm was never imported.
  A source changes, and a reconcile replaces the job of the old version. Before the
  cache of the jobs has caught up, the next reconcile sees the old job once more and
  deletes it, by its name, which by now is the name of the new one; it is refused
  another job of that name until the deletion has completed, and is queued again. The
  third reconcile sees the new job, does not see that it is under deletion, and reports
  Ready. That the job goes away is no event, so the realm is not imported until another
  one comes. The same reading of a job that is there makes an import Ready whenever it
  is reconciled while its job runs, or after it has failed.
* `orphans`: an import is deleted right after a reconcile has created its secret and
  its job, and before the cache shows them. The cleanup lists neither, the finalizer is
  removed, and the resource is gone. Secret and job stay for ever, and the job imports
  the realm.
* `shared_namespace`: a reconcile creates the job of an import for one instance; the
  import is pointed at another instance of the same namespace. The secret has the same
  name and content, so its version is the same, and the job of the first instance
  counts as the one for it. Once it has completed, the second StatefulSet is
  annotated and the import reports Ready; the second database does not get the realm
  unless its content changes.
* `stuck_error`: the old job is gone but still cached; deleting it fails with
  NotFound, `HandleError` swallows that, and the new realm is not imported. The run has
  one spec, whose source changes.
* `plain_value`: one import with a plain value takes the operator down when the
  secret of another one changes.
* `keycloak_ready`: a Keycloak is Ready with no pod ready, since 0 of 0 is ready
  and the change to unready raises no event.

More cases are known to break the properties above, where an instance or a
hypothesis does not leave them out:

* `NoLostWakeup` fails if `Settled` also asks for the job (`Converged`), for the
  reason above with a lag of 3, and with `MaxDeletes = 1` at a lag of 2: an import
  that is created again over a secret that was left behind takes the dying job of its
  predecessor for its own, and never imports.
* `NoOrphans` fails also when an import is pointed at an instance in another namespace
  and deleted later: `cleanupExternalResources` looks in the namespace that the spec
  names now. Its secret and its job, which may still be running, stay in the old one.
  The instance of `orphans` has these behaviours; the counterexample above is shorter.
* Without `status # "error"`, `NothingMissed` and `ChangesConverge` fail: a status
  update of the StatefulSet makes the Keycloak controller's update conflict,
  `HandleError` swallows it, and the edited spec is never applied.
* The same happens to a Keycloak that is created again. It takes over the Route of its
  predecessor, which is no event where the Route has no generation. The garbage
  collector removes the old StatefulSet, which is one; but the reconcile that it starts
  may still find the Route as it was before, so that its update is refused and the
  reconcile ends there, without an error. Nothing is left to wake the worker, and the
  instance has no StatefulSet. The Keycloak then reports an error, which is what
  `NothingMissed` leaves out.
* With specs that differ in `overrideIfExists` alone and three edits,
  `EveryChangeLands` fails also for an import that reports no error: the flag is not
  part of the secret, so that a realm that was kept is still there when the flag says
  to replace it.
* With a value that has a PEM mark and newlines, `ValuesReadBack` would fail without
  its hypothesis: `EscapeString` leaves such a value as it is, for templates that
  bring their own escaping.

### Fairness

`FairSpec` assumes weak fairness of the worker's steps, of every watch and of the
Job controller and garbage collector (they are running processes), of `Relaunch` (the
kubelet starts the container again), strong fairness of
`Dequeue(i)` (the workqueue is first in, first out, and retries are queued again
after a delay), and that the holder of another finalizer lets go of it. Users,
other writers and crashes are not fair. The controllers use the default of one
worker each, so that there is one reconcile at a time.

## Proofs

Every theorem is about all values of the constants that satisfy the assumptions of
the module: any number of imports (also of equal names), instances (also in one
namespace), sources, specs, children and options, and any bound.

`RealmImportProofs`:

* `TypeCorrect`: `Spec => []TypeOK`
* `Invariance`: `Spec => []ImportInv`
* `RolloutSafety`: `Spec => []RolloutFollowsImport`
* `OwnRolloutSafety`: `NamespaceEach => (Spec => []RolloutFollowsOwnImport)`
* `ImportExclusion`: `Spec => []OneImportAtATime`
* `RealmMonotonic`: `Spec => RealmNeverRegresses`

`RolloutFollowsImport` is about the stored StatefulSet, but the annotation is
computed from cached objects, so the invariant speaks of every version that is
stored, cached or on its way. `ImportInv` is the conjunction of

* `SecretInv`: no version of a secret, and no realm, is newer than the stored one;
* `JobInv`: a job, in any version, is for a secret version that exists or existed and
  for an instance of its namespace, and if it shows completion then that version has
  *landed* (it or, when all imports override, a later one is in the database of an
  instance of the namespace);
* `PodInv`: a slot has at most one pod, it belongs to the stored job and imports into
  the same database, it has read a version between its job's and the stored one, and
  no realm of the slot is newer than what an unfinished pod will write;
* `WorkerInv`: the version the worker carries is not newer than the stored one, a
  job it found completed has landed, and so have the rollouts in its copy of the
  StatefulSet;
* `RolloutInv`: every annotation, in any version of a StatefulSet, has landed.

`PodInv` is where foreground deletion is used: a job leaves its slot only without
pods. A landed version stays landed because the realm never regresses, which
follows from `PodInv`. Each action then has a lemma, or falls under `QuietInv` when
it leaves secrets, jobs, pods, realms and StatefulSets alone. A version lands in a
namespace: nothing in secret or job tells its instances apart, and `shared_namespace`
shows that the stronger reading is false of the code. With one instance for each
namespace (`NamespaceEach`, the hypothesis of `OwnRolloutSafety`, which the code does
not require) the two readings are the same.

`RealmLifecycleProofs`:

* `Order`: `Spec => []OrderInv`
* `RolloutsKept`: `Spec => NoLostRollout`
* `Refinement`: `Spec => ImplementsLifecycle`

`ImportInv` says that what is rolled out has landed; the life cycle also says that
it is not older than what was rolled out before. The reason is the order in which
`Reconcile` reads: StatefulSet, then secret, then job. `OrderInv` has the parts
`CacheOrder` (the cache of a secret is behind every other version of it),
`AnnotationsSeen` (no annotation, in any version, is ahead of the cached secret),
`LockInv` (versions of a StatefulSet with the same resourceVersion are equal, so
that the optimistic lock compares contents) and `WorkerOrder` (the annotation in the
worker's copy is not newer than the secret version it works on; a version that
`ApplySecret` has only just stored has no job yet, so that no rollout can run ahead
of the cache). Every action then either leaves the three abstract variables alone or
is one of `Publish`, `Import`, `RollOut` and `Replace`.

`KeycloakInstanceProofs`:

* `TypeCorrect`: `Spec => []TypeOK`
* `RolloutsKept`: `Spec => RolloutsSurvive`

`RolloutsSurvive` compares the stored child with one that is built from the
cached one, so it needs `ChildrenInv`, which adds to the types that every child is
`Locked`: a version with the resourceVersion of the stored one is the stored one.
`InformerProofs` proves that `Put`, `Observe` and `Relist` keep an object so.

`ProtectionProofs`:

* `Protection`: `Spec => []ProtectInv`
* `ProtectedWrites`: `Spec => WritesAreProtected`

The worker checks the finalizer in the cache and writes the secret and the job
several requests later, and the finalizer is removed through the cache as well.
`ProtectInv` has the parts `ImportOrder` (a cache is behind every other version, and
versions of a resource with the same resourceVersion are equal), `FinalizerHeld`
(what any version shows with the finalizer and not under deletion is still
protected) and `WorkerGuarded` (a worker that goes on to write does so for a
protected resource; one that cleans up has a copy that is under deletion and no
newer than the cache). The heart is `RemoveFinalizer`: the lock lets it through only
if the copy is the stored resource, so every version from the cache on is under
deletion, and none of them can make the worker write.

`WakeupProofs`:

* `ChangesNoticed`: `Spec => []NothingMissed`

The property is about rest, so the invariant has to say in every other state which
event is still to come. `WakeInv` has six parts. `OrderInv`: what a watch has not
delivered is ordered, and follows what the cache has. `ToldInv`: a version of the
resource or of a child that differs from the stored one, in a way that matters, is
followed by an event that passes the predicates. `OwnerInv`: the uids of the Keycloaks that had the
name grow, and so do the owners of a child; no owner is newer than a Keycloak that is
stored, cached, on its way or under reconciliation. `ReadInOrder`: the worker's copy of
the resource is told apart from later versions by its resourceVersion. `ProgressInv`:
the children that the reconcile under way has written are in place for the worker's
copy, the host of the Route included, or an event is on its way that will start
another one. `RestInv`: the same when no reconcile is under way, for the status that
was written. An event stays in the watch until it is delivered and is then in the
queue (`Wakes`, `Woken`). The proof uses that the Route comes before the StatefulSet in `Order`, as
it does in `Reconcile`: otherwise the StatefulSet is built without the host. It
covers deletion and re-creation of the Keycloak, drift of the children, and restarts.
When a reconcile takes a child over, the update is no event for the predicate; by
`OwnerInv` the child has then the owner that it will be asked to have, and never goes
back to an earlier one.

`WakeInv` says nothing of a Keycloak that reports an error.

`ConvergenceProofs`:

* `NoChangeMissed`: `Spec => []NoLostWakeup`

An import is `Woken` if it is queued or something is on its way that will queue it: an
event of its resource that passes the predicate, any event of its instance, of a
source that its spec names or of its secret, or the completion of its job. As long as
it is not, the caches of these show what is stored. `ConvergenceInv` has the
parts

* `NewsInv`: watches deliver in order; a version of a resource that differs from the
  stored one in spec, deletion or existence is followed by an event that passes, and
  one of a job that does not show the completion is followed by that event;
* `NameInv`, `HeldInv`, `LiveInv`: a secret has the owner that it is named after; an
  update of the resource that is accepted was made from the stored one; a job that
  exists or existed can be told from one that never did;
* `AnnInv`: an annotation in an older version of a StatefulSet is not ahead of the
  stored one, unless the StatefulSet was replaced;
* `DataInv`: pods and realms hold what the secret held under the version they carry,
  and a job that overrides and has succeeded has brought its version, or a later one,
  into the database that it is for;
* `Progress`: after `ApplySecret` the secret is right, and at the rollout the job is as
  the worker took it to be, or the import is woken; at the status it is attended to;
* `RestInv`: an import that reports no error, and that the worker is not at, is
  *attended to*: it is in place, its instance is not ready, or it is woken.

The proof has a lemma for each step of the worker, which establishes `Progress`, and
for the rest shows that a step leaves what `Progress` and `RestInv` say of an import
alone or wakes it. Two imports of the same name share secret and job and undo each
other's work; they wake each other by doing so. The attempt to prove the property
with `Converged` in place of `Settled` is what showed the behaviour of `ready_early`,
which needs more lag than the passing runs have.

`ManifestsProofs`:

* `Building`: `Spec => []BuildInv`
* `OneValue`: `Spec => []OneValuePerName`
* `Override`: `Spec => []OptionsOverride`
* `StandsAlone`: `Spec => []JobStandsAlone`
* `LoadFollowed`: `Spec => []CpuFollowsLoad`
* `FetchedFromTheirURL`: `Spec => []ProvidersFromTheirURL`
* `ReadBack`: `Spec => []ValuesReadBack`

Since each iteration of a loop is a step, the loop invariants are state invariants:
`Applied(m)` says what the environment is after `m` options, `Built(m)` what the
job's is after `m` of the server's variables, `Fetched(m)` what the init container
does after `m` providers, and `MarshalInv` that what is in the file denotes the
symbols so far. The names of the defaults are distinct because the code's literals
are (`DefaultsWithin`). That two names that share a variable are alike
(`SharedVariable`) is shown position by position, which is why `Similar` and
`Denotes` speak of positions.

Only model-checked: liveness (`DeletionCompletes`, `ComesToRest`), which is out of
the prover's reach, and `Operator` (`ChangesConverge` and its `RolloutsSurvive`). Their
parts are proved for each controller with the other as an environment. They do not
carry over as they are: the environments count their writes (`MaxTouches`), and the
composition does not; a rollout of `Operator` annotates the StatefulSet with a version
of the secret, where `RollOut` adds one.

## Not modelled

The template language, volumes, probes, ports and labels (constants of the code or
one value); `SumSizing`, `GetHash` and `FormatResource`, which no controller calls;
`VersionedStatus`, which none writes or reads; generated code; command line, metrics
and probes of the manager; deployment manifests; test support. Users who remove the
operator's finalizer, or edit import secrets and jobs themselves; two active operator
processes; API server errors other than those named above; a relist that hides a
deletion followed by a creation; the periodic resync of the informers. Hazards without a property say why in
`PROJECT.json`.

## Plan

1. `Operator` with deletion of either resource, and with a database for each spec of
   the instance, to see where a job that was built from an old StatefulSet imports.
2. `Operator` implements `RealmImport` and `KeycloakInstance` with their
   environments, to carry the theorems over to the composition: first
   `RolloutsSurvive`, then `ChangesConverge`. The steps of the environments need a form
   without the bound, for which the invariants are proved once.
3. The import controller with jobs told apart by uid, and with the instance in their
   labels, to see which of the runs that end in a violation that would mend.
