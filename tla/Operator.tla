------------------------------ MODULE Operator ------------------------------
(***************************************************************************)
(* The manager (cmd/main.go): the Keycloak controller and the              *)
(* KeycloakImport controller in one process, for one instance.  They share *)
(* the informer caches of the Keycloak resource and its StatefulSet, which *)
(* each of them writes, and they start and end together.                   *)
(*                                                                         *)
(* KeycloakInstance and RealmImport each leave the other controller to a   *)
(* nondeterministic environment.  Here the environment of each is the other*)
(* one: a Keycloak is Ready when UpdateStatus says so, and the StatefulSet *)
(* is annotated when Rollout does.                                         *)
(***************************************************************************)
EXTENDS Naturals, Sequences

CONSTANTS
    Order, Hosts, NoHost, Generated, Options, ByName, Edited,
    Versioned,            \* as in KeycloakInstance
    KeycloakSpecs,        \* the specs that users write for the instance
    InstalledSpecs,       \* those that it may have at first
    Jsons, Sources, Values, NoValue,
                          \* as in RealmImport
    Instance, OneImport,  \* the instance and the import
    ImportSpecs,          \* the specs that users write for the import
    MaxLag,               \* bound: versions that a watch may be behind
    MaxEdits,             \* bound: edits of the instance
    MaxImportEdits,       \* bound: creations and edits of the import
    MaxDisturbances       \* bound: restarts, and status updates of the StatefulSet

VARIABLES
    keycloak, children, instanceQueue, instanceWorker, instanceUsed,
    imports, secrets, jobs, sources, pods, realms,
    importQueue, importWorker, importUsed

instanceVars == <<instanceQueue, instanceWorker, instanceUsed>>
importVars == <<imports, secrets, jobs, sources, pods, realms,
                importQueue, importWorker, importUsed>>
vars == <<keycloak, children, instanceVars, importVars>>

K == INSTANCE KeycloakInstance
     WITH Specs <- KeycloakSpecs, queue <- instanceQueue,
          w <- instanceWorker, used <- instanceUsed,
          MaxCollects <- 0, MaxTouches <- MaxDisturbances

(***************************************************************************)
(* What the import controller knows of the objects of the instance.        *)
(***************************************************************************)
View(o, Of(_)) == [now |-> Of(o.now), seen |-> Of(o.seen),
                   pend |-> {Of(v) : v \in o.pend}]

Ready(v) == [live |-> v.live, rv |-> v.rv, ready |-> v.status = "ready"]
Rolled(v) == [live |-> v.live, rv |-> v.rv,
              ann |-> [i \in {OneImport} |-> v.ann]]

keycloaks == [k \in {Instance} |-> View(keycloak, Ready)]
statefulsets == [k \in {Instance} |-> View(children["statefulset"], Rolled)]

I == INSTANCE RealmImport
     WITH Imports <- {OneImport}, Names <- {OneImport},
          NameOf <- [i \in {OneImport} |-> i],
          Instances <- {Instance}, Namespaces <- {Instance},
          NamespaceOf <- [k \in {Instance} |-> k],
          BadJsons <- {}, Specs <- ImportSpecs, Others <- {FALSE}, MaxEdits <- MaxImportEdits,
          MaxDeletes <- 0, MaxTouches <- 0, MaxCrashes <- MaxDisturbances,
          queue <- importQueue, w <- importWorker, used <- importUsed

-----------------------------------------------------------------------------
\* A child as a reconcile of spec leaves it once the pods run.
Installed(k, spec) ==
    [live |-> TRUE, rv |-> 1, owner |-> 1, ann |-> 0,
     built |-> IF k = "statefulset" THEN spec ELSE ByName,
     host |-> IF k \notin {"route", "statefulset"} THEN NoHost
              ELSE IF spec.host # NoHost THEN spec.host ELSE Generated,
     pods |-> IF k = "statefulset" THEN "serving" ELSE "none"]

\* The instance is up; the import is still to come.
Init ==
    /\ \E spec \in InstalledSpecs :
         /\ keycloak = K!InSync([live |-> TRUE, rv |-> 1, uid |-> 1,
                                spec |-> spec, status |-> "ready"])
         /\ children = [k \in K!Kinds |-> K!InSync(Installed(k, spec))]
    /\ instanceQueue = FALSE /\ instanceWorker = K!Idle
    /\ instanceUsed = [edits |-> 0, disturbances |-> 0, collects |-> 0,
                       touches |-> 0]
    /\ imports = [i \in {OneImport} |-> I!InSync(I!NoImport)]
    /\ secrets = [s \in I!Slots |-> I!InSync(I!NoSecret)]
    /\ jobs = [s \in I!Slots |-> I!InSync(I!NoJob)]
    /\ sources = [s \in Sources |->
           I!InSync([live |-> FALSE, rv |-> 0, val |-> NoValue])]
    /\ pods = [s \in I!Slots |-> {}]
    /\ realms = [s \in I!Slots |-> [k \in {Instance} |-> I!NoRealm]]
    /\ importQueue = {} /\ importWorker = I!Idle
    /\ importUsed = [edits |-> 0, deletes |-> 0, touches |-> 0, crashes |-> 0]

Calm == instanceUsed.touches + instanceUsed.disturbances < MaxDisturbances

\* The Keycloak controller and what only it reacts to.
InstanceStep ==
    /\ \/ K!Reconcile \/ K!UserWrites
       \/ Calm /\ K!UpdatePods
       \/ \E k \in K!Kinds \ {"statefulset"} : K!ObserveChild(k)
    /\ UNCHANGED importVars

\* The import controller and what only it reacts to.
ImportStep ==
    /\ UNCHANGED <<keycloak, children, instanceVars>>
    /\ \/ I!Dequeue(OneImport)
       \/ I!GetImport \/ I!AddFinalizer \/ I!GetKeycloak \/ I!ApplySecret
       \/ I!ListJobs \/ I!CreateJob \/ I!UpdateStatus
       \/ I!ObserveImport(OneImport) \/ I!User
       \/ \E s \in I!Slots : \/ I!ObserveSecret(s) \/ I!ObserveJob(s)
                             \/ I!JobController(s)
       \/ \E s \in Sources : I!ObserveSource(s)

\* rolloutChanges: what is written back is the StatefulSet that was read, so
\* that a write that is accepted changes the annotation and nothing else.
RolloutOn(o) == [o.now EXCEPT !.ann = importWorker.ver]

Rollout ==
    /\ LET o == children["statefulset"]
           rolled == K!Put(o, RolloutOn(o))
       IN  children' \in {children, [children EXCEPT !["statefulset"] = rolled]}
    /\ UNCHANGED <<keycloak, instanceVars>>
    /\ I!Rollout

\* One event, one cache, two controllers.
ObserveKeycloak ==
    /\ K!ObserveKeycloak
    /\ I!ObserveKeycloak(Instance)

ObserveStatefulSet ==
    /\ K!ObserveChild("statefulset")
    /\ I!ObserveStatefulSet(Instance)

Restart == Calm /\ K!Restart /\ I!Restart

Next == \/ InstanceStep \/ ImportStep \/ Rollout
        \/ ObserveKeycloak \/ ObserveStatefulSet \/ Restart

Spec == Init /\ [][Next]_vars

-----------------------------------------------------------------------------
(***************************************************************************)
(* Properties.                                                             *)
(***************************************************************************)

\* Neither controller takes a rollout back: not the Keycloak controller when it
\* rebuilds the StatefulSet that the import controller has annotated, nor the
\* import controller when it writes back the StatefulSet that it has read.
RolloutsSurvive == K!RolloutsSurvive /\ I!NoLostRollout

\* Once both controllers have come to rest and neither reports an error, the
\* children of the instance are built from its spec, and the import of a server
\* that is ready is settled: in particular a realm that was imported is the one
\* that the import asks for, and the server was restarted since.
ChangesConverge ==
    K!Quiescent /\ I!Quiescent /\ keycloak.now.status # "error"
    => /\ K!Settled
       /\ LET c == imports[OneImport].now IN
          c.live /\ c.status # "error" /\ keycloak.now.status = "ready"
          => I!Settled(OneImport)
=============================================================================
