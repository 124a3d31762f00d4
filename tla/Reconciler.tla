----------------------------- MODULE Reconciler -----------------------------
(***************************************************************************)
(* Reconcile of LiveMigrationReconciler on one cluster: the single worker  *)
(* that controller-runtime gives a controller by default, the steps of     *)
(* Reconcile up to its final select, the two goroutines it starts, and     *)
(* CreateDummyPod and CreateDummyService, which prepare the destination.   *)
(* What the watching goroutine does is module Restore, what a found source *)
(* pod leads to is module MigratePipeline; here a migration only begins    *)
(* and ends.                                                               *)
(*                                                                         *)
(* A LiveMigration and its source pod share a name: both are written m.    *)
(***************************************************************************)
EXTENDS Naturals

CONSTANTS Migrations,    \* LiveMigration objects, each with its source pod
          WithTemplate,  \* those with Spec.Template.ObjectMeta.Name set
          None,          \* no object
          MaxBoots       \* bound: how often the operator is started

ASSUME ReconcilerAssumption ==
    /\ WithTemplate \subseteq Migrations
    /\ None \notin Migrations
    /\ MaxBoots \in Nat \ {0}

VARIABLES
    boot,       \* the current incarnation of the operator
    objects,    \* the LiveMigrations that exist
    queue,      \* requests the worker has still to take
    worker,     \* where the worker is in Reconcile
    cur,        \* the request it works on
    annotated,  \* those whose Reconcile has set `annotations'
    watchers,   \* those whose watcher has been added to /checkpoints/
    poller,     \* the goroutine that looks for the source pod, for each
    pods,       \* source pods that exist
    dummyPod,   \* dummy-pod, as the API server has it
    dummySvc,   \* whether dummy-service exists
    waited,     \* whether this incarnation created dummy-pod, and whether
                \* the time to wait for it ran out
    fault       \* whether any call has failed so far

goVars  == <<annotated, watchers, poller>>
dumVars == <<dummyPod, dummySvc, waited>>
vars    == <<boot, objects, queue, worker, cur, goVars, pods, dumVars, fault>>

TypeOK ==
    /\ boot \in 1..MaxBoots
    /\ objects \subseteq Migrations /\ queue \subseteq Migrations
    /\ worker \in {"idle", "config", "get", "template", "children",
                   "desiredPod", "desiredDeployment", "dummypod", "ready",
                   "dummysvc", "watch", "select", "dead"}
    /\ cur \in Migrations \cup {None}
    /\ annotated \subseteq Migrations /\ watchers \subseteq Migrations
    /\ poller \in [Migrations -> {"none", "poll", "migrate", "done", "stopped"}]
    /\ pods \subseteq Migrations
    /\ dummyPod \in {"absent", "starting", "ready"}
    /\ waited \in {"no", "created", "timeout"}
    /\ dummySvc \in BOOLEAN /\ fault \in BOOLEAN

(* The dummies may be there from earlier: nothing deletes them.             *)
Init ==
    /\ boot = 1
    /\ objects = {} /\ queue = {}
    /\ worker = "idle" /\ cur = None
    /\ annotated = {} /\ watchers = {} /\ poller = [m \in Migrations |-> "none"]
    /\ pods \in SUBSET Migrations
    /\ dummyPod \in {"absent", "starting", "ready"} /\ dummySvc \in BOOLEAN
    /\ waited = "no"
    /\ fault = FALSE
-----------------------------------------------------------------------------
(* A Reconcile that goes on, and one that returns: with an error the        *)
(* request is queued again.                                                 *)
Goto(next) == worker' = next /\ UNCHANGED <<queue, cur, fault>>

(* Variant: the request is forgotten before it is queued again. *)
ReturnForgets(again) ==
    /\ worker' = "idle" /\ cur' = None
    /\ queue' = queue \cup {cur'}
    /\ fault' = (fault \/ again # {})

Return(again) ==
    /\ worker' = "idle" /\ cur' = None
    /\ queue' = queue \cup again
    /\ fault' = (fault \/ again # {})

Dequeue ==
    /\ worker = "idle"
    /\ \E m \in queue : queue' = queue \ {m} /\ cur' = m
    /\ worker' = "config"
    /\ annotated' = annotated \ {cur'}
    /\ UNCHANGED <<boot, objects, watchers, poller, pods, dumVars, fault>>

(* clientcmd.BuildConfigFromFlags and kubernetes.NewForConfig *)
LoadConfig ==
    /\ worker = "config"
    /\ Goto("get") \/ Return({cur})
    /\ UNCHANGED <<boot, objects, goVars, pods, dumVars>>

(* client.IgnoreNotFound: an object that is gone needs no work.  With a     *)
(* template in the object, neither the pod nor the dummies are looked at.   *)
GetObject ==
    /\ worker = "get"
    /\ \/ cur \in objects /\ Goto(IF cur \in WithTemplate THEN "watch" ELSE "template")
       \/ cur \notin objects /\ Return({})
       \/ Return({cur})
    /\ UNCHANGED <<boot, objects, goVars, pods, dumVars>>

(* Any error counts as "no such pod": this cluster is the destination.      *)
GetSourcePodTemplate ==
    /\ worker = "template"
    /\ \/ cur \in pods /\ Goto("children")
       \/ cur \notin pods /\ Goto("dummypod")
       \/ worker' = "dummypod" /\ fault' = TRUE /\ UNCHANGED <<queue, cur>>
    /\ UNCHANGED <<boot, objects, goVars, pods, dumVars>>

(* Variant: the annotations are made and, like the pod, not used. *)
ListWithoutAnnotations ==
    /\ worker = "children"
    /\ Goto("watch") \/ Return({cur})
    /\ UNCHANGED <<boot, objects, goVars, pods, dumVars>>

(* Of the labels, finalizers and annotations made from the pod, only the    *)
(* annotation "sourcePod" is used again, by the goroutine that polls.       *)
getPodsAnnotationSet == annotated' = annotated \cup {cur}

(* r.List, desiredPod and desiredDeployment: what they return is not used,  *)
(* an error (of SetControllerReference in the latter) ends the Reconcile.   *)
ListChildPods ==
    /\ worker = "children"
    /\ getPodsAnnotationSet
    /\ Goto("desiredPod") \/ Return({cur})
    /\ UNCHANGED <<boot, objects, watchers, poller, pods, dumVars>>

DesiredPod ==
    /\ worker = "desiredPod"
    /\ Goto("desiredDeployment") \/ Return({cur})
    /\ UNCHANGED <<boot, objects, goVars, pods, dumVars>>

DesiredDeployment ==
    /\ worker = "desiredDeployment"
    /\ Goto("watch") \/ Return({cur})
    /\ UNCHANGED <<boot, objects, goVars, pods, dumVars>>
-----------------------------------------------------------------------------
(* controllers/dummy.  An error of Get is taken for "not there", an error   *)
(* of Create (the object is there already, too) is logged by Reconcile.     *)

CreatePod == dummyPod' = "starting" /\ waited' = "created"

(* Variant: nobody waits for the container. *)
CreateDummyPodOnly ==
    /\ worker = "dummypod"
    /\ worker' = "dummysvc"
    /\ IF dummyPod = "absent" THEN CreatePod ELSE UNCHANGED <<dummyPod, waited>>
    /\ UNCHANGED <<boot, objects, queue, cur, goVars, pods, dummySvc, fault>>

(* A pod that is found is not waited for, ready or not. *)
CreateDummyPod ==
    /\ worker = "dummypod"
    /\ \/ dummyPod # "absent" /\ Goto("dummysvc") /\ UNCHANGED <<dummyPod, waited>>
       \/ dummyPod = "absent" /\ Goto("ready") /\ CreatePod
       \/ /\ worker' = "dummysvc" /\ fault' = TRUE
          /\ UNCHANGED <<queue, cur, dummyPod, waited>>
    /\ UNCHANGED <<boot, objects, goVars, pods, dummySvc>>

(* Variant: no timeout. *)
WaitWithoutTimeout ==
    /\ worker = "ready" /\ dummyPod = "ready"
    /\ Goto("dummysvc")
    /\ UNCHANGED <<boot, objects, goVars, pods, dumVars>>

(* The ticker sees the container ready, or the timeout comes first; the     *)
(* error of the timeout is logged like those above.                         *)
WaitForContainerReady ==
    /\ worker = "ready"
    /\ Goto("dummysvc")
    /\ \/ dummyPod = "ready" /\ UNCHANGED waited
       \/ waited' = "timeout"
    /\ UNCHANGED <<boot, objects, goVars, pods, dummyPod, dummySvc>>

CreateDummyService ==
    /\ worker = "dummysvc"
    /\ \/ Goto("watch") /\ dummySvc' = TRUE
       \/ worker' = "watch" /\ fault' = TRUE /\ UNCHANGED <<queue, cur, dummySvc>>
    /\ UNCHANGED <<boot, objects, goVars, pods, dummyPod, waited>>
-----------------------------------------------------------------------------
(* Variant: the Reconcile returns once its goroutines run. *)
StartAndReturn ==
    /\ worker = "watch"
    /\ worker' = "idle" /\ cur' = None
    /\ poller' = [poller EXCEPT ![cur] = "poll"]
    /\ watchers' = watchers \cup {cur}
    /\ UNCHANGED <<boot, objects, queue, annotated, pods, dumVars, fault>>

(* Both goroutines start, the watcher is added to /checkpoints/ or not, and *)
(* the worker comes to a select over two channels that nobody sends to or   *)
(* closes: there is no step from "select".                                  *)
StartGoroutines ==
    /\ worker = "watch"
    /\ worker' = "select"
    /\ poller' = [poller EXCEPT ![cur] = "poll"]
    /\ \/ watchers' = watchers \cup {cur} /\ UNCHANGED fault
       \/ fault' = TRUE /\ UNCHANGED watchers
    /\ UNCHANGED <<boot, objects, queue, cur, annotated, pods, dumVars>>

(* Without annotations the pod to look for has the empty name, which Get    *)
(* refuses.  An error ends the goroutine; CheckPodExist has no other way to *)
(* say that the pod is not there, so the branch that sleeps is never taken. *)
Poll(m) ==
    /\ poller[m] = "poll"
    /\ \/ /\ m \in annotated \cap pods
          /\ poller' = [poller EXCEPT ![m] = "migrate"]
          /\ UNCHANGED fault
       \/ /\ poller' = [poller EXCEPT ![m] = "stopped"]
          /\ fault' = (fault \/ m \in annotated \cap pods)
    /\ UNCHANGED <<boot, objects, queue, worker, cur, annotated, watchers, pods,
                   dumVars>>

(* MigratePodPipelined has deleted the pod, or could not, and returns.      *)
MigratePodReturns(m) ==
    /\ poller[m] = "migrate"
    /\ poller' = [poller EXCEPT ![m] = "done"]
    /\ pods' \in {pods, pods \ {m}}
    /\ UNCHANGED <<boot, objects, queue, worker, cur, annotated, watchers,
                   dumVars, fault>>
-----------------------------------------------------------------------------
(* The end of the process and its next start. *)

Die ==
    /\ worker' = "dead" /\ cur' = None
    /\ queue' = {}
    /\ annotated' = {} /\ watchers' = {}
    /\ poller' = [m \in Migrations |-> "none"]
    /\ waited' = "no"
    /\ UNCHANGED <<boot, objects, pods, dummyPod, dummySvc>>

(* Without inotify NewWatcher returns nil and the goroutine dereferences it. *)
WatcherPanics == worker = "watch" /\ Die /\ fault' = TRUE

(* The process is ended from outside, at any point: no call has failed.     *)
Killed == worker # "dead" /\ Die /\ UNCHANGED fault

(* main: the informer lists every object again.  Without a configuration or *)
(* a manager the start ends in a nil dereference or in os.Exit.             *)
Restart ==
    /\ worker = "dead" /\ boot < MaxBoots
    /\ boot' = boot + 1
    /\ \/ worker' = "idle" /\ queue' = objects /\ UNCHANGED fault
       \/ fault' = TRUE /\ UNCHANGED <<worker, queue>>
    /\ UNCHANGED <<objects, cur, goVars, pods, dumVars>>
-----------------------------------------------------------------------------
(* External: users, the API server and the kubelet. *)

(* Creation, change or deletion of an object: the informer queues it. *)
ObjectChanges(m) ==
    /\ objects' \in {objects \cup {m}, objects \ {m}}
    /\ m \in objects \cup objects'
    /\ queue' = IF worker = "dead" THEN queue ELSE queue \cup {m}
    /\ UNCHANGED <<boot, worker, cur, goVars, pods, dumVars, fault>>

PodChanges(m) ==
    /\ pods' = IF m \in pods THEN pods \ {m} ELSE pods \cup {m}
    /\ UNCHANGED <<boot, objects, queue, worker, cur, goVars, dumVars, fault>>

DummyPodReady ==
    /\ dummyPod = "starting"
    /\ dummyPod' = "ready"
    /\ UNCHANGED <<boot, objects, queue, worker, cur, goVars, pods, dummySvc,
                   waited, fault>>
-----------------------------------------------------------------------------
Reconcile ==
    \/ Dequeue \/ LoadConfig \/ GetObject \/ GetSourcePodTemplate
    \/ ListChildPods \/ DesiredPod \/ DesiredDeployment
    \/ CreateDummyPod \/ WaitForContainerReady \/ CreateDummyService
    \/ StartGoroutines \/ WatcherPanics

Goroutine(m) == Poll(m) \/ MigratePodReturns(m)

Cluster ==
    \/ \E m \in Migrations : ObjectChanges(m) \/ PodChanges(m)
    \/ DummyPodReady

Next ==
    \/ Reconcile \/ \E m \in Migrations : Goroutine(m)
    \/ Cluster \/ Killed \/ Restart

Spec == Init /\ [][Next]_vars

(* The worker and the goroutines run while they can, a migration ends       *)
(* (MigratePipeline!MigrationEnds).  Nothing is assumed of the cluster.     *)
FairSpec ==
    /\ Spec
    /\ WF_vars(Reconcile)
    /\ \A m \in Migrations : WF_vars(Goroutine(m))
-----------------------------------------------------------------------------
(* Properties. *)

(* Two migrations never run at once in a process.  MigratePodPipelined      *)
(* clears, fills and reads the one folder /tmp/checkpoints/checkpoints, so  *)
(* two of them would ship each other's archives.  Nothing in it guards the  *)
(* folder: that the only worker stays in its Reconcile does.                *)
OneMigrationAtATime ==
    \A m, n \in Migrations :
        poller[m] = "migrate" /\ poller[n] = "migrate" => m = n

(* On a destination where no call failed, the watch begins only when both   *)
(* dummies are there, and with the file handler ready, but for two cases:   *)
(* dummy-pod was there before this process (dummy.go:85 takes a pod that is *)
(* found as it is, and an operator killed in its wait leaves one that is    *)
(* still starting), or the wait for it ran out and was only logged.         *)
DestinationReady ==
    worker = "select" /\ cur \notin annotated \cup WithTemplate /\ ~fault =>
        /\ dummySvc /\ dummyPod # "absent"
        /\ dummyPod = "ready" \/ waited \in {"no", "timeout"}

(* No Reconcile is held up before its select: not by a dummy pod that never *)
(* becomes ready, nor by errors, after which the worker is free again.      *)
ReconcileSettles ==
    worker \notin {"idle", "select", "dead"} ~> worker \in {"idle", "select", "dead"}

(* Where the source pod was found, the migration begins, unless a call      *)
(* fails, the pod goes away or the process dies.                            *)
SourceMigrates ==
    \A m \in Migrations :
        worker = "children" /\ cur = m
            ~> \/ poller[m] \in {"migrate", "done"}
               \/ fault \/ m \notin pods \/ worker = "dead"

(* livemigration.go:212: "Wait for either the file or the sourcePod to be   *)
(* detected".  When the goroutine has found the source pod, the Reconcile   *)
(* that waits for it returns.                                               *)
DetectionEndsReconcile ==
    \A m \in Migrations :
        worker = "select" /\ cur = m /\ poller[m] = "migrate"
            ~> worker \in {"idle", "dead"}

(* livemigration.go:205: "sourcePod not found yet, wait and retry..".  A    *)
(* source pod that comes up while the Reconcile of its LiveMigration looks  *)
(* for it, and stays, is migrated, if no call fails.                        *)
PollerRetries ==
    \A m \in Migrations :
        <>[](worker = "select" /\ cur = m /\ m \in pods /\ ~fault)
            => <>(poller[m] \in {"migrate", "done"})
=============================================================================
