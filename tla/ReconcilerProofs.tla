-------------------------- MODULE ReconcilerProofs --------------------------
(***************************************************************************)
(* Proofs about Reconciler, for any set of LiveMigrations and any number   *)
(* of restarts.                                                            *)
(***************************************************************************)
EXTENDS Reconciler, TLAPS

(* The worker has a request exactly while it is in a Reconcile.             *)
TypeInv == TypeOK /\ (cur = None <=> worker \in {"idle", "dead"})

(* A goroutine runs only beside the Reconcile that started it.              *)
PollerInv ==
    \A m \in Migrations : poller[m] # "none" => worker = "select" /\ cur = m

(* How far the dummies are where no call has failed: a dummy-pod that this  *)
(* process created is waited for until it is ready or the time is up.       *)
Awaited == dummyPod = "ready" \/ waited \in {"no", "timeout"}

DummyInv ==
    ~fault =>
        /\ worker # "ready" => Awaited
        /\ worker \in {"ready", "dummysvc"} => dummyPod # "absent"
        /\ worker \in {"desiredPod", "desiredDeployment"} => cur \in annotated
        /\ worker \in {"watch", "select"} /\ cur \notin annotated \cup WithTemplate
               => dummyPod # "absent" /\ dummySvc

(* The inductive invariant. *)
IInv == TypeInv /\ PollerInv /\ DummyInv
-----------------------------------------------------------------------------
USE ReconcilerAssumption
USE DEF vars, goVars, dumVars

(* Every step keeps the types. *)
LEMMA NextTypeInv == TypeInv /\ [Next]_vars => TypeInv'
  <1> SUFFICES ASSUME TypeInv, [Next]_vars PROVE TypeInv'
    OBVIOUS
  <1> USE DEF TypeInv, TypeOK, CreatePod
  <1>1. CASE Dequeue
    <2>1. fault' \in BOOLEAN
      BY <1>1 DEF Dequeue
    <2>2. dummySvc' \in BOOLEAN
      BY <1>1 DEF Dequeue
    <2> QED
      BY <1>1, <2>1, <2>2 DEF Dequeue
  <1>2. CASE LoadConfig
    <2>1. fault' \in BOOLEAN
      BY <1>2 DEF LoadConfig, Goto, Return
    <2>2. dummySvc' \in BOOLEAN
      BY <1>2 DEF LoadConfig, Goto, Return
    <2> QED
      BY <1>2, <2>1, <2>2 DEF LoadConfig, Goto, Return
  <1>3. CASE GetObject
    <2>1. fault' \in BOOLEAN
      BY <1>3 DEF GetObject, Goto, Return
    <2>2. dummySvc' \in BOOLEAN
      BY <1>3 DEF GetObject, Goto, Return
    <2> QED
      BY <1>3, <2>1, <2>2 DEF GetObject, Goto, Return
  <1>4. CASE GetSourcePodTemplate
    <2>1. fault' \in BOOLEAN
      BY <1>4 DEF GetSourcePodTemplate, Goto, Return
    <2>2. dummySvc' \in BOOLEAN
      BY <1>4 DEF GetSourcePodTemplate, Goto, Return
    <2> QED
      BY <1>4, <2>1, <2>2 DEF GetSourcePodTemplate, Goto, Return
  <1>5. CASE ListChildPods
    <2>1. fault' \in BOOLEAN
      BY <1>5 DEF ListChildPods, getPodsAnnotationSet, Goto, Return
    <2>2. dummySvc' \in BOOLEAN
      BY <1>5 DEF ListChildPods, getPodsAnnotationSet, Goto, Return
    <2> QED
      BY <1>5, <2>1, <2>2 DEF ListChildPods, getPodsAnnotationSet, Goto, Return
  <1>6. CASE CreateDummyPod
    <2>1. fault' \in BOOLEAN
      BY <1>6 DEF CreateDummyPod, Goto, Return
    <2>2. dummySvc' \in BOOLEAN
      BY <1>6 DEF CreateDummyPod, Goto, Return
    <2> QED
      BY <1>6, <2>1, <2>2 DEF CreateDummyPod, Goto, Return
  <1>7. CASE WaitForContainerReady
    <2>1. fault' \in BOOLEAN
      BY <1>7 DEF WaitForContainerReady, Goto, Return
    <2>2. dummySvc' \in BOOLEAN
      BY <1>7 DEF WaitForContainerReady, Goto, Return
    <2> QED
      BY <1>7, <2>1, <2>2 DEF WaitForContainerReady, Goto, Return
  <1>8. CASE CreateDummyService
    <2>1. fault' \in BOOLEAN
      BY <1>8 DEF CreateDummyService, Goto, Return
    <2>2. dummySvc' \in BOOLEAN
      BY <1>8 DEF CreateDummyService, Goto, Return
    <2> QED
      BY <1>8, <2>1, <2>2 DEF CreateDummyService, Goto, Return
  <1>9. CASE StartGoroutines
    <2>1. fault' \in BOOLEAN
      BY <1>9 DEF StartGoroutines
    <2>2. dummySvc' \in BOOLEAN
      BY <1>9 DEF StartGoroutines
    <2> QED
      BY <1>9, <2>1, <2>2 DEF StartGoroutines
  <1>10. CASE WatcherPanics
    <2>1. fault' \in BOOLEAN
      BY <1>10 DEF WatcherPanics, Die
    <2>2. dummySvc' \in BOOLEAN
      BY <1>10 DEF WatcherPanics, Die
    <2> QED
      BY <1>10, <2>1, <2>2 DEF WatcherPanics, Die
  <1>11. CASE DummyPodReady
    <2>1. fault' \in BOOLEAN
      BY <1>11 DEF DummyPodReady
    <2>2. dummySvc' \in BOOLEAN
      BY <1>11 DEF DummyPodReady
    <2> QED
      BY <1>11, <2>1, <2>2 DEF DummyPodReady
  <1>12. CASE Killed
    <2>1. fault' \in BOOLEAN
      BY <1>12 DEF Killed, Die
    <2>2. dummySvc' \in BOOLEAN
      BY <1>12 DEF Killed, Die
    <2> QED
      BY <1>12, <2>1, <2>2 DEF Killed, Die
  <1>13. CASE Restart
    <2>1. fault' \in BOOLEAN
      BY <1>13 DEF Restart
    <2>2. dummySvc' \in BOOLEAN
      BY <1>13 DEF Restart
    <2> QED
      BY <1>13, <2>1, <2>2 DEF Restart
  <1>14. ASSUME NEW m \in Migrations, Poll(m) PROVE TypeInv'
    <2>1. fault' \in BOOLEAN
      BY <1>14 DEF Poll
    <2>2. dummySvc' \in BOOLEAN
      BY <1>14 DEF Poll
    <2> QED
      BY <1>14, <2>1, <2>2 DEF Poll
  <1>15. ASSUME NEW m \in Migrations, MigratePodReturns(m) PROVE TypeInv'
    <2>1. fault' \in BOOLEAN
      BY <1>15 DEF MigratePodReturns
    <2>2. dummySvc' \in BOOLEAN
      BY <1>15 DEF MigratePodReturns
    <2> QED
      BY <1>15, <2>1, <2>2 DEF MigratePodReturns
  <1>16. ASSUME NEW m \in Migrations, ObjectChanges(m) PROVE TypeInv'
    <2>1. fault' \in BOOLEAN
      BY <1>16 DEF ObjectChanges
    <2>2. dummySvc' \in BOOLEAN
      BY <1>16 DEF ObjectChanges
    <2> QED
      BY <1>16, <2>1, <2>2 DEF ObjectChanges
  <1>17. ASSUME NEW m \in Migrations, PodChanges(m) PROVE TypeInv'
    <2>1. fault' \in BOOLEAN
      BY <1>17 DEF PodChanges
    <2>2. dummySvc' \in BOOLEAN
      BY <1>17 DEF PodChanges
    <2> QED
      BY <1>17, <2>1, <2>2 DEF PodChanges
  <1>18. CASE UNCHANGED vars
    <2>1. fault' \in BOOLEAN
      BY <1>18
    <2>2. dummySvc' \in BOOLEAN
      BY <1>18
    <2> QED
      BY <1>18, <2>1, <2>2
  <1>19. CASE DesiredPod
    <2>1. fault' \in BOOLEAN
      BY <1>19 DEF DesiredPod, Goto, Return
    <2>2. dummySvc' \in BOOLEAN
      BY <1>19 DEF DesiredPod, Goto, Return
    <2> QED
      BY <1>19, <2>1, <2>2 DEF DesiredPod, Goto, Return
  <1>20. CASE DesiredDeployment
    <2>1. fault' \in BOOLEAN
      BY <1>20 DEF DesiredDeployment, Goto, Return
    <2>2. dummySvc' \in BOOLEAN
      BY <1>20 DEF DesiredDeployment, Goto, Return
    <2> QED
      BY <1>20, <2>1, <2>2 DEF DesiredDeployment, Goto, Return
  <1> QED
    BY <1>1, <1>2, <1>3, <1>4, <1>5, <1>6, <1>7, <1>8, <1>9, <1>10,
       <1>11, <1>12, <1>13, <1>14, <1>15, <1>16, <1>17, <1>18, <1>19, <1>20
       DEF Next, Reconcile, Goroutine, Cluster

(* Every step keeps the inductive invariant. *)
LEMMA NextIInv == IInv /\ [Next]_vars => IInv'
  <1> SUFFICES ASSUME IInv, [Next]_vars PROVE IInv'
    OBVIOUS
  <1>0. TypeInv'
    BY NextTypeInv DEF IInv
  <1> USE DEF IInv, PollerInv, DummyInv, Awaited, CreatePod
  <1>1. CASE Dequeue
    BY <1>0, <1>1 DEF Dequeue, TypeInv, TypeOK
  <1>2. CASE LoadConfig
    BY <1>0, <1>2 DEF LoadConfig, Goto, Return, TypeInv, TypeOK
  <1>3. CASE GetObject
    BY <1>0, <1>3 DEF GetObject, Goto, Return, TypeInv, TypeOK
  <1>4. CASE GetSourcePodTemplate
    BY <1>0, <1>4 DEF GetSourcePodTemplate, Goto, Return, TypeInv, TypeOK
  <1>5. CASE ListChildPods
    BY <1>0, <1>5 DEF ListChildPods, getPodsAnnotationSet, Goto, Return, TypeInv, TypeOK
  <1>6. CASE CreateDummyPod
    BY <1>0, <1>6 DEF CreateDummyPod, Goto, Return, TypeInv, TypeOK
  <1>7. CASE WaitForContainerReady
    BY <1>0, <1>7 DEF WaitForContainerReady, Goto, Return, TypeInv, TypeOK
  <1>8. CASE CreateDummyService
    BY <1>0, <1>8 DEF CreateDummyService, Goto, Return, TypeInv, TypeOK
  <1>9. CASE StartGoroutines
    BY <1>0, <1>9 DEF StartGoroutines, TypeInv, TypeOK
  <1>10. CASE WatcherPanics
    BY <1>0, <1>10 DEF WatcherPanics, Die, TypeInv, TypeOK
  <1>11. CASE DummyPodReady
    BY <1>0, <1>11 DEF DummyPodReady, TypeInv, TypeOK
  <1>12. CASE Killed
    BY <1>0, <1>12 DEF Killed, Die, TypeInv, TypeOK
  <1>13. CASE Restart
    BY <1>0, <1>13 DEF Restart, TypeInv, TypeOK
  <1>14. ASSUME NEW m \in Migrations, Poll(m) PROVE IInv'
    BY <1>0, <1>14 DEF Poll, TypeInv, TypeOK
  <1>15. ASSUME NEW m \in Migrations, MigratePodReturns(m) PROVE IInv'
    BY <1>0, <1>15 DEF MigratePodReturns, TypeInv, TypeOK
  <1>16. ASSUME NEW m \in Migrations, ObjectChanges(m) PROVE IInv'
    BY <1>0, <1>16 DEF ObjectChanges, TypeInv, TypeOK
  <1>17. ASSUME NEW m \in Migrations, PodChanges(m) PROVE IInv'
    BY <1>0, <1>17 DEF PodChanges, TypeInv, TypeOK
  <1>18. CASE UNCHANGED vars
    BY <1>0, <1>18 DEF TypeInv, TypeOK
  <1>19. CASE DesiredPod
    BY <1>0, <1>19 DEF DesiredPod, Goto, Return, TypeInv, TypeOK
  <1>20. CASE DesiredDeployment
    BY <1>0, <1>20 DEF DesiredDeployment, Goto, Return, TypeInv, TypeOK
  <1> QED
    BY <1>1, <1>2, <1>3, <1>4, <1>5, <1>6, <1>7, <1>8, <1>9, <1>10,
       <1>11, <1>12, <1>13, <1>14, <1>15, <1>16, <1>17, <1>18, <1>19, <1>20
       DEF Next, Reconcile, Goroutine, Cluster

(* The inductive invariant holds when the operator first starts. *)
LEMMA InitIInv == Init => IInv
  <1> SUFFICES ASSUME Init PROVE IInv
    OBVIOUS
  <1>1. fault \in BOOLEAN /\ dummySvc \in BOOLEAN
    BY DEF Init
  <1>2. TypeOK
    BY <1>1 DEF Init, TypeOK
  <1> QED
    BY <1>2 DEF Init, IInv, TypeInv, PollerInv, DummyInv, Awaited

(* The inductive invariant holds in every behaviour. *)
THEOREM Safety == Spec => []IInv
  BY InitIInv, NextIInv, PTL DEF Spec
-----------------------------------------------------------------------------
(* Type correctness of the reconciler.                                      *)
THEOREM TypeCorrect == Spec => []TypeOK
  <1>1. IInv => TypeOK
    BY DEF IInv, TypeInv
  <1> QED
    BY <1>1, Safety, PTL

(* However many LiveMigrations there are, a process runs one migration at a *)
(* time, and so one user of the checkpoints folder.                         *)
THEOREM OneMigration == Spec => []OneMigrationAtATime
  <1>1. IInv => OneMigrationAtATime
    BY DEF IInv, PollerInv, OneMigrationAtATime
  <1> QED
    BY <1>1, Safety, PTL

(* A destination that has met no error can be reached when it watches.      *)
THEOREM DestinationIsReady == Spec => []DestinationReady
  <1>1. IInv => DestinationReady
    BY DEF IInv, DummyInv, Awaited, DestinationReady
  <1> QED
    BY <1>1, Safety, PTL
=============================================================================
