--------------------------- MODULE OlderPathProofs --------------------------
(***************************************************************************)
(* Proofs about OlderPath, for any containers and for anything that a      *)
(* failed migration left in the folder: MigratePod, the file handler and   *)
(* the two older restores together.                                        *)
(***************************************************************************)
EXTENDS OlderPath, FaultlessProofs

(* MigratePod runs once, and uploads only when the pod is terminated. *)
SequentialInv ==
    /\ SharedInv
    /\ boot = 1
    /\ stage2 # "none" => main \in {"cleanup", "done"}

(* Where the files that are around come from: the migration itself, or an   *)
(* earlier one whose folder could not be cleared.                           *)
OriginsInv ==
    /\ \A f \in kubelet : f[1] \in Containers /\ f[2] = boot
    /\ \A f \in dir \cup Pending \cup Arrived : f[2] <= boot

(* As MigratePod may send old files along, every upload is awaited or given *)
(* up, and not only those of this boot.                                     *)
UploadsAwaitedInv ==
    main # "dead" => InFlight \subseteq lost \cup posting

(* Until stage 2 touches it there is no marker of this migration, and once  *)
(* it has arrived only uploads that were given up are on their way.         *)
MarkerInv ==
    /\ Marker \in dir \cup Pending \cup Arrived =>
           main = "dead" \/ stage2 \in {"mark", "send", "done"}
    /\ Marker \in Arrived =>
           \A f \in Pending \cup InFlight : f[1] # Dummy => f \in lost

SourceInv ==
    /\ SequentialInv
    /\ OriginsInv
    /\ UploadsAwaitedInv
    /\ MarkerInv

(* What the restore has, depending on how far it is. *)
RestoreInv ==
    /\ OlderTypeOK
    /\ rst \in {"idle", "list"} =>
           toRestore = {} /\ appending = {} /\ list = {} /\ images = {}
    /\ rst # "returned" => copy = {}
    /\ restorer = Sequential =>
           appending = {} /\ \A f \in toRestore : f[1] # Dummy

(* A restore that no old marker has called works on files that are there,   *)
(* after the marker of this migration.                                      *)
CalledInv ==
    /\ toRestore \subseteq Present
    /\ <<Dummy, 0>> \notin Present /\ rst # "idle" => Marker \in Present

OlderIInv ==
    /\ SourceInv
    /\ RestoreInv
    /\ CalledInv
    /\ ImagesAreWhole
-----------------------------------------------------------------------------
(* If no call has failed, then the folder was cleared and nothing is        *)
(* shipped but the archives of the pod and the marker.                      *)
ShipmentInv ==
    ~fault =>
        /\ stage1 \notin {"none", "clear"} => dir \subseteq OwnArchives \cup {Marker}
        /\ Pending \cup Arrived \subseteq OwnArchives \cup {Marker}

(* Then the restore also has nothing else, and as long as no append has     *)
(* overwritten another it drops none of them.                               *)
RestoredInv ==
    ~fault =>
        /\ toRestore \subseteq OwnArchives \cup {Marker}
        /\ list \subseteq OwnArchives \cap images
        /\ unwhole = {}
        /\ \A w \in appending :
               /\ w[2] \subseteq OwnArchives \cap images
               /\ \/ w[1] = Marker /\ w[3] = {}
                  \/ w[1] \in OwnArchives \cap images /\ w[3] = {w[1]}
        /\ restorer = Sequential /\ list # {} => podName = "pod"
        /\ rst = "files" /\ ~raced =>
               OwnArchives \subseteq toRestore \cup list \cup {w[1] : w \in appending}
        /\ rst = "returned" => copy = list /\ list # {}
        /\ rst = "returned" /\ ~raced => OwnArchives \subseteq list

OlderFaultlessInv ==
    /\ FaultlessInv
    /\ ShipmentInv
    /\ RestoredInv
-----------------------------------------------------------------------------
USE ConstantsAssumption, StaleAssumption
USE DEF vars, mainVars, ckVars, reqVars, upVars, postVars, fsVars, extVars,
        kletVars, apiVars, destVars, srcVars, rstVars, Marker, Archive,
        InFlight, Arrived

(* The steps that are MigratePod's own. *)
OwnNext == ClearPath \/ MkdirPath \/ ChownPath \/ ReadPath \/ MigratePodReturns

(* A step of the source leaves the restore alone and is one of MigratePod's *)
(* own or one that the pipelined migration also has.                        *)
LEMMA SourceSteps == Source => (SharedNext \/ OwnNext) /\ UNCHANGED rstVars
  BY DEF Source, MigratePod, CheckpointPodCrio, SharedNext, OwnNext

(* The shared steps are steps of the pipelined migration, which keep types. *)
LEMMA SharedTypeOK == TypeOK /\ SharedNext => TypeOK'
  <1>1. SharedNext => Next
    BY DEF SharedNext, Next, Operator
  <1> QED
    BY <1>1, NextTypeOK

(* MigratePod's own steps keep types. *)
LEMMA OwnTypeOK == TypeOK /\ OwnNext => TypeOK'
  <1> SUFFICES ASSUME TypeOK, OwnNext PROVE TypeOK'
    OBVIOUS
  <1> USE DEF TypeOK, MainStates, Stage1States, Stage2States
  <1>1. CASE ClearPath
    <2>1. dir' \subseteq Entry
      BY <1>1 DEF ClearPath, ClearFolderGoesOn, RemoveAll
    <2>2. exists' \in BOOLEAN
      BY <1>1 DEF ClearPath, ClearFolderGoesOn, RemoveAll
    <2>3. fault' \in BOOLEAN
      BY <1>1 DEF ClearPath, ClearFolderGoesOn, RemoveAll
    <2> QED
      BY <1>1, <2>1, <2>2, <2>3 DEF ClearPath, ClearFolderGoesOn
  <1>2. CASE MkdirPath
    <2>1. stage1' \in Stage1States /\ main' \in MainStates
      BY <1>2 DEF MkdirPath, MigrateReturnsWith
    <2>2. exists' \in BOOLEAN
      BY <1>2 DEF MkdirPath
    <2>3. fault' \in BOOLEAN
      BY <1>2 DEF MkdirPath, MigrateReturnsWith
    <2> QED
      BY <1>2, <2>1, <2>2, <2>3 DEF MkdirPath
  <1>3. CASE ChownPath
    <2>1. fault' \in BOOLEAN
      BY <1>3 DEF ChownPath
    <2> QED
      BY <1>3, <2>1 DEF ChownPath
  <1>4. CASE ReadPath
    <2>1. toStat' \subseteq Entry
      BY <1>4 DEF ReadPath
    <2>2. fault' \in BOOLEAN
      BY <1>4 DEF ReadPath
    <2> QED
      BY <1>4, <2>1, <2>2 DEF ReadPath
  <1>5. CASE MigratePodReturns
    BY <1>5 DEF MigratePodReturns
  <1> QED
    BY <1>1, <1>2, <1>3, <1>4, <1>5 DEF OwnNext

(* The shared steps keep what MigratePod relies on. *)
LEMMA SharedSourceInv == SourceInv /\ SharedNext => SourceInv'
  <1> SUFFICES ASSUME SourceInv, SharedNext PROVE SourceInv'
    OBVIOUS
  <1>0. TypeOK'
    BY SharedTypeOK DEF SourceInv, SequentialInv, SharedInv
  <1> USE DEF SourceInv, SequentialInv, SharedInv, AwaitedInv, OriginsInv,
              UploadsAwaitedInv, MarkerInv, Pending
  <1>1. CASE PollFound
    BY <1>0, <1>1 DEF PollFound, TypeOK
  <1>2. CASE PollError
    BY <1>0, <1>2 DEF PollError, TypeOK
  <1>3. CASE PrintContainerIDs
    BY <1>0, <1>3 DEF PrintContainerIDs, TypeOK
  <1>4. CASE CheckpointsWaited
    BY <1>0, <1>4 DEF CheckpointsWaited, TypeOK
  <1>5. CASE DeletePod
    BY <1>0, <1>5 DEF DeletePod, TypeOK
  <1>6. CASE WatchPod
    BY <1>0, <1>6 DEF WatchPod, TypeOK
  <1>7. CASE WatchPanics
    BY <1>0, <1>7 DEF WatchPanics, Die, TypeOK
  <1>8. CASE WaitDeleted
    BY <1>0, <1>8 DEF WaitDeleted, TypeOK
  <1>9. CASE WatchClosed
    BY <1>0, <1>9 DEF WatchClosed, TypeOK
  <1>10. CASE ServiceFound
    BY <1>0, <1>10 DEF ServiceFound, TypeOK
  <1>11. CASE ServicePanics
    BY <1>0, <1>11 DEF ServicePanics, Die, TypeOK
  <1>12. CASE TouchDummy
    BY <1>0, <1>12 DEF TouchDummy, TypeOK
  <1>13. CASE DummyPosted
    BY <1>0, <1>13 DEF DummyPosted, TypeOK
  <1>14. CASE PodGone
    BY <1>0, <1>14 DEF PodGone, TypeOK
  <1>15. CASE ServiceAppears
    BY <1>0, <1>15 DEF ServiceAppears, TypeOK
  <1>16. CASE Killed
    BY <1>0, <1>16 DEF Killed, Die, TypeOK
  <1>17. ASSUME NEW c \in Containers, CheckpointPost(c) PROVE SourceInv'
    BY <1>0, <1>17 DEF CheckpointPost, TypeOK
  <1>18. ASSUME NEW c \in Containers, CheckpointAnswered(c) PROVE SourceInv'
    <2>1. AwaitedInv'
      BY <1>0, <1>18 DEF CheckpointAnswered, TypeOK, Entry, Names
    <2>2. SequentialInv'
      BY <1>0, <1>18, <2>1 DEF CheckpointAnswered, TypeOK
    <2>3. OriginsInv' /\ UploadsAwaitedInv' /\ MarkerInv'
      BY <1>0, <1>18 DEF CheckpointAnswered, TypeOK
    <2> QED
      BY <2>2, <2>3
  <1>19. ASSUME NEW c \in Containers, CheckpointLost(c) PROVE SourceInv'
    <2>1. AwaitedInv'
      BY <1>0, <1>19 DEF CheckpointLost, TypeOK, Entry, Names
    <2>2. SequentialInv'
      BY <1>0, <1>19, <2>1 DEF CheckpointLost, TypeOK
    <2>3. OriginsInv' /\ UploadsAwaitedInv' /\ MarkerInv'
      BY <1>0, <1>19 DEF CheckpointLost, TypeOK
    <2> QED
      BY <2>2, <2>3
  <1>20. ASSUME NEW f \in toStat, UploadInfo(f) PROVE SourceInv'
    BY <1>0, <1>20 DEF UploadInfo, TypeOK
  <1>21. ASSUME NEW f \in toPost, Post(f) PROVE SourceInv'
    BY <1>0, <1>21 DEF Post, TypeOK
  <1>22. ASSUME NEW f \in posting, PostAnswered(f) PROVE SourceInv'
    BY <1>0, <1>22 DEF PostAnswered, TypeOK
  <1>23. ASSUME NEW f \in posting, PostLost(f) PROVE SourceInv'
    BY <1>0, <1>23 DEF PostLost, TypeOK
  <1>24. ASSUME NEW f \in received, HandlerRejects(f) PROVE SourceInv'
    BY <1>0, <1>24 DEF HandlerRejects, TypeOK
  <1>25. ASSUME NEW f \in received, HandlerCreates(f) PROVE SourceInv'
    BY <1>0, <1>25 DEF HandlerCreates, TypeOK
  <1>26. ASSUME NEW f \in copying, HandlerCopies(f) PROVE SourceInv'
    BY <1>0, <1>26 DEF HandlerCopies, TypeOK
  <1>27. ASSUME NEW f \in kubelet, KubeletWrites(f) PROVE SourceInv'
    BY <1>0, <1>27 DEF KubeletWrites, TypeOK
  <1>28. ASSUME NEW f \in kubelet, KubeletRefuses(f) PROVE SourceInv'
    BY <1>0, <1>28 DEF KubeletRefuses, TypeOK
  <1> QED
    BY <1>1, <1>2, <1>3, <1>4, <1>5, <1>6, <1>7, <1>8, <1>9, <1>10, <1>11,
       <1>12, <1>13, <1>14, <1>15, <1>16, <1>17, <1>18, <1>19, <1>20,
       <1>21, <1>22, <1>23, <1>24, <1>25, <1>26, <1>27, <1>28
       DEF SharedNext, FileHandler, Cluster

(* MigratePod's own steps keep it too. *)
LEMMA OwnSourceInv == SourceInv /\ OwnNext => SourceInv'
  <1> SUFFICES ASSUME SourceInv, OwnNext PROVE SourceInv'
    OBVIOUS
  <1>0. TypeOK'
    BY OwnTypeOK DEF SourceInv, SequentialInv, SharedInv
  <1> USE DEF SourceInv, SequentialInv, SharedInv, AwaitedInv, OriginsInv,
              UploadsAwaitedInv, MarkerInv, Pending, TypeOK
  <1>1. CASE ClearPath
    BY <1>0, <1>1 DEF ClearPath, ClearFolderGoesOn, RemoveAll
  <1>2. CASE MkdirPath
    BY <1>0, <1>2 DEF MkdirPath, MigrateReturnsWith
  <1>3. CASE ChownPath
    BY <1>0, <1>3 DEF ChownPath
  <1>4. CASE ReadPath
    BY <1>0, <1>4 DEF ReadPath
  <1>5. CASE MigratePodReturns
    BY <1>0, <1>5 DEF MigratePodReturns
  <1> QED
    BY <1>1, <1>2, <1>3, <1>4, <1>5 DEF OwnNext

(* Nothing that has reached the other cluster or was given up is forgotten. *)
LEMMA SourceGrows ==
    ASSUME SharedNext \/ OwnNext
    PROVE  /\ boot' = boot /\ lost \subseteq lost'
           /\ stored \subseteq stored' /\ partial \subseteq partial'
           /\ Present \subseteq Present'
  BY DEF Present, SharedNext, OwnNext, FileHandler, Cluster, ClearPath,
       ClearFolderGoesOn, RemoveAll, MkdirPath, MigrateReturnsWith, ChownPath,
       ReadPath, MigratePodReturns,
       PollFound, PollError, PrintContainerIDs, CheckpointsWaited, DeletePod,
       WatchPod, WatchPanics, WaitDeleted, WatchClosed, ServiceFound,
       ServicePanics, TouchDummy, DummyPosted, PodGone,
       ServiceAppears, Killed, CheckpointPost, CheckpointAnswered,
       CheckpointLost, UploadInfo, Post, PostAnswered, PostLost,
       HandlerRejects, HandlerCreates, HandlerCopies, KubeletWrites,
       KubeletRefuses, Die

(* The restores change nothing of the source but the record of failures. *)
LEMMA RestoreKeepsSource ==
    ASSUME SourceInv, UNCHANGED srcVars, fault' \in BOOLEAN
    PROVE  SourceInv'
  BY DEF SourceInv, SequentialInv, SharedInv, TypeOK, AwaitedInv, OriginsInv,
         UploadsAwaitedInv, MarkerInv, Pending

(* Every step of the two clusters keeps the inductive invariant. *)
LEMMA OlderNextIInv == OlderIInv /\ [OlderNext]_allVars => OlderIInv'
  <1> SUFFICES ASSUME OlderIInv, [OlderNext]_allVars PROVE OlderIInv'
    OBVIOUS
  <1>a. /\ SourceInv /\ RestoreInv /\ CalledInv /\ ImagesAreWhole
        /\ OlderTypeOK /\ TypeOK /\ fault \in BOOLEAN
    BY DEF OlderIInv, RestoreInv, OlderTypeOK, TypeOK
  <1>b. ASSUME SourceInv' PROVE TypeOK'
    BY <1>b DEF SourceInv, SequentialInv, SharedInv
  <1>1. CASE Source /\ UNCHANGED restorer
    <2>1. (SharedNext \/ OwnNext) /\ UNCHANGED <<restorer, rstVars>>
      BY <1>1, SourceSteps
    <2>2. SourceInv'
      BY <1>a, <2>1, SharedSourceInv, OwnSourceInv
    <2>3. RestoreInv'
      BY <1>a, <1>b, <2>1, <2>2 DEF RestoreInv, OlderTypeOK
    <2>4. CalledInv' /\ ImagesAreWhole'
      BY <1>a, <2>1, SourceGrows DEF CalledInv, ImagesAreWhole
    <2> QED
      BY <2>2, <2>3, <2>4 DEF OlderIInv
  <1>2. CASE RestoreCalled /\ UNCHANGED restorer
    <2>1. SourceInv' /\ TypeOK'
      BY <1>a, <1>b, <1>2, RestoreKeepsSource DEF RestoreCalled
    <2>2. RestoreInv'
      BY <1>a, <1>2, <2>1 DEF RestoreCalled, RestoreInv, OlderTypeOK
    <2>3. CalledInv'
      <3>1. PICK m \in Present : m[1] = Dummy
        BY <1>2 DEF RestoreCalled
      <3>2. m \in Entry /\ m[2] <= boot /\ boot = 1
        BY <1>a, <3>1 DEF Present, TypeOK, SourceInv, SequentialInv, OriginsInv
      <3>3. m = <<Dummy, 0>> \/ m = Marker
        BY <3>1, <3>2 DEF Entry
      <3> QED
        BY <1>a, <1>2, <3>3 DEF RestoreCalled, CalledInv, Present
    <2>4. ImagesAreWhole'
      BY <1>a, <1>2 DEF RestoreCalled, ImagesAreWhole, Present
    <2> QED
      BY <2>1, <2>2, <2>3, <2>4 DEF OlderIInv
  <1>3. CASE ReadFiles /\ UNCHANGED restorer
    <2>1. fault' \in BOOLEAN
      BY <1>a, <1>3 DEF ReadFiles
    <2>2. SourceInv' /\ TypeOK'
      BY <1>a, <1>b, <1>3, <2>1, RestoreKeepsSource DEF ReadFiles
    <2>3. toRestore' \subseteq Present
      BY <1>3 DEF ReadFiles
    <2>4. toRestore' \subseteq Entry
      BY <1>a, <2>3 DEF Present, TypeOK
    <2>5. RestoreInv'
      BY <1>a, <1>3, <2>2, <2>4 DEF ReadFiles, RestoreInv, OlderTypeOK,
         Sequential, Parallel
    <2>6. CalledInv' /\ ImagesAreWhole'
      BY <1>a, <1>3, <2>3 DEF ReadFiles, CalledInv, ImagesAreWhole, Present
    <2> QED
      BY <2>2, <2>5, <2>6 DEF OlderIInv
  <1>4. CASE CreateRestored /\ UNCHANGED restorer
    <2>1. fault' \in BOOLEAN
      BY <1>a, <1>4 DEF CreateRestored
    <2>2. SourceInv' /\ TypeOK'
      BY <1>a, <1>b, <1>4, <2>1, RestoreKeepsSource DEF CreateRestored
    <2>3. RestoreInv'
      BY <1>a, <1>4, <2>2 DEF CreateRestored, RestoreInv, OlderTypeOK, FilesDone
    <2>4. CalledInv' /\ ImagesAreWhole'
      BY <1>a, <1>4 DEF CreateRestored, FilesDone, CalledInv, ImagesAreWhole,
         Present
    <2> QED
      BY <2>2, <2>3, <2>4 DEF OlderIInv
  <1>c. ASSUME NEW f \in toRestore, f[1] # Dummy, Commit(f), rst = "files",
               <<Dummy, 0>> \notin Present
        PROVE  unwhole' \subseteq lost \cup partial
    <2>1. f \in stored \cup partial \cup lost
      BY <1>a, <1>c DEF CalledInv, Present, SourceInv, MarkerInv
    <2> QED
      BY <1>a, <1>c, <2>1 DEF Commit, ImagesAreWhole
  <1>5. ASSUME NEW f \in toRestore, RestoreFile(f), UNCHANGED restorer
        PROVE  OlderIInv'
    <2>1. fault' \in BOOLEAN
      BY <1>a, <1>5 DEF RestoreFile
    <2>2. SourceInv' /\ TypeOK'
      BY <1>a, <1>b, <1>5, <2>1, RestoreKeepsSource DEF RestoreFile
    <2>3. RestoreInv'
      BY <1>a, <1>5, <2>2 DEF RestoreFile, Commit, RestoreInv, OlderTypeOK,
         Sequential
    <2>4. CalledInv'
      BY <1>a, <1>5 DEF RestoreFile, CalledInv, Present
    <2>5. ImagesAreWhole'
      BY <1>a, <1>c, <1>5 DEF RestoreFile, RestoreInv, ImagesAreWhole, Present
    <2> QED
      BY <2>2, <2>3, <2>4, <2>5 DEF OlderIInv
  <1>6. ASSUME NEW f \in toRestore, WorkerProcesses(f), UNCHANGED restorer
        PROVE  OlderIInv'
    <2>1. fault' \in BOOLEAN
      BY <1>a, <1>6 DEF WorkerProcesses
    <2>2. SourceInv' /\ TypeOK'
      BY <1>a, <1>b, <1>6, <2>1, RestoreKeepsSource DEF WorkerProcesses
    <2>a. f \in Entry /\ list \subseteq Entry
      BY <1>a DEF OlderTypeOK
    <2>b. \A w \in appending' : w[1] \in Entry /\ w[2] \cup w[3] \subseteq Entry
      <3>1. appending' \subseteq appending \cup {<<f, list, {}>>, <<f, list, {f}>>}
        BY <1>6 DEF WorkerProcesses
      <3>2. \A w \in {<<f, list, {}>>, <<f, list, {f}>>} :
               w[1] \in Entry /\ w[2] \cup w[3] \subseteq Entry
        BY <2>a
      <3> QED
        BY <1>a, <3>1, <3>2 DEF OlderTypeOK
    <2>c. rst' \in {"files", "hung"} /\ podName' \in {"", "pod", "dummy"}
      BY <1>a, <1>6 DEF WorkerProcesses, OlderTypeOK
    <2>d. unwhole' \subseteq images'
      BY <1>a, <1>6 DEF WorkerProcesses, Commit, OlderTypeOK
    <2>3. RestoreInv'
      BY <1>a, <1>6, <2>2, <2>b, <2>c, <2>d
         DEF WorkerProcesses, RestoreInv, OlderTypeOK, Sequential, Parallel
    <2>4. CalledInv'
      BY <1>a, <1>6 DEF WorkerProcesses, CalledInv, Present
    <2>5. ImagesAreWhole'
      BY <1>a, <1>c, <1>6 DEF WorkerProcesses, ImagesAreWhole, Present
    <2> QED
      BY <2>2, <2>3, <2>4, <2>5 DEF OlderIInv
  <1>7. ASSUME rst = "files", NEW w \in appending, WorkerAppends(w), UNCHANGED restorer
        PROVE  OlderIInv'
    <2>1. SourceInv' /\ TypeOK'
      BY <1>a, <1>b, <1>7, RestoreKeepsSource DEF WorkerAppends
    <2>2. raced' \in BOOLEAN
      BY <1>a, <1>7 DEF WorkerAppends, OlderTypeOK
    <2>3. rst' \in {"files", "crashed"} /\ list' \subseteq Entry
      BY <1>a, <1>7 DEF WorkerAppends, OlderTypeOK
    <2>4. RestoreInv'
      BY <1>a, <1>7, <2>1, <2>2, <2>3 DEF WorkerAppends, RestoreInv, OlderTypeOK
    <2>5. CalledInv' /\ ImagesAreWhole'
      BY <1>a, <1>7, <2>3 DEF WorkerAppends, CalledInv, ImagesAreWhole, Present
    <2> QED
      BY <2>1, <2>4, <2>5 DEF OlderIInv
  <1>8. CASE UNCHANGED allVars
    <2>1. SourceInv' /\ TypeOK'
      BY <1>a, <1>b, <1>8, RestoreKeepsSource DEF allVars
    <2>2. RestoreInv'
      BY <1>a, <1>8, <2>1 DEF allVars, RestoreInv, OlderTypeOK
    <2>3. CalledInv' /\ ImagesAreWhole'
      BY <1>a, <1>8 DEF allVars, CalledInv, ImagesAreWhole, Present
    <2> QED
      BY <2>1, <2>2, <2>3 DEF OlderIInv
  <1> QED
    BY <1>1, <1>2, <1>3, <1>4, <1>5, <1>6, <1>7, <1>8 DEF OlderNext, Restorer

(* The inductive invariant holds at the start, whatever is in the folder. *)
LEMMA OlderInitIInv == OlderInit => OlderIInv
  <1> SUFFICES ASSUME OlderInit PROVE OlderIInv
    OBVIOUS
  <1>1. TypeOK
    BY InitTypeOK DEF OlderInit
  <1>2. \A f \in dir : f[2] = 0
    BY DEF OlderInit, Init
  <1>a. SequentialInv /\ UploadsAwaitedInv
    BY <1>1 DEF OlderInit, Init, SequentialInv, SharedInv, AwaitedInv,
       UploadsAwaitedInv
  <1>b. boot = 1 /\ kubelet = {} /\ Pending \cup Arrived = {}
    BY DEF OlderInit, Init, Pending
  <1>c. OriginsInv
    BY <1>2, <1>b DEF OriginsInv
  <1>d. MarkerInv
    BY <1>2, <1>b DEF MarkerInv
  <1>3. SourceInv
    BY <1>a, <1>c, <1>d DEF SourceInv
  <1>4. RestoreInv
    BY <1>1 DEF OlderInit, RestoreInv, OlderTypeOK
  <1>5. CalledInv /\ ImagesAreWhole
    BY DEF OlderInit, CalledInv, ImagesAreWhole
  <1> QED
    BY <1>3, <1>4, <1>5 DEF OlderIInv

(* The inductive invariant holds in every behaviour of the two clusters. *)
THEOREM OlderSafety == OlderSpec => []OlderIInv
  BY OlderInitIInv, OlderNextIInv, PTL DEF OlderSpec

(* Type correctness of both clusters. *)
THEOREM OlderTypeCorrect == OlderSpec => []OlderTypeOK
  <1>1. OlderIInv => OlderTypeOK
    BY DEF OlderIInv, RestoreInv
  <1> QED
    BY <1>1, OlderSafety, PTL

(* The older restores make an image of an archive that is not complete only *)
(* if its upload failed or was given up, unless an old marker called them.  *)
THEOREM OlderImagesWhole == OlderSpec => []ImagesAreWhole
  <1>1. OlderIInv => ImagesAreWhole
    BY DEF OlderIInv
  <1> QED
    BY <1>1, OlderSafety, PTL

(* Also in the sequential migration the pod is asked to terminate only when *)
(* the kubelet has answered every request that was not given up.            *)
THEOREM OlderDeleteAfterCheckpoints == OlderSpec => DeleteWaitsForCheckpoints
  <1> DEFINE Answered == \A f \in kubelet : f[2] = boot => f \in lost
  <1>1. ASSUME OlderIInv, [OlderNext]_allVars, pod = "Running", pod' # "Running"
        PROVE  Answered
    <2>1. SharedNext \/ OwnNext
      BY <1>1, SourceSteps DEF OlderNext, RestoreCalled, Restorer, ReadFiles,
         CreateRestored, RestoreFile, WorkerProcesses, WorkerAppends, allVars
    <2>2. DeletePod
      BY <1>1, <2>1 DEF OwnNext, ClearPath, ClearFolderGoesOn, MkdirPath,
         ChownPath, ReadPath, MigratePodReturns, SharedNext, FileHandler, Cluster,
       PollFound, PollError, PrintContainerIDs, CheckpointsWaited, DeletePod,
       WatchPod, WatchPanics, WaitDeleted, WatchClosed, ServiceFound,
       ServicePanics, TouchDummy, DummyPosted, PodGone,
       ServiceAppears, Killed, CheckpointPost, CheckpointAnswered,
       CheckpointLost, UploadInfo, Post, PostAnswered, PostLost,
       HandlerRejects, HandlerCreates, HandlerCopies, KubeletWrites,
       KubeletRefuses, Die
    <2>3. main # "dead" /\ checkpointing = {}
      BY <1>1, <2>2 DEF DeletePod, OlderIInv, SourceInv, SequentialInv, SharedInv
    <2> QED
      BY <1>1, <2>3 DEF OlderIInv, SourceInv, SequentialInv, SharedInv, AwaitedInv
  <1>2. OlderIInv /\ [OlderNext]_allVars =>
            [pod = "Running" /\ pod' # "Running" => Answered]_vars
    BY <1>1
  <1> QED
    BY <1>2, OlderSafety, PTL DEF OlderSpec, DeleteWaitsForCheckpoints
-----------------------------------------------------------------------------
(* MigratePod's own steps undo no fault. *)
LEMMA OwnFaultStays ==
    ASSUME TypeOK, OwnNext, ~fault'
    PROVE  ~fault
  BY DEF TypeOK, OwnNext, ClearPath, ClearFolderGoesOn, RemoveAll, MkdirPath,
         MigrateReturnsWith, ChownPath, ReadPath, MigratePodReturns

(* They keep what a migration without a failed call relies on. *)
LEMMA OwnFaultless ==
    ASSUME SourceInv, FaultlessInv, OwnNext
    PROVE  FaultlessInv'
  <1> SUFFICES ASSUME ~fault'
               PROVE  /\ (main \notin {"stopped", "dead"} /\ lost = {})'
                      /\ PodInv' /\ CheckpointedInv' /\ ShippedInv'
    BY DEF FaultlessInv
  <1>0. /\ main \notin {"stopped", "dead"} /\ lost = {}
        /\ PodInv /\ CheckpointedInv /\ ShippedInv
    BY OwnFaultStays DEF SourceInv, SequentialInv, SharedInv, FaultlessInv
  <1> USE DEF SourceInv, SequentialInv, SharedInv, PodInv, CheckpointedInv,
              ShippedInv, OwnArchives, Pending, TypeOK
  <1>1. CASE ClearPath
    BY <1>0, <1>1 DEF ClearPath, ClearFolderGoesOn, RemoveAll
  <1>2. CASE MkdirPath
    BY <1>0, <1>2 DEF MkdirPath, MigrateReturnsWith
  <1>3. CASE ChownPath
    BY <1>0, <1>3 DEF ChownPath, MainStates
  <1>4. CASE ReadPath
    BY <1>0, <1>4 DEF ReadPath
  <1>5. CASE MigratePodReturns
    BY <1>0, <1>5 DEF MigratePodReturns
  <1> QED
    BY <1>1, <1>2, <1>3, <1>4, <1>5 DEF OwnNext

(* The shared steps ship only what is in the folder or the marker. *)
LEMMA SharedShipment ==
    ASSUME SourceInv, FaultlessInv, ShipmentInv, SharedNext
    PROVE  ShipmentInv'
  <1> DEFINE Shipped == OwnArchives \cup {Marker}
             Goal == /\ (stage1 \notin {"none", "clear"} => dir \subseteq Shipped)'
                     /\ (Pending \cup Arrived \subseteq Shipped)'
  <1> SUFFICES ASSUME ~fault' PROVE Goal
    BY DEF ShipmentInv
  <1>0. /\ stage1 \notin {"none", "clear"} => dir \subseteq Shipped
        /\ Pending \cup Arrived \subseteq Shipped
        /\ main \notin {"stopped", "dead"}
    BY FaultStays DEF SourceInv, SequentialInv, SharedInv, ShipmentInv, FaultlessInv
  <1> USE DEF SourceInv, SequentialInv, SharedInv, OriginsInv, OwnArchives, Pending
  <1>1. CASE PollFound
    BY <1>0, <1>1 DEF PollFound, TypeOK
  <1>2. CASE PollError
    BY <1>0, <1>2 DEF PollError, TypeOK
  <1>3. CASE PrintContainerIDs
    BY <1>0, <1>3 DEF PrintContainerIDs, TypeOK
  <1>4. CASE CheckpointsWaited
    BY <1>0, <1>4 DEF CheckpointsWaited, TypeOK
  <1>5. CASE DeletePod
    BY <1>0, <1>5 DEF DeletePod, TypeOK
  <1>6. CASE WatchPod
    BY <1>0, <1>6 DEF WatchPod, TypeOK
  <1>7. CASE WatchPanics
    BY <1>0, <1>7 DEF WatchPanics, Die, TypeOK
  <1>8. CASE WaitDeleted
    BY <1>0, <1>8 DEF WaitDeleted, TypeOK
  <1>9. CASE WatchClosed
    BY <1>0, <1>9 DEF WatchClosed, TypeOK
  <1>10. CASE ServiceFound
    BY <1>0, <1>10 DEF ServiceFound, TypeOK
  <1>11. CASE ServicePanics
    BY <1>0, <1>11 DEF ServicePanics, Die, TypeOK
  <1>12. CASE TouchDummy
    BY <1>0, <1>12 DEF TouchDummy, TypeOK
  <1>13. CASE DummyPosted
    BY <1>0, <1>13 DEF DummyPosted, TypeOK
  <1>14. CASE PodGone
    BY <1>0, <1>14 DEF PodGone, TypeOK
  <1>15. CASE ServiceAppears
    BY <1>0, <1>15 DEF ServiceAppears, TypeOK
  <1>16. CASE Killed
    BY <1>0, <1>16 DEF Killed, Die, TypeOK
  <1>17. ASSUME NEW c \in Containers, CheckpointPost(c) PROVE Goal
    BY <1>0, <1>17 DEF CheckpointPost, TypeOK
  <1>18. ASSUME NEW c \in Containers, CheckpointAnswered(c) PROVE Goal
    BY <1>0, <1>18 DEF CheckpointAnswered, TypeOK
  <1>19. ASSUME NEW c \in Containers, CheckpointLost(c) PROVE Goal
    BY <1>0, <1>19 DEF CheckpointLost, TypeOK
  <1>20. ASSUME NEW f \in toStat, UploadInfo(f) PROVE Goal
    BY <1>0, <1>20 DEF UploadInfo, TypeOK
  <1>21. ASSUME NEW f \in toPost, Post(f) PROVE Goal
    BY <1>0, <1>21 DEF Post, TypeOK
  <1>22. ASSUME NEW f \in posting, PostAnswered(f) PROVE Goal
    BY <1>0, <1>22 DEF PostAnswered, TypeOK
  <1>23. ASSUME NEW f \in posting, PostLost(f) PROVE Goal
    BY <1>0, <1>23 DEF PostLost, TypeOK
  <1>24. ASSUME NEW f \in received, HandlerRejects(f) PROVE Goal
    BY <1>0, <1>24 DEF HandlerRejects, TypeOK
  <1>25. ASSUME NEW f \in received, HandlerCreates(f) PROVE Goal
    BY <1>0, <1>25 DEF HandlerCreates, TypeOK
  <1>26. ASSUME NEW f \in copying, HandlerCopies(f) PROVE Goal
    BY <1>0, <1>26 DEF HandlerCopies, TypeOK
  <1>27. ASSUME NEW f \in kubelet, KubeletWrites(f) PROVE Goal
    <2>1. f \in OwnArchives
      BY <1>27 DEF KubeletWrites, TypeOK, Entry
    <2> QED
      BY <1>0, <1>27, <2>1 DEF KubeletWrites, TypeOK
  <1>28. ASSUME NEW f \in kubelet, KubeletRefuses(f) PROVE Goal
    BY <1>0, <1>28 DEF KubeletRefuses, TypeOK
  <1> QED
    BY <1>1, <1>2, <1>3, <1>4, <1>5, <1>6, <1>7, <1>8, <1>9, <1>10, <1>11,
       <1>12, <1>13, <1>14, <1>15, <1>16, <1>17, <1>18, <1>19, <1>20,
       <1>21, <1>22, <1>23, <1>24, <1>25, <1>26, <1>27, <1>28
       DEF SharedNext, FileHandler, Cluster

(* MigratePod's own steps clear the folder before it is filled. *)
LEMMA OwnShipment ==
    ASSUME SourceInv, ShipmentInv, OwnNext
    PROVE  ShipmentInv'
  <1> USE DEF SourceInv, SequentialInv, SharedInv, ShipmentInv, OwnArchives,
              Pending, TypeOK
  <1>1. CASE ClearPath
    BY <1>1 DEF ClearPath, ClearFolderGoesOn, RemoveAll
  <1>2. CASE MkdirPath
    BY <1>2 DEF MkdirPath, MigrateReturnsWith
  <1>3. CASE ChownPath
    <2>1. ~fault' => ~fault
      BY <1>3 DEF ChownPath
    <2> QED
      BY <1>3, <2>1 DEF ChownPath
  <1>4. CASE ReadPath
    BY <1>4 DEF ReadPath
  <1>5. CASE MigratePodReturns
    BY <1>5 DEF MigratePodReturns
  <1> QED
    BY <1>1, <1>2, <1>3, <1>4, <1>5 DEF OwnNext

(* No step of the two clusters undoes a fault. *)
LEMMA OlderFaultStays ==
    ASSUME TypeOK, [OlderNext]_allVars, ~fault'
    PROVE  ~fault
  <1>1. CASE SharedNext
    BY <1>1, FaultStays
  <1>2. CASE OwnNext
    BY <1>2, OwnFaultStays
  <1>3. CASE RestoreCalled \/ Restorer \/ UNCHANGED allVars
    BY <1>3 DEF TypeOK, RestoreCalled, Restorer, ReadFiles, CreateRestored,
       RestoreFile, WorkerProcesses, WorkerAppends, allVars
  <1> QED
    BY <1>1, <1>2, <1>3, SourceSteps DEF OlderNext

(* Without a failed call the restore is called when everything is stored.   *)
LEMMA StoredWhenCalled ==
    ASSUME OlderIInv, OlderFaultlessInv, ~fault, rst # "idle"
    PROVE  /\ OwnArchives \subseteq stored /\ Marker \in Present
           /\ stage2 # "none" /\ pod = "Gone"
  <1>1. Present \subseteq OwnArchives \cup {Marker}
    BY DEF OlderFaultlessInv, ShipmentInv, Present
  <1>2. <<Dummy, 0>> \notin Present
    BY <1>1 DEF OwnArchives, OlderIInv, SourceInv, SequentialInv
  <1>3. Marker \in Present
    BY <1>2 DEF OlderIInv, CalledInv
  <1>4. stage2 \in {"mark", "send", "done"}
    BY <1>3 DEF OlderIInv, SourceInv, MarkerInv, Present, OlderFaultlessInv,
       FaultlessInv
  <1>5. pod = "Gone"
    BY <1>4 DEF OlderIInv, SourceInv, SequentialInv, OlderFaultlessInv,
                FaultlessInv, PodInv
  <1> QED
    BY <1>3, <1>4, <1>5 DEF OlderFaultlessInv, FaultlessInv, ShippedInv

(* The restores change nothing of what the source has shipped. *)
LEMMA RestoreKeepsShipment ==
    ASSUME FaultlessInv, ShipmentInv, UNCHANGED srcVars, ~fault' => ~fault
    PROVE  FaultlessInv' /\ ShipmentInv'
  BY DEF FaultlessInv, ShipmentInv, PodInv, CheckpointedInv, ShippedInv,
         OwnArchives, Pending

(* Every step keeps what the restore has of a migration without a failed    *)
(* call: it works on whole archives of the pod, and loses none as long as   *)
(* no append has overwritten another.                                       *)
LEMMA NextRestored ==
    ASSUME OlderIInv, OlderFaultlessInv, [OlderNext]_allVars
    PROVE  RestoredInv'
  <1> DEFINE Named == \A w \in appending :
                 /\ w[2] \subseteq OwnArchives \cap images
                 /\ \/ w[1] = Marker /\ w[3] = {}
                    \/ w[1] \in OwnArchives \cap images /\ w[3] = {w[1]}
             Whole == /\ toRestore \subseteq OwnArchives \cup {Marker}
                      /\ list \subseteq OwnArchives \cap images
                      /\ unwhole = {}
                      /\ restorer = Sequential /\ list # {} => podName = "pod"
             NoneLost == rst = "files" /\ ~raced =>
                 OwnArchives \subseteq toRestore \cup list \cup {w[1] : w \in appending}
             Created == /\ rst = "returned" => copy = list /\ list # {}
                        /\ rst = "returned" /\ ~raced => OwnArchives \subseteq list
  <1> SUFFICES ASSUME ~fault'
               PROVE  Whole' /\ Named' /\ NoneLost' /\ Created'
    BY DEF RestoredInv
  <1>a. ~fault
    BY OlderFaultStays DEF OlderIInv, RestoreInv, OlderTypeOK
  <1>b. Whole /\ Named /\ NoneLost /\ Created
    BY <1>a DEF OlderFaultlessInv, RestoredInv
  <1>c. boot = 1 /\ RestoreInv /\ raced \in BOOLEAN
    BY DEF OlderIInv, SourceInv, SequentialInv, RestoreInv, OlderTypeOK
  <1>d. rst # "idle" =>
            OwnArchives \subseteq stored /\ Present = OwnArchives \cup {Marker}
    BY <1>a, StoredWhenCalled DEF OlderFaultlessInv, ShipmentInv, Present
  <1>e. \A f \in OwnArchives : f[1] # Dummy
    BY DEF OwnArchives
  <1>1. CASE Source /\ UNCHANGED restorer
    <2>1. UNCHANGED <<boot, restorer, rstVars>>
      BY <1>1, SourceSteps, SourceGrows
    <2> QED
      BY <1>b, <2>1 DEF OwnArchives
  <1>2. CASE RestoreCalled /\ UNCHANGED restorer
    BY <1>b, <1>2 DEF RestoreCalled, OwnArchives
  <1>3. CASE ReadFiles /\ UNCHANGED restorer
    <2>1. /\ rst = "list" /\ rst' = "files"
          /\ toRestore' = IF restorer = Parallel THEN Present
                          ELSE {f \in Present : f[1] # Dummy}
      BY <1>3 DEF ReadFiles
    <2>2. OwnArchives \subseteq toRestore'
      BY <1>d, <1>e, <2>1
    <2>3. toRestore' \subseteq OwnArchives \cup {Marker}
      BY <1>d, <2>1
    <2> QED
      BY <1>b, <1>3, <2>1, <2>2, <2>3 DEF ReadFiles, OwnArchives
  <1>4. CASE CreateRestored /\ UNCHANGED restorer
    BY <1>b, <1>4 DEF CreateRestored, FilesDone, OwnArchives
  <1>5. ASSUME NEW f \in toRestore, RestoreFile(f), UNCHANGED restorer
        PROVE  Whole' /\ Named' /\ NoneLost' /\ Created'
    <2>1. f \in OwnArchives /\ f \in stored
      BY <1>b, <1>c, <1>d, <1>5 DEF RestoreInv, RestoreFile
    <2>2. /\ rst = "files" /\ rst' = rst /\ toRestore' = toRestore \ {f}
          /\ list' = list \cup {f} /\ podName' = "pod" /\ Commit(f)
      BY <1>5 DEF RestoreFile
    <2> QED
      BY <1>b, <1>5, <2>1, <2>2 DEF RestoreFile, Commit, OwnArchives
  <1>6. ASSUME NEW f \in toRestore, WorkerProcesses(f), UNCHANGED restorer
        PROVE  Whole' /\ Named' /\ NoneLost' /\ Created'
    <2> DEFINE worker == <<f, list, IF f[1] = Dummy THEN {} ELSE {f}>>
    <2>1. /\ rst = "files" /\ rst' = rst /\ toRestore' = toRestore \ {f}
          /\ appending' = appending \cup {worker}
          /\ f[1] = Dummy => UNCHANGED <<images, unwhole>>
          /\ f[1] # Dummy => Commit(f)
      BY <1>6 DEF WorkerProcesses
    <2>2. \/ f = Marker /\ f[1] = Dummy
          \/ f \in OwnArchives /\ f[1] # Dummy /\ f \in stored
      BY <1>b, <1>d, <1>e, <2>1
    <2>3. images \subseteq images' /\ (f[1] # Dummy => f \in images') /\ unwhole' = unwhole
      BY <2>1, <2>2 DEF Commit
    <2>4. worker[1] = f /\ worker[2] = list /\ worker[3] = IF f[1] = Dummy THEN {} ELSE {f}
      OBVIOUS
    <2> HIDE DEF worker
    <2>5. UNCHANGED <<boot, restorer, list, copy, raced>> /\ restorer = Parallel
      BY <1>6 DEF WorkerProcesses
    <2>6. Whole'
      BY <1>b, <2>1, <2>3, <2>5 DEF OwnArchives, Sequential, Parallel
    <2>7. Named'
      BY <1>b, <2>1, <2>2, <2>3, <2>4, <2>5 DEF OwnArchives
    <2>8. NoneLost'
      BY <1>b, <2>1, <2>4, <2>5 DEF OwnArchives
    <2>9. Created'
      BY <2>1
    <2> QED
      BY <2>6, <2>7, <2>8, <2>9
  <1>7. ASSUME rst = "files", NEW w \in appending, WorkerAppends(w), UNCHANGED restorer
        PROVE  Whole' /\ Named' /\ NoneLost' /\ Created'
    <2>1. /\ appending' = appending \ {w} /\ list' = w[2] \cup w[3]
          /\ UNCHANGED <<boot, restorer, toRestore, podName, images, unwhole, copy>>
      BY <1>7 DEF WorkerAppends
    <2>2. ~raced' => ~raced /\ list = w[2]
      BY <1>c, <1>7 DEF WorkerAppends
    <2>3. rst' \in {"files", "crashed"}
      BY <1>7 DEF WorkerAppends
    <2>4. restorer # Sequential
      BY <1>c, <1>7 DEF RestoreInv
    <2>5. list' \subseteq OwnArchives \cap images
      BY <1>b, <1>7, <2>1
    <2>6. ASSUME ~raced'
          PROVE  OwnArchives \subseteq toRestore \cup list' \cup {v[1] : v \in appending'}
      <3>1. OwnArchives \subseteq toRestore \cup list \cup {v[1] : v \in appending}
        BY <1>b, <1>7, <2>2, <2>6
      <3>2. \A v \in appending : v = w \/ v \in appending'
        BY <2>1
      <3>3. w[1] \in OwnArchives => w[1] \in list'
        BY <1>b, <1>e, <1>7, <2>1
      <3> QED
        BY <2>1, <2>2, <2>6, <3>1, <3>2, <3>3
    <2>7. Whole' /\ Named'
      BY <1>b, <2>1, <2>4, <2>5 DEF OwnArchives
    <2>8. NoneLost' /\ Created'
      BY <2>1, <2>3, <2>6 DEF OwnArchives
    <2> QED
      BY <2>7, <2>8
  <1>8. CASE UNCHANGED allVars
    BY <1>b, <1>8 DEF allVars, OwnArchives
  <1> QED
    BY <1>1, <1>2, <1>3, <1>4, <1>5, <1>6, <1>7, <1>8 DEF OlderNext, Restorer

(* Every step of the two clusters keeps the invariant of a migration        *)
(* without a failed call.                                                   *)
LEMMA OlderNextFaultless ==
    ASSUME OlderIInv, OlderFaultlessInv, [OlderNext]_allVars
    PROVE  OlderFaultlessInv'
  <1>1. CASE SharedNext
    BY <1>1, SharedFaultless, SharedShipment, NextRestored
       DEF OlderIInv, SourceInv, SequentialInv, OlderFaultlessInv
  <1>2. CASE OwnNext
    BY <1>2, OwnFaultless, OwnShipment, NextRestored DEF OlderIInv,
       OlderFaultlessInv
  <1>3. CASE RestoreCalled \/ Restorer \/ UNCHANGED allVars
    <2>1. UNCHANGED srcVars
      BY <1>3 DEF RestoreCalled, Restorer, ReadFiles, CreateRestored, RestoreFile,
         WorkerProcesses, WorkerAppends, allVars
    <2>2. ~fault' => ~fault
      BY OlderFaultStays DEF OlderIInv, RestoreInv, OlderTypeOK
    <2> QED
      BY <2>1, <2>2, RestoreKeepsShipment, NextRestored DEF OlderFaultlessInv
  <1> QED
    BY <1>1, <1>2, <1>3, SourceSteps DEF OlderNext

(* That invariant holds in every behaviour. *)
THEOREM OlderFaultlessSafety == OlderSpec => [](OlderIInv /\ OlderFaultlessInv)
  <1>1. OlderInit => OlderFaultlessInv
    BY DEF OlderInit, Init, OlderFaultlessInv, FaultlessInv, PodInv,
       CheckpointedInv, ShippedInv, ShipmentInv, RestoredInv, Pending
  <1>2. OlderIInv /\ OlderFaultlessInv /\ [OlderNext]_allVars => OlderFaultlessInv'
    BY OlderNextFaultless
  <1> QED
    BY <1>1, <1>2, OlderSafety, PTL DEF OlderSpec

(* The pod is never on both clusters: MigratePod uploads only when the      *)
(* source pod is gone, and a restore needs the marker.                      *)
THEOREM OlderNeverTwoPods == OlderSpec => []NeverTwoPods
  <1>1. OlderIInv /\ OlderFaultlessInv => NeverTwoPods
    <2>1. ASSUME OlderIInv, copy # {} PROVE rst = "returned"
      BY <2>1 DEF OlderIInv, RestoreInv
    <2> QED
      BY <2>1, StoredWhenCalled DEF NeverTwoPods
  <1> QED
    BY <1>1, OlderFaultlessSafety, PTL

(* From pod to pod: without a failed call and without a lost append, a      *)
(* restore that has returned has created the pod with all its containers,   *)
(* from whole archives.                                                     *)
THEOREM OlderMigrationRestores == OlderSpec => []FaultlessMigrationRestores
  <1>1. OlderIInv /\ OlderFaultlessInv => FaultlessMigrationRestores
    BY DEF OlderFaultlessInv, RestoredInv, FaultlessMigrationRestores, OwnArchives
  <1> QED
    BY <1>1, OlderFaultlessSafety, PTL
=============================================================================
