----------------------- MODULE MigratePipelineProofs -----------------------
(***************************************************************************)
(* Proofs about MigratePipeline, for any set of containers and any number  *)
(* of restarts.                                                            *)
(***************************************************************************)
EXTENDS MigratePipeline, TLAPS

Pending == toStat \cup toPost \cup posting

(* The folder was cleared in this boot and holds only archives since. *)
Cleaned == \/ stage1 \in {"mkdir", "checkpoint", "chown", "send"}
           \/ stage2 \in {"readdir", "service", "upload"}

(* How far the goroutines are from each other. *)
StagesInv ==
    /\ main \in {"poll", "list", "stopped", "dead"} =>
           stage1 = "none" /\ stage2 = "none" /\ closer = "none"
    /\ main \in {"delete", "watch", "wait", "cleanup", "removing", "done"} =>
           stage1 = "done"
    /\ main = "range" => closer = "none"
    /\ stage2 # "none" => stage1 = "done"
    /\ closer = "closed" => stage2 \in {"none", "done"}
    /\ main = "removing" => stage2 = "done"
    /\ main = "done" => closer = "closed"
    /\ checkpointing # {} => stage1 = "checkpoint"

(* Which uploads a stage 2 in a given state can have. *)
UploadsInv ==
    /\ toStat # {} => stage2 \in {"service", "upload"}
    /\ toPost \cup posting # {} => stage2 \in {"upload", "mark"}
    /\ stage2 \in {"service", "upload"} => \A f \in Pending : f[1] # Dummy
    /\ stage2 = "mark" => toPost \cup posting \subseteq {Marker}

(* Boots of the files and requests that are around. *)
BootsInv ==
    /\ \A f \in kubelet \cup Pending \cup Arrived : f[2] # 0 /\ f[2] <= boot
    /\ \A f \in kubelet : f[1] # Dummy
    /\ Cleaned => \A f \in dir : f[1] # Dummy /\ f[2] # 0 /\ f[2] <= boot

(* A request of this boot that the kubelet or the file handler holds is     *)
(* awaited, or its sender has given up.                                     *)
AwaitedInv ==
    main # "dead" =>
        /\ \A f \in kubelet : f[2] = boot => f \in lost \/ f[1] \in checkpointing
        /\ \A f \in InFlight : f[2] = boot => f \in lost \/ f \in posting

(* A boot whose marker has arrived is sealed. *)
SealedInv ==
    \A m \in Arrived : m[1] = Dummy =>
        /\ m[2] = boot /\ main # "dead" => stage2 \in {"mark", "send", "done"}
        /\ \A f \in kubelet \cup Pending \cup InFlight :
               f[1] # Dummy /\ f[2] = m[2] => f \in lost
        /\ m[2] # boot /\ Cleaned => \A f \in dir : f[2] = m[2] => f \in lost

(* The inductive invariant. *)
IInv ==
    /\ TypeOK
    /\ StagesInv
    /\ UploadsInv
    /\ BootsInv
    /\ UploadsFindFiles
    /\ AwaitedInv
    /\ SealedInv
-----------------------------------------------------------------------------
USE ConstantsAssumption
USE DEF vars, mainVars, ckVars, reqVars, upVars, postVars, fsVars, extVars,
        kletVars, apiVars, destVars, Marker, Archive, InFlight, Arrived

(* The marker and the archives of the current boot are files. *)
LEMMA EntryOfBoot ==
    ASSUME boot \in Nat
    PROVE  Marker \in Entry /\ \A c \in Containers : Archive(c) \in Entry
  BY DEF Entry, Names

(* Every step keeps the types.  What a step may or may not do to a set of   *)
(* files and what it does to a flag are separate steps of the proof.        *)
LEMMA NextTypeOK == TypeOK /\ [Next]_vars => TypeOK'
  <1> SUFFICES ASSUME TypeOK, [Next]_vars PROVE TypeOK'
    OBVIOUS
  <1> USE DEF TypeOK, MainStates, Stage1States, Stage2States
  <1>1. CASE PollFound
    BY <1>1 DEF PollFound
  <1>2. CASE PollError
    BY <1>2 DEF PollError
  <1>3. CASE PrintContainerIDs
    <2>1. toCheckpoint' \subseteq Containers
      BY <1>3 DEF PrintContainerIDs
    <2>2. fault' \in BOOLEAN
      BY <1>3 DEF PrintContainerIDs
    <2> QED
      BY <1>3, <2>1, <2>2 DEF PrintContainerIDs
  <1>4. CASE ClearFolder
    <2>1. stage1' \in Stage1States /\ dir' \subseteq Entry
      BY <1>4 DEF ClearFolder, RemoveAll
    <2>2. exists' \in BOOLEAN
      BY <1>4 DEF ClearFolder, RemoveAll
    <2>3. fault' \in BOOLEAN
      BY <1>4 DEF ClearFolder, RemoveAll
    <2> QED
      BY <1>4, <2>1, <2>2, <2>3 DEF ClearFolder, RemoveAll
  <1>5. CASE MkdirAll
    <2>1. stage1' \in Stage1States
      BY <1>5 DEF MkdirAll
    <2>2. exists' \in BOOLEAN
      BY <1>5 DEF MkdirAll
    <2>3. fault' \in BOOLEAN
      BY <1>5 DEF MkdirAll
    <2> QED
      BY <1>5, <2>1, <2>2, <2>3 DEF MkdirAll
  <1>6. CASE CheckpointsWaited
    BY <1>6 DEF CheckpointsWaited
  <1>7. CASE Chown
    <2>1. stage1' \in Stage1States
      BY <1>7 DEF Chown
    <2>2. fault' \in BOOLEAN
      BY <1>7 DEF Chown
    <2> QED
      BY <1>7, <2>1, <2>2 DEF Chown
  <1>8. CASE SendCheckpoints
    BY <1>8 DEF SendCheckpoints
  <1>9. CASE RangeEnds
    BY <1>9 DEF RangeEnds
  <1>10. CASE ReadDir
    <2>1. stage2' \in Stage2States /\ toStat' \subseteq Entry
      BY <1>10 DEF ReadDir
    <2>2. fault' \in BOOLEAN
      BY <1>10 DEF ReadDir
    <2> QED
      BY <1>10, <2>1, <2>2 DEF ReadDir
  <1>11. CASE ServiceFound
    BY <1>11 DEF ServiceFound
  <1>12. CASE TouchDummy
    <2>1. dir' \subseteq Entry /\ toPost' \subseteq Entry
      BY <1>12, EntryOfBoot DEF TouchDummy
    <2>2. fault' \in BOOLEAN
      BY <1>12 DEF TouchDummy
    <2> QED
      BY <1>12, <2>1, <2>2 DEF TouchDummy
  <1>13. CASE DummyPosted
    BY <1>13 DEF DummyPosted
  <1>14. CASE DeletePod
    <2>1. pod' \in {"Running", "Terminating", "Gone"}
      BY <1>14 DEF DeletePod
    <2>2. fault' \in BOOLEAN
      BY <1>14 DEF DeletePod
    <2> QED
      BY <1>14, <2>1, <2>2 DEF DeletePod
  <1>15. CASE WatchPod
    <2>1. deleted' \in BOOLEAN
      BY <1>15 DEF WatchPod
    <2> QED
      BY <1>15, <2>1 DEF WatchPod
  <1>16. CASE WaitDeleted
    <2>1. deleted' \in BOOLEAN
      BY <1>16 DEF WaitDeleted
    <2> QED
      BY <1>16, <2>1 DEF WaitDeleted
  <1>17. CASE WatchClosed
    BY <1>17 DEF WatchClosed
  <1>18. CASE ReceiveMigrated
    BY <1>18 DEF ReceiveMigrated
  <1>19. CASE RemoveMigrated
    <2>1. dir' \subseteq Entry
      BY <1>19 DEF RemoveMigrated, RemoveAll
    <2>2. exists' \in BOOLEAN
      BY <1>19 DEF RemoveMigrated, RemoveAll
    <2>3. fault' \in BOOLEAN
      BY <1>19 DEF RemoveMigrated, RemoveAll
    <2> QED
      BY <1>19, <2>1, <2>2, <2>3 DEF RemoveMigrated, RemoveAll
  <1>20. CASE CloseMigrated
    BY <1>20 DEF CloseMigrated
  <1>21. CASE MigrateReturns
    BY <1>21 DEF MigrateReturns
  <1>22. CASE ServicePanics
    BY <1>22 DEF ServicePanics, Die
  <1>23. CASE WatchPanics
    BY <1>23 DEF WatchPanics, Die
  <1>24. CASE Killed
    BY <1>24 DEF Killed, Die
  <1>25. CASE Restart
    BY <1>25 DEF Restart
  <1>26. CASE PodGone
    BY <1>26 DEF PodGone
  <1>27. CASE ServiceAppears
    BY <1>27 DEF ServiceAppears
  <1>28. ASSUME NEW c \in Containers, CheckpointPost(c) PROVE TypeOK'
    <2>1. checkpointing' \subseteq Containers /\ kubelet' \subseteq Entry
      BY <1>28, EntryOfBoot DEF CheckpointPost
    <2>2. fault' \in BOOLEAN
      BY <1>28 DEF CheckpointPost
    <2> QED
      BY <1>28, <2>1, <2>2 DEF CheckpointPost
  <1>29. ASSUME NEW c \in Containers, CheckpointAnswered(c) PROVE TypeOK'
    BY <1>29 DEF CheckpointAnswered
  <1>30. ASSUME NEW c \in Containers, CheckpointLost(c) PROVE TypeOK'
    BY <1>30 DEF CheckpointLost
  <1>31. ASSUME NEW f \in toStat, UploadInfo(f) PROVE TypeOK'
    <2>1. toPost' \subseteq Entry
      BY <1>31 DEF UploadInfo
    <2>2. fault' \in BOOLEAN
      BY <1>31 DEF UploadInfo
    <2> QED
      BY <1>31, <2>1, <2>2 DEF UploadInfo
  <1>32. ASSUME NEW f \in toPost, Post(f) PROVE TypeOK'
    <2>1. posting' \subseteq Entry /\ received' \subseteq Entry
      BY <1>32 DEF Post
    <2>2. fault' \in BOOLEAN
      BY <1>32 DEF Post
    <2> QED
      BY <1>32, <2>1, <2>2 DEF Post
  <1>33. ASSUME NEW f \in posting, PostAnswered(f) PROVE TypeOK'
    BY <1>33 DEF PostAnswered
  <1>34. ASSUME NEW f \in posting, PostLost(f) PROVE TypeOK'
    BY <1>34 DEF PostLost
  <1>35. ASSUME NEW f \in received, HandlerRejects(f) PROVE TypeOK'
    BY <1>35 DEF HandlerRejects
  <1>36. ASSUME NEW f \in received, HandlerCreates(f) PROVE TypeOK'
    BY <1>36 DEF HandlerCreates
  <1>37. ASSUME NEW f \in copying, HandlerCopies(f) PROVE TypeOK'
    <2>1. stored' \subseteq Entry /\ partial' \subseteq Entry
      BY <1>37 DEF HandlerCopies
    <2>2. fault' \in BOOLEAN
      BY <1>37 DEF HandlerCopies
    <2> QED
      BY <1>37, <2>1, <2>2 DEF HandlerCopies
  <1>38. ASSUME NEW f \in kubelet, KubeletWrites(f) PROVE TypeOK'
    BY <1>38 DEF KubeletWrites
  <1>39. ASSUME NEW f \in kubelet, KubeletRefuses(f) PROVE TypeOK'
    BY <1>39 DEF KubeletRefuses
  <1>40. CASE UNCHANGED vars
    BY <1>40
  <1> QED
    BY <1>1, <1>2, <1>3, <1>4, <1>5, <1>6, <1>7, <1>8, <1>9, <1>10,
       <1>11, <1>12, <1>13, <1>14, <1>15, <1>16, <1>17, <1>18, <1>19, <1>20,
       <1>21, <1>22, <1>23, <1>24, <1>25, <1>26, <1>27, <1>28, <1>29, <1>30,
       <1>31, <1>32, <1>33, <1>34, <1>35, <1>36, <1>37, <1>38, <1>39, <1>40
       DEF Next, Operator, FileHandler, Cluster

(* The types hold when the operator first starts. *)
LEMMA InitTypeOK == Init => TypeOK
  <1> SUFFICES ASSUME Init PROVE TypeOK
    OBVIOUS
  <1>1. dir \subseteq Entry
    BY DEF Init, Entry, Names
  <1>2. /\ exists \in BOOLEAN /\ deleted \in BOOLEAN
        /\ svc \in BOOLEAN /\ fault \in BOOLEAN
    BY DEF Init
  <1>3. boot \in Nat \ {0} /\ pod \in {"Running", "Terminating", "Gone"}
    BY DEF Init
  <1> QED
    BY <1>1, <1>2, <1>3
       DEF Init, TypeOK, MainStates, Stage1States, Stage2States

(* Type correctness: whatever the goroutines, the kubelet, the API server   *)
(* and the file handler do, and however often the operator dies.            *)
THEOREM TypeCorrect == Spec => []TypeOK
  <1>1. ASSUME Init PROVE TypeOK
    BY <1>1, InitTypeOK
  <1> QED
    BY <1>1, NextTypeOK, PTL DEF Spec
-----------------------------------------------------------------------------
(* Every step keeps the inductive invariant. *)
LEMMA NextIInv == IInv /\ [Next]_vars => IInv'
  <1> SUFFICES ASSUME IInv, [Next]_vars PROVE IInv'
    OBVIOUS
  <1>0. TypeOK'
    BY NextTypeOK DEF IInv
  <1> USE DEF IInv, StagesInv, UploadsInv, BootsInv, UploadsFindFiles,
              AwaitedInv, SealedInv, Pending, Cleaned
  <1>1. CASE PollFound
    BY <1>0, <1>1 DEF PollFound, TypeOK
  <1>2. CASE PollError
    BY <1>0, <1>2 DEF PollError, TypeOK
  <1>3. CASE PrintContainerIDs
    BY <1>0, <1>3 DEF PrintContainerIDs, TypeOK
  <1>4. CASE ClearFolder
    BY <1>0, <1>4 DEF ClearFolder, RemoveAll, TypeOK
  <1>5. CASE MkdirAll
    BY <1>0, <1>5 DEF MkdirAll, TypeOK
  <1>6. CASE CheckpointsWaited
    BY <1>0, <1>6 DEF CheckpointsWaited, TypeOK
  <1>7. CASE Chown
    BY <1>0, <1>7 DEF Chown, TypeOK
  <1>8. CASE SendCheckpoints
    BY <1>0, <1>8 DEF SendCheckpoints, TypeOK
  <1>9. CASE RangeEnds
    BY <1>0, <1>9 DEF RangeEnds, TypeOK
  <1>10. CASE ReadDir
    BY <1>0, <1>10 DEF ReadDir, TypeOK
  <1>11. CASE ServiceFound
    BY <1>0, <1>11 DEF ServiceFound, TypeOK
  <1>12. CASE TouchDummy
    BY <1>0, <1>12 DEF TouchDummy, TypeOK
  <1>13. CASE DummyPosted
    BY <1>0, <1>13 DEF DummyPosted, TypeOK
  <1>14. CASE DeletePod
    BY <1>0, <1>14 DEF DeletePod, TypeOK
  <1>15. CASE WatchPod
    BY <1>0, <1>15 DEF WatchPod, TypeOK
  <1>16. CASE WaitDeleted
    BY <1>0, <1>16 DEF WaitDeleted, TypeOK
  <1>17. CASE WatchClosed
    BY <1>0, <1>17 DEF WatchClosed, TypeOK
  <1>18. CASE ReceiveMigrated
    BY <1>0, <1>18 DEF ReceiveMigrated, TypeOK
  <1>19. CASE RemoveMigrated
    BY <1>0, <1>19 DEF RemoveMigrated, RemoveAll, TypeOK
  <1>20. CASE CloseMigrated
    BY <1>0, <1>20 DEF CloseMigrated, TypeOK
  <1>21. CASE MigrateReturns
    BY <1>0, <1>21 DEF MigrateReturns, TypeOK
  <1>22. CASE ServicePanics
    BY <1>0, <1>22 DEF ServicePanics, Die, TypeOK
  <1>23. CASE WatchPanics
    BY <1>0, <1>23 DEF WatchPanics, Die, TypeOK
  <1>24. CASE Killed
    BY <1>0, <1>24 DEF Killed, Die, TypeOK
  <1>25. CASE Restart
    <2>1. StagesInv'
      BY <1>0, <1>25 DEF Restart, TypeOK
    <2>2. UploadsInv'
      BY <1>0, <1>25 DEF Restart, TypeOK
    <2>3. BootsInv'
      BY <1>0, <1>25 DEF Restart, TypeOK, Entry
    <2>4. UploadsFindFiles'
      BY <1>0, <1>25 DEF Restart, TypeOK
    <2>5. AwaitedInv'
      BY <1>0, <1>25 DEF Restart, TypeOK
    <2>6. SealedInv'
      BY <1>0, <1>25 DEF Restart, TypeOK
    <2> QED
      BY <1>0, <2>1, <2>2, <2>3, <2>4, <2>5, <2>6
  <1>26. CASE PodGone
    BY <1>0, <1>26 DEF PodGone, TypeOK
  <1>27. CASE ServiceAppears
    BY <1>0, <1>27 DEF ServiceAppears, TypeOK
  <1>28. ASSUME NEW c \in Containers, CheckpointPost(c) PROVE IInv'
    BY <1>0, <1>28 DEF CheckpointPost, TypeOK
  <1>29. ASSUME NEW c \in Containers, CheckpointAnswered(c) PROVE IInv'
    <2>1. StagesInv'
      BY <1>0, <1>29 DEF CheckpointAnswered, TypeOK
    <2>2. UploadsInv'
      BY <1>0, <1>29 DEF CheckpointAnswered, TypeOK
    <2>3. BootsInv'
      BY <1>0, <1>29 DEF CheckpointAnswered, TypeOK
    <2>4. UploadsFindFiles'
      BY <1>0, <1>29 DEF CheckpointAnswered, TypeOK
    <2>5. AwaitedInv'
      BY <1>0, <1>29 DEF CheckpointAnswered, TypeOK, Entry, Names
    <2>6. SealedInv'
      BY <1>0, <1>29 DEF CheckpointAnswered, TypeOK
    <2> QED
      BY <1>0, <2>1, <2>2, <2>3, <2>4, <2>5, <2>6
  <1>30. ASSUME NEW c \in Containers, CheckpointLost(c) PROVE IInv'
    <2>1. StagesInv'
      BY <1>0, <1>30 DEF CheckpointLost, TypeOK
    <2>2. UploadsInv'
      BY <1>0, <1>30 DEF CheckpointLost, TypeOK
    <2>3. BootsInv'
      BY <1>0, <1>30 DEF CheckpointLost, TypeOK
    <2>4. UploadsFindFiles'
      BY <1>0, <1>30 DEF CheckpointLost, TypeOK
    <2>5. AwaitedInv'
      BY <1>0, <1>30 DEF CheckpointLost, TypeOK, Entry, Names
    <2>6. SealedInv'
      BY <1>0, <1>30 DEF CheckpointLost, TypeOK
    <2> QED
      BY <1>0, <2>1, <2>2, <2>3, <2>4, <2>5, <2>6
  <1>31. ASSUME NEW f \in toStat, UploadInfo(f) PROVE IInv'
    BY <1>0, <1>31 DEF UploadInfo, TypeOK
  <1>32. ASSUME NEW f \in toPost, Post(f) PROVE IInv'
    BY <1>0, <1>32 DEF Post, TypeOK
  <1>33. ASSUME NEW f \in posting, PostAnswered(f) PROVE IInv'
    BY <1>0, <1>33 DEF PostAnswered, TypeOK
  <1>34. ASSUME NEW f \in posting, PostLost(f) PROVE IInv'
    BY <1>0, <1>34 DEF PostLost, TypeOK
  <1>35. ASSUME NEW f \in received, HandlerRejects(f) PROVE IInv'
    BY <1>0, <1>35 DEF HandlerRejects, TypeOK
  <1>36. ASSUME NEW f \in received, HandlerCreates(f) PROVE IInv'
    BY <1>0, <1>36 DEF HandlerCreates, TypeOK
  <1>37. ASSUME NEW f \in copying, HandlerCopies(f) PROVE IInv'
    BY <1>0, <1>37 DEF HandlerCopies, TypeOK
  <1>38. ASSUME NEW f \in kubelet, KubeletWrites(f) PROVE IInv'
    BY <1>0, <1>38 DEF KubeletWrites, TypeOK
  <1>39. ASSUME NEW f \in kubelet, KubeletRefuses(f) PROVE IInv'
    BY <1>0, <1>39 DEF KubeletRefuses, TypeOK
  <1>40. CASE UNCHANGED vars
    BY <1>0, <1>40 DEF TypeOK
  <1> QED
    BY <1>1, <1>2, <1>3, <1>4, <1>5, <1>6, <1>7, <1>8, <1>9, <1>10,
       <1>11, <1>12, <1>13, <1>14, <1>15, <1>16, <1>17, <1>18, <1>19, <1>20,
       <1>21, <1>22, <1>23, <1>24, <1>25, <1>26, <1>27, <1>28, <1>29, <1>30,
       <1>31, <1>32, <1>33, <1>34, <1>35, <1>36, <1>37, <1>38, <1>39, <1>40
       DEF Next, Operator, FileHandler, Cluster

(* The inductive invariant holds when the operator first starts. *)
LEMMA InitIInv == Init => IInv
  <1> SUFFICES ASSUME Init PROVE IInv
    OBVIOUS
  <1>1. TypeOK
    BY InitTypeOK
  <1>2. StagesInv /\ UploadsInv /\ UploadsFindFiles
    BY DEF Init, StagesInv, UploadsInv, UploadsFindFiles, Pending
  <1>3. BootsInv /\ AwaitedInv /\ SealedInv
    BY DEF Init, BootsInv, AwaitedInv, SealedInv, Pending, Cleaned
  <1> QED
    BY <1>1, <1>2, <1>3 DEF IInv

(* The inductive invariant holds in every behaviour. *)
THEOREM Safety == Spec => []IInv
  BY InitIInv, NextIInv, PTL DEF Spec
-----------------------------------------------------------------------------
(* The marker file is the last of its boot to reach the file handler: the   *)
(* promise of MigrateCheckpointParallelized that a restore relies on.       *)
THEOREM MarkerComesLast == Spec => []MarkerLast
  <1>1. IInv => MarkerLast
    BY DEF IInv, SealedInv, MarkerLast, Pending
  <1> QED
    BY <1>1, Safety, PTL

(* Nothing older than the first start of the operator is ever shipped.      *)
THEOREM NothingStaleShipped == Spec => []NoStaleShipped
  <1>1. IInv => NoStaleShipped
    BY DEF IInv, BootsInv, NoStaleShipped
  <1> QED
    BY <1>1, Safety, PTL

(* The cleanup of stage 3 and the uploads of stage 2 never collide.         *)
THEOREM UploadsAlwaysFindFiles == Spec => []UploadsFindFiles
  <1>1. IInv => UploadsFindFiles
    BY DEF IInv
  <1> QED
    BY <1>1, Safety, PTL

(* MigratePodPipelined returns only when all its goroutines have ended.     *)
THEOREM GoroutinesEnd == Spec => []NoGoroutineLeft
  <1>1. IInv => NoGoroutineLeft
    BY DEF IInv, StagesInv, UploadsInv, NoGoroutineLeft
  <1> QED
    BY <1>1, Safety, PTL

(* The pod is asked to terminate only after the kubelet has answered every  *)
(* checkpoint request of this boot that was not given up.                   *)
THEOREM DeleteAfterCheckpoints == Spec => DeleteWaitsForCheckpoints
  <1> DEFINE Answered == \A f \in kubelet : f[2] = boot => f \in lost
  <1>1. ASSUME IInv, [Next]_vars, pod = "Running", pod' # "Running"
        PROVE  Answered
    <2>1. DeletePod
      BY <1>1 DEF Next, Operator, FileHandler, Cluster, PollFound, PollError,
         PrintContainerIDs, ClearFolder, MkdirAll, CheckpointPost,
         CheckpointAnswered, CheckpointLost, CheckpointsWaited, Chown,
         SendCheckpoints, RangeEnds, ReadDir, ServiceFound, UploadInfo, Post,
         PostAnswered, PostLost, TouchDummy, DummyPosted, WatchPod,
         WaitDeleted, WatchClosed, ReceiveMigrated, RemoveMigrated,
         CloseMigrated, MigrateReturns, Die, ServicePanics, WatchPanics,
         Killed, Restart, HandlerRejects, HandlerCreates, HandlerCopies,
         KubeletWrites, KubeletRefuses, PodGone, ServiceAppears
    <2>2. main # "dead" /\ checkpointing = {}
      BY <1>1, <2>1 DEF DeletePod, IInv, StagesInv
    <2> QED
      BY <1>1, <2>2 DEF IInv, AwaitedInv
  <1>2. IInv /\ [Next]_vars =>
            [pod = "Running" /\ pod' # "Running" => Answered]_vars
    BY <1>1
  <1> QED
    BY <1>2, Safety, PTL DEF Spec, DeleteWaitsForCheckpoints
-----------------------------------------------------------------------------
(* The number of starts is bounded. *)
LEMMA BootBound == Spec => [](boot \in 1..MaxBoots)
  <1>1. Init => boot \in 1..MaxBoots
    BY DEF Init
  <1>2. boot \in 1..MaxBoots /\ [Next]_vars => (boot \in 1..MaxBoots)'
    <2>1. ASSUME [Next]_vars PROVE Restart \/ UNCHANGED boot
      BY <2>1 DEF Next, Operator, FileHandler, Cluster, PollFound, PollError,
         PrintContainerIDs, ClearFolder, MkdirAll, CheckpointPost,
         CheckpointAnswered, CheckpointLost, CheckpointsWaited, Chown,
         SendCheckpoints, RangeEnds, ReadDir, ServiceFound, UploadInfo, Post,
         PostAnswered, PostLost, TouchDummy, DummyPosted, DeletePod, WatchPod,
         WaitDeleted, WatchClosed, ReceiveMigrated, RemoveMigrated,
         CloseMigrated, MigrateReturns, Die, ServicePanics, WatchPanics,
         Killed, HandlerRejects, HandlerCreates, HandlerCopies,
         KubeletWrites, KubeletRefuses, PodGone, ServiceAppears
    <2> QED
      BY <2>1 DEF Restart
  <1> QED
    BY <1>1, <1>2, PTL DEF Spec

DeliveryFiles == Names \X (0..MaxBoots)

(* Only the steps of the file handler and of senders that give up change    *)
(* what Delivery sees; each of them is a step that Delivery allows.         *)
LEMMA NextDelivers ==
    ASSUME IInv, IInv', boot \in 1..MaxBoots, [Next]_vars
    PROVE  [Folder!Next]_(Folder!vars)
  <1> USE DEF IInv, TypeOK
  <1>1. DeliveryFiles = Containers \X (0..MaxBoots) \cup {Dummy} \X (0..MaxBoots)
    BY DEF DeliveryFiles, Names
  <1>2. \A f \in received \cup copying : f \in DeliveryFiles
    BY DEF BootsInv, Pending, DeliveryFiles, Entry
  <1>3. ASSUME NEW f \in received, HandlerCreates(f) PROVE Folder!Create(f)
    <2>1. Folder!MayCreate(f)
      BY <1>3 DEF SealedInv, Folder!MayCreate, Pending, Entry, Names
    <2> QED
      BY <1>3, <2>1 DEF HandlerCreates, Folder!Create
  <1>4. ASSUME NEW f \in copying, HandlerCopies(f) PROVE Folder!Close(f)
    BY <1>4 DEF HandlerCopies, Folder!Close
  <1>5. ASSUME NEW c \in Containers, CheckpointLost(c)
        PROVE  Archive(c) \in DeliveryFiles /\ Folder!GiveUp(Archive(c))
    BY <1>5 DEF CheckpointLost, Folder!GiveUp, DeliveryFiles, Names
  <1>6. ASSUME NEW f \in posting, PostLost(f)
        PROVE  f \in DeliveryFiles /\ Folder!GiveUp(f)
    BY <1>2, <1>6 DEF PostLost, Folder!GiveUp
  <1>7. ASSUME UNCHANGED <<copying, stored, partial, lost>>
        PROVE  UNCHANGED Folder!vars
    BY <1>7 DEF Folder!vars
  <1>8. \/ \E f \in received : HandlerCreates(f)
        \/ \E f \in copying : HandlerCopies(f)
        \/ \E c \in Containers : CheckpointLost(c)
        \/ \E f \in posting : PostLost(f)
        \/ UNCHANGED <<copying, stored, partial, lost>>
    BY DEF Next, Operator, FileHandler, Cluster, PollFound, PollError,
       PrintContainerIDs, ClearFolder, MkdirAll, CheckpointPost,
       CheckpointAnswered, CheckpointsWaited, Chown,
       SendCheckpoints, RangeEnds, ReadDir, ServiceFound, UploadInfo, Post,
       PostAnswered, TouchDummy, DummyPosted, DeletePod, WatchPod,
       WaitDeleted, WatchClosed, ReceiveMigrated, RemoveMigrated,
       CloseMigrated, MigrateReturns, Die, ServicePanics, WatchPanics,
       Killed, Restart, HandlerRejects, KubeletWrites, KubeletRefuses,
       PodGone, ServiceAppears
  <1> QED
    BY <1>1, <1>2, <1>3, <1>4, <1>5, <1>6, <1>7, <1>8 DEF Folder!Next

(* The source implements Delivery: for any containers and any number of     *)
(* starts, the files reach the destination in the order on which the        *)
(* restore relies.                                                          *)
THEOREM SourceDelivers == Spec => DeliversInOrder
  <1>1. Init => Folder!Init
    BY DEF Init, Folder!Init
  <1>2. IInv /\ IInv' /\ boot \in 1..MaxBoots /\ [Next]_vars
            => [Folder!Next]_(Folder!vars)
    BY NextDelivers
  <1> QED
    BY <1>1, <1>2, Safety, BootBound, PTL DEF Spec, DeliversInOrder, Folder!Spec
=============================================================================
