-------------------------- MODULE FaultlessProofs ---------------------------
(***************************************************************************)
(* What a migration of the source does when no call fails, for any set of  *)
(* containers.  MigratePodPipelined and MigratePod share most of their     *)
(* steps; what those keep is proved here once for both, from what both     *)
(* invariants say of their goroutines.                                     *)
(***************************************************************************)
EXTENDS MigratePipelineProofs

OwnArchives == {Archive(c) : c \in Own}

(* The steps that MigratePodPipelined and MigratePod have in common, with   *)
(* those of the file handler, the kubelet and the API server.               *)
SharedNext ==
    \/ PollFound \/ PollError \/ PrintContainerIDs \/ CheckpointsWaited
    \/ \E c \in Containers : \/ CheckpointPost(c)
                             \/ CheckpointAnswered(c)
                             \/ CheckpointLost(c)
    \/ DeletePod \/ WatchPod \/ WatchPanics \/ WaitDeleted \/ WatchClosed
    \/ ServiceFound \/ ServicePanics
    \/ \E f \in toStat : UploadInfo(f)
    \/ \E f \in toPost : Post(f)
    \/ \E f \in posting : PostAnswered(f) \/ PostLost(f)
    \/ TouchDummy \/ DummyPosted
    \/ FileHandler \/ Cluster \/ ServiceAppears \/ Killed

(* What holds of the goroutines of both migrations. *)
SharedInv ==
    /\ TypeOK
    /\ main \in {"poll", "list", "stopped", "dead"} =>
           stage1 = "none" /\ stage2 = "none"
    /\ main \in {"delete", "watch", "wait", "cleanup", "removing", "done"} =>
           stage1 = "done"
    /\ stage2 # "none" => stage1 = "done"
    /\ checkpointing # {} => stage1 = "checkpoint"
    /\ toStat # {} => stage2 \in {"service", "upload"}
    /\ toPost \cup posting # {} => stage2 \in {"upload", "mark"}
    /\ stage2 = "mark" => toPost \cup posting \subseteq {Marker}
    /\ AwaitedInv

(* The pod is there until it is deleted, and main goes on to stage 3 only   *)
(* when it is gone.                                                         *)
PodInv ==
    /\ main \in {"poll", "list", "range", "delete"} => pod = "Running"
    /\ main \in {"cleanup", "removing", "done"} => pod = "Gone"
    /\ deleted => pod = "Gone"

(* Every container of the pod is listed, its request is with the kubelet,   *)
(* or its archive is in the folder, and stage 2 reads them all.             *)
CheckpointedInv ==
    /\ stage1 \in {"clear", "mkdir"} => toCheckpoint = Containers
    /\ stage1 = "checkpoint" =>
           \A c \in Own : c \in toCheckpoint \/ Archive(c) \in kubelet \cup dir
    /\ stage1 \in {"chown", "send"} => OwnArchives \subseteq dir
    /\ stage1 = "done" /\ stage2 \in {"none", "readdir"} => OwnArchives \subseteq dir
    /\ stage1 \in {"checkpoint", "chown", "send"} => exists
    /\ stage1 = "done" /\ stage2 # "done" => exists

(* None of those archives is dropped between the folder and the disk of the *)
(* other cluster, and neither is the marker.                                *)
ShippedInv ==
    /\ stage2 \in {"service", "upload"} =>
           OwnArchives \subseteq toStat \cup toPost \cup InFlight \cup stored
    /\ stage2 \in {"mark", "send", "done"} => OwnArchives \subseteq stored
    /\ stage2 = "mark" => Marker \in toPost \cup InFlight \cup stored
    /\ stage2 \in {"send", "done"} => Marker \in stored

FaultlessInv ==
    ~fault =>
        /\ main \notin {"stopped", "dead"} /\ lost = {}
        /\ PodInv
        /\ CheckpointedInv
        /\ ShippedInv

(* Stage 1 has sent the path when it ends, and stage 3 has cleared the      *)
(* folder when stage 2 has ended.                                           *)
PipelineEndsInv ==
    ~fault =>
        /\ stage1 = "done" => stage2 # "none"
        /\ stage2 = "done" =>
               main = "removing" \/ (main \in {"cleanup", "done"} /\ ~exists /\ dir = {})
-----------------------------------------------------------------------------
USE ConstantsAssumption
USE DEF vars, mainVars, ckVars, reqVars, upVars, postVars, fsVars, extVars,
        kletVars, apiVars, destVars, Marker, Archive, InFlight, Arrived

(* No step undoes a fault. *)
LEMMA FaultStays ==
    ASSUME TypeOK, SharedNext, ~fault'
    PROVE  ~fault
  BY DEF TypeOK, SharedNext, FileHandler, Cluster, PollFound, PollError,
     PrintContainerIDs, CheckpointsWaited, DeletePod, WatchPod, WatchPanics,
     WaitDeleted, WatchClosed, ServiceFound, ServicePanics, TouchDummy,
     DummyPosted, PodGone, ServiceAppears, Killed, CheckpointPost,
     CheckpointAnswered, CheckpointLost, UploadInfo, Post, PostAnswered,
     PostLost, HandlerRejects, HandlerCreates, HandlerCopies, KubeletWrites,
     KubeletRefuses, Die

(* The steps that both migrations share keep what a migration without a     *)
(* failed call relies on.                                                   *)
LEMMA SharedFaultless ==
    ASSUME SharedInv, FaultlessInv, SharedNext
    PROVE  FaultlessInv'
  <1> SUFFICES ASSUME ~fault'
               PROVE  /\ (main \notin {"stopped", "dead"} /\ lost = {})'
                      /\ PodInv' /\ CheckpointedInv' /\ ShippedInv'
    BY DEF FaultlessInv
  <1> DEFINE Goal == /\ (main \notin {"stopped", "dead"} /\ lost = {})'
                     /\ PodInv' /\ CheckpointedInv' /\ ShippedInv'
  <1>0. /\ main \notin {"stopped", "dead"} /\ lost = {}
        /\ PodInv /\ CheckpointedInv /\ ShippedInv
    BY FaultStays DEF SharedInv, FaultlessInv
  <1> USE DEF SharedInv, AwaitedInv, PodInv, CheckpointedInv, ShippedInv,
     OwnArchives
  <1>1. CASE PollFound
    BY <1>0, <1>1 DEF PollFound, TypeOK
  <1>2. CASE PollError
    BY <1>0, <1>2 DEF PollError, TypeOK
  <1>3. CASE PrintContainerIDs
    BY <1>0, <1>3 DEF PrintContainerIDs, TypeOK
  <1>4. CASE CheckpointsWaited
    BY <1>0, <1>4 DEF CheckpointsWaited, TypeOK
  <1>5. CASE DeletePod
    BY <1>0, <1>5 DEF DeletePod, TypeOK
  <1>6. CASE WatchPod
    BY <1>0, <1>6 DEF WatchPod, TypeOK
  <1>7. CASE WatchPanics
    BY <1>0, <1>7 DEF WatchPanics, Die, TypeOK
  <1>8. CASE WaitDeleted
    BY <1>0, <1>8 DEF WaitDeleted, TypeOK
  <1>9. CASE WatchClosed
    BY <1>0, <1>9 DEF WatchClosed, TypeOK
  <1>10. CASE ServiceFound
    BY <1>0, <1>10 DEF ServiceFound, TypeOK
  <1>11. CASE ServicePanics
    BY <1>0, <1>11 DEF ServicePanics, Die, TypeOK
  <1>12. CASE TouchDummy
    BY <1>0, <1>12 DEF TouchDummy, TypeOK
  <1>13. CASE DummyPosted
    BY <1>0, <1>13 DEF DummyPosted, TypeOK
  <1>14. CASE PodGone
    BY <1>0, <1>14 DEF PodGone, TypeOK
  <1>15. CASE ServiceAppears
    BY <1>0, <1>15 DEF ServiceAppears, TypeOK
  <1>16. CASE Killed
    BY <1>0, <1>16 DEF Killed, Die, TypeOK
  <1>17. ASSUME NEW c \in Containers, CheckpointPost(c) PROVE Goal
    BY <1>0, <1>17 DEF CheckpointPost, TypeOK
  <1>18. ASSUME NEW c \in Containers, CheckpointAnswered(c) PROVE Goal
    BY <1>0, <1>18 DEF CheckpointAnswered, TypeOK
  <1>19. ASSUME NEW c \in Containers, CheckpointLost(c) PROVE Goal
    BY <1>0, <1>19 DEF CheckpointLost, TypeOK
  <1>20. ASSUME NEW f \in toStat, UploadInfo(f) PROVE Goal
    BY <1>0, <1>20 DEF UploadInfo, TypeOK
  <1>21. ASSUME NEW f \in toPost, Post(f) PROVE Goal
    BY <1>0, <1>21 DEF Post, TypeOK
  <1>22. ASSUME NEW f \in posting, PostAnswered(f) PROVE Goal
    BY <1>0, <1>22 DEF PostAnswered, TypeOK
  <1>23. ASSUME NEW f \in posting, PostLost(f) PROVE Goal
    BY <1>0, <1>23 DEF PostLost, TypeOK
  <1>24. ASSUME NEW f \in received, HandlerRejects(f) PROVE Goal
    BY <1>0, <1>24 DEF HandlerRejects, TypeOK
  <1>25. ASSUME NEW f \in received, HandlerCreates(f) PROVE Goal
    BY <1>0, <1>25 DEF HandlerCreates, TypeOK
  <1>26. ASSUME NEW f \in copying, HandlerCopies(f) PROVE Goal
    BY <1>0, <1>26 DEF HandlerCopies, TypeOK
  <1>27. ASSUME NEW f \in kubelet, KubeletWrites(f) PROVE Goal
    BY <1>0, <1>27 DEF KubeletWrites, TypeOK
  <1>28. ASSUME NEW f \in kubelet, KubeletRefuses(f) PROVE Goal
    BY <1>0, <1>28 DEF KubeletRefuses, TypeOK
  <1> QED
    BY <1>1, <1>2, <1>3, <1>4, <1>5, <1>6, <1>7, <1>8, <1>9, <1>10, <1>11,
       <1>12, <1>13, <1>14, <1>15, <1>16, <1>17, <1>18, <1>19, <1>20, <1>21,
       <1>22, <1>23, <1>24, <1>25, <1>26, <1>27, <1>28
       DEF SharedNext, FileHandler, Cluster

(* The goroutines of the pipelined migration are as both have them. *)
LEMMA IInvShared == IInv => SharedInv
  BY DEF IInv, StagesInv, UploadsInv, SharedInv

(* Every step of the pipelined migration keeps FaultlessInv. *)
LEMMA PipelineFaultless ==
    ASSUME IInv, FaultlessInv, PipelineEndsInv, [Next]_vars
    PROVE  FaultlessInv'
  <1>0. SharedInv
    BY IInvShared
  <1> USE DEF SharedInv, FaultlessInv, PodInv, CheckpointedInv, ShippedInv,
              PipelineEndsInv, OwnArchives
  <1>1. CASE SharedNext
    BY <1>0, <1>1, SharedFaultless
  <1>2. CASE ClearFolder
    BY <1>0, <1>2 DEF ClearFolder, RemoveAll, TypeOK
  <1>3. CASE MkdirAll
    BY <1>0, <1>3 DEF MkdirAll, TypeOK
  <1>4. CASE Chown
    BY <1>0, <1>4 DEF Chown, TypeOK
  <1>5. CASE SendCheckpoints
    BY <1>0, <1>5 DEF SendCheckpoints, TypeOK
  <1>6. CASE RangeEnds
    BY <1>0, <1>6 DEF RangeEnds, TypeOK
  <1>7. CASE ReadDir
    BY <1>0, <1>7 DEF ReadDir, TypeOK
  <1>8. CASE ReceiveMigrated
    BY <1>0, <1>8 DEF ReceiveMigrated, TypeOK
  <1>9. CASE RemoveMigrated
    BY <1>0, <1>9 DEF RemoveMigrated, RemoveAll, IInv, StagesInv, TypeOK
  <1>10. CASE CloseMigrated
    BY <1>0, <1>10 DEF CloseMigrated, TypeOK
  <1>11. CASE MigrateReturns
    BY <1>0, <1>11 DEF MigrateReturns, TypeOK
  <1>12. CASE Restart
    BY <1>0, <1>12 DEF Restart, TypeOK
  <1>13. CASE UNCHANGED vars
    BY <1>13 DEF TypeOK
  <1> QED
    BY <1>1, <1>2, <1>3, <1>4, <1>5, <1>6, <1>7, <1>8, <1>9, <1>10, <1>11,
       <1>12, <1>13
       DEF Next, Operator, SharedNext

(* Every step of the pipelined migration keeps PipelineEndsInv: without a   *)
(* failed call stage 1 ends by sending the path, and only stage 3, once it  *)
(* has the message of stage 2, removes the folder.                          *)
LEMMA PipelineEnds ==
    ASSUME IInv, FaultlessInv, PipelineEndsInv, [Next]_vars
    PROVE  PipelineEndsInv'
  <1> USE DEF IInv, StagesInv, UploadsInv, FaultlessInv, PipelineEndsInv
  <1>1. CASE PollFound
    BY <1>1 DEF PollFound, TypeOK
  <1>2. CASE PollError
    BY <1>2 DEF PollError, TypeOK
  <1>3. CASE PrintContainerIDs
    BY <1>3 DEF PrintContainerIDs, TypeOK
  <1>4. CASE CheckpointsWaited
    BY <1>4 DEF CheckpointsWaited, TypeOK
  <1>5. CASE DeletePod
    BY <1>5 DEF DeletePod, TypeOK
  <1>6. CASE WatchPod
    BY <1>6 DEF WatchPod, TypeOK
  <1>7. CASE WatchPanics
    BY <1>7 DEF WatchPanics, Die, TypeOK
  <1>8. CASE WaitDeleted
    BY <1>8 DEF WaitDeleted, TypeOK
  <1>9. CASE WatchClosed
    BY <1>9 DEF WatchClosed, TypeOK
  <1>10. CASE ServiceFound
    BY <1>10 DEF ServiceFound, TypeOK
  <1>11. CASE ServicePanics
    BY <1>11 DEF ServicePanics, Die, TypeOK
  <1>12. CASE TouchDummy
    BY <1>12 DEF TouchDummy, TypeOK
  <1>13. CASE DummyPosted
    BY <1>13 DEF DummyPosted, TypeOK
  <1>14. CASE PodGone
    BY <1>14 DEF PodGone, TypeOK
  <1>15. CASE ServiceAppears
    BY <1>15 DEF ServiceAppears, TypeOK
  <1>16. CASE Killed
    BY <1>16 DEF Killed, Die, TypeOK
  <1>17. ASSUME NEW c \in Containers, CheckpointPost(c) PROVE PipelineEndsInv'
    BY <1>17 DEF CheckpointPost, TypeOK
  <1>18. ASSUME NEW c \in Containers, CheckpointAnswered(c) PROVE PipelineEndsInv'
    BY <1>18 DEF CheckpointAnswered, TypeOK
  <1>19. ASSUME NEW c \in Containers, CheckpointLost(c) PROVE PipelineEndsInv'
    BY <1>19 DEF CheckpointLost, TypeOK
  <1>20. ASSUME NEW f \in toStat, UploadInfo(f) PROVE PipelineEndsInv'
    BY <1>20 DEF UploadInfo, TypeOK
  <1>21. ASSUME NEW f \in toPost, Post(f) PROVE PipelineEndsInv'
    BY <1>21 DEF Post, TypeOK
  <1>22. ASSUME NEW f \in posting, PostAnswered(f) PROVE PipelineEndsInv'
    BY <1>22 DEF PostAnswered, TypeOK
  <1>23. ASSUME NEW f \in posting, PostLost(f) PROVE PipelineEndsInv'
    BY <1>23 DEF PostLost, TypeOK
  <1>24. ASSUME NEW f \in received, HandlerRejects(f) PROVE PipelineEndsInv'
    BY <1>24 DEF HandlerRejects, TypeOK
  <1>25. ASSUME NEW f \in received, HandlerCreates(f) PROVE PipelineEndsInv'
    BY <1>25 DEF HandlerCreates, TypeOK
  <1>26. ASSUME NEW f \in copying, HandlerCopies(f) PROVE PipelineEndsInv'
    BY <1>26 DEF HandlerCopies, TypeOK
  <1>27. ASSUME NEW f \in kubelet, KubeletWrites(f) PROVE PipelineEndsInv'
    BY <1>27 DEF KubeletWrites, TypeOK
  <1>28. ASSUME NEW f \in kubelet, KubeletRefuses(f) PROVE PipelineEndsInv'
    BY <1>28 DEF KubeletRefuses, TypeOK
  <1>29. CASE ClearFolder
    BY <1>29 DEF ClearFolder, RemoveAll, TypeOK
  <1>30. CASE MkdirAll
    BY <1>30 DEF MkdirAll, TypeOK
  <1>31. CASE Chown
    BY <1>31 DEF Chown, TypeOK
  <1>32. CASE SendCheckpoints
    BY <1>32 DEF SendCheckpoints, TypeOK
  <1>33. CASE RangeEnds
    BY <1>33 DEF RangeEnds, TypeOK
  <1>34. CASE ReadDir
    BY <1>34 DEF ReadDir, TypeOK
  <1>35. CASE ReceiveMigrated
    BY <1>35 DEF ReceiveMigrated, TypeOK
  <1>36. CASE RemoveMigrated
    BY <1>36 DEF RemoveMigrated, RemoveAll, TypeOK
  <1>37. CASE CloseMigrated
    BY <1>37 DEF CloseMigrated, TypeOK
  <1>38. CASE MigrateReturns
    BY <1>38 DEF MigrateReturns, TypeOK
  <1>39. CASE Restart
    BY <1>39 DEF Restart, TypeOK
  <1>40. CASE UNCHANGED vars
    BY <1>40 DEF TypeOK
  <1> QED
    BY <1>1, <1>2, <1>3, <1>4, <1>5, <1>6, <1>7, <1>8, <1>9, <1>10, <1>11,
       <1>12, <1>13, <1>14, <1>15, <1>16, <1>17, <1>18, <1>19, <1>20, <1>21,
       <1>22, <1>23, <1>24, <1>25, <1>26, <1>27, <1>28, <1>29, <1>30, <1>31,
       <1>32, <1>33, <1>34, <1>35, <1>36, <1>37, <1>38, <1>39, <1>40
       DEF Next, Operator, FileHandler, Cluster

(* What a migration is for: without a failed call MigratePodPipelined       *)
(* returns only when the other cluster has every archive of the pod and the *)
(* marker, whole, the pod is gone and the folder is removed.                *)
THEOREM FaultlessShips == Spec => []FaultlessRunShips
  <1>1. Init => FaultlessInv /\ PipelineEndsInv
    BY DEF Init, FaultlessInv, PodInv, CheckpointedInv, ShippedInv, PipelineEndsInv
  <1>2. IInv /\ FaultlessInv /\ PipelineEndsInv /\ [Next]_vars
            => (FaultlessInv /\ PipelineEndsInv)'
    BY PipelineFaultless, PipelineEnds
  <1>3. IInv /\ FaultlessInv /\ PipelineEndsInv => FaultlessRunShips
    BY DEF IInv, StagesInv, FaultlessInv, PodInv, ShippedInv, OwnArchives,
           PipelineEndsInv, FaultlessRunShips
  <1> QED
    BY <1>1, <1>2, <1>3, Safety, PTL DEF Spec
=============================================================================
