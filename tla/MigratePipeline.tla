-------------------------- MODULE MigratePipeline --------------------------
(***************************************************************************)
(* The source side of a migration: the goroutine of Reconcile that looks   *)
(* for the source pod, MigratePodPipelined with the goroutines it starts   *)
(* (stage 1 checkpoints, stage 2 uploads, stage 3 cleans up),              *)
(* TerminateCheckpointedPod, and the file handler that receives the files  *)
(* on the other cluster.  The kubelet and the API server are external.     *)
(*                                                                         *)
(* The operator may die at any moment: a panic in any goroutine, or a kill *)
(* from outside, ends all of them, while requests the kubelet or the file  *)
(* handler already hold live on.  It is then started again.  `boot' counts *)
(* its incarnations, each of which starts at most one migration.           *)
(*                                                                         *)
(* A file is a pair <<name, boot>>.  The kubelet puts a timestamp into the *)
(* name of a checkpoint archive, so two checkpoints of one container are   *)
(* two files; the boot that asked for the checkpoint stands for the        *)
(* timestamp.  Boot 0 marks what was in the folder before the first boot.  *)
(***************************************************************************)
EXTENDS Naturals

CONSTANTS Containers,  \* every container PrintContainerIDs finds in the namespace
          Own,         \* those that belong to the pod migratingPod.Name
          Dummy,       \* the name of the marker file, "dummy"
          MaxBoots     \* bound: how often the operator is started

ASSUME ConstantsAssumption ==
    /\ Own \subseteq Containers
    /\ Dummy \notin Containers
    /\ MaxBoots \in Nat \ {0}

VARIABLES
    boot,          \* the current incarnation of the operator
    main,          \* goroutine of Reconcile that runs MigratePodPipelined
    closer,        \* goroutine that closes migratedCheckpoints
    stage1,        \* stage 1 goroutine
    toCheckpoint,  \* containers whose checkpoint request is still to be sent
    checkpointing, \* containers whose checkpoint request awaits its answer
    stage2,        \* stage 2 goroutine
    toStat,        \* files read from the folder whose upload goroutine starts
    toPost,        \* files whose curl is still to be run
    posting,       \* files whose curl awaits the answer of the file handler
    dir,           \* content of /tmp/checkpoints/checkpoints
    exists,        \* whether that folder exists
    kubelet,       \* checkpoint requests the kubelet is working on
    taken,         \* checkpoint archives the kubelet has ever written
    pod,           \* the source pod, as the API server has it
    deleted,       \* a DELETED event waits in the watch channel
    svc,           \* whether dummy-service can be found
    received,      \* uploads the file handler has received, not yet on disk
    copying,       \* uploads it is writing to /mnt/data
    stored,        \* files completely written to /mnt/data
    partial,       \* files created in /mnt/data whose copy failed
    lost,          \* requests whose sender gave up before the answer came
    fault          \* whether any call has failed so far

mainVars == <<main, closer>>
reqVars  == <<toCheckpoint, checkpointing>>
ckVars   == <<stage1, reqVars>>
postVars == <<toPost, posting>>
upVars   == <<stage2, toStat, postVars>>
fsVars   == <<dir, exists>>
kletVars == <<kubelet, taken>>
apiVars  == <<pod, deleted, svc>>
destVars == <<received, copying, stored, partial>>
extVars  == <<kletVars, apiVars, destVars>>
vars     == <<boot, mainVars, ckVars, upVars, fsVars, extVars, lost, fault>>

Names      == Containers \cup {Dummy}
Entry      == Names \X Nat
Marker     == <<Dummy, boot>>
Archive(c) == <<c, boot>>
InFlight   == received \cup copying
Arrived    == InFlight \cup stored \cup partial

MainStates == {"poll", "list", "range", "delete", "watch", "wait", "cleanup",
               "removing", "done", "stopped", "dead"}
Stage1States == {"none", "clear", "mkdir", "checkpoint", "chown", "send", "done"}
Stage2States == {"none", "readdir", "service", "upload", "mark", "send", "done"}

TypeOK ==
    /\ boot \in Nat \ {0}
    /\ main \in MainStates
    /\ closer \in {"none", "waiting", "closed"}
    /\ stage1 \in Stage1States
    /\ toCheckpoint \subseteq Containers
    /\ checkpointing \subseteq Containers
    /\ stage2 \in Stage2States
    /\ toStat \subseteq Entry /\ toPost \subseteq Entry /\ posting \subseteq Entry
    /\ dir \subseteq Entry
    /\ kubelet \subseteq Entry /\ taken \subseteq Entry
    /\ received \subseteq Entry /\ copying \subseteq Entry
    /\ stored \subseteq Entry /\ partial \subseteq Entry
    /\ lost \subseteq Entry
    /\ exists \in BOOLEAN
    /\ pod \in {"Running", "Terminating", "Gone"}
    /\ deleted \in BOOLEAN
    /\ svc \in BOOLEAN
    /\ fault \in BOOLEAN

Init ==
    /\ boot = 1
    /\ main = "poll"
    /\ closer = "none"
    /\ stage1 = "none" /\ toCheckpoint = {} /\ checkpointing = {}
    /\ stage2 = "none" /\ toStat = {} /\ toPost = {} /\ posting = {}
    /\ exists \in BOOLEAN
    /\ dir \in IF exists THEN SUBSET (Names \X {0}) ELSE {{}}
    /\ kubelet = {} /\ taken = {}
    /\ pod = "Running" /\ deleted = FALSE /\ svc \in BOOLEAN
    /\ received = {} /\ copying = {} /\ stored = {} /\ partial = {}
    /\ lost = {} /\ fault = FALSE
-----------------------------------------------------------------------------
(* The poller: one Get decides.  CheckPodExist never returns (nil, nil), so *)
(* an error, "not found" included, ends the goroutine.                      *)

PollFound ==
    /\ main = "poll" /\ pod # "Gone"
    /\ main' = "list"
    /\ UNCHANGED <<boot, closer, ckVars, upVars, fsVars, extVars, lost, fault>>

PollError ==
    /\ main = "poll"
    /\ main' = "stopped"
    /\ fault' = (fault \/ pod # "Gone")
    /\ UNCHANGED <<boot, closer, ckVars, upVars, fsVars, extVars, lost>>

(* Variant: the list has an entry that is no container. *)
PrintNamesToo ==
    /\ main = "list"
    /\ main' = "range" /\ stage1' = "clear"
    /\ toCheckpoint' = Names
    /\ UNCHANGED <<boot, closer, checkpointing, upVars, fsVars, extVars, lost,
                   fault>>

(* PrintContainerIDs, then stage 1 is started and main ranges over          *)
(* `checkpoints'.  The list has the containers of every pod of the          *)
(* namespace; on an error it is nil and the migration goes on.              *)
PrintContainerIDs ==
    /\ main = "list"
    /\ main' = "range" /\ stage1' = "clear"
    /\ \/ /\ toCheckpoint' = IF pod = "Gone" THEN Containers \ Own ELSE Containers
          /\ UNCHANGED fault
       \/ /\ toCheckpoint' = {}
          /\ fault' = TRUE
    /\ UNCHANGED <<boot, closer, checkpointing, upVars, fsVars, extVars, lost>>
-----------------------------------------------------------------------------
(* Stage 1.  Every failure returns through `defer close(checkpoints)'       *)
(* without sending, which is stage1 = "done" with stage2 = "none".          *)

(* os.RemoveAll: success removes the folder, a failure may leave any part. *)
RemoveAll(ok) ==
    IF ok THEN /\ dir' = {}
               /\ exists' = FALSE
               /\ UNCHANGED fault
          ELSE /\ exists
               /\ dir' \in SUBSET dir
               /\ fault' = TRUE
               /\ UNCHANGED exists

(* Variant: as in MigratePod, a failure is logged and stage 1 goes on. *)
ClearFolderGoesOn ==
    /\ stage1 = "clear"
    /\ \E ok \in BOOLEAN : RemoveAll(ok)
    /\ stage1' = "mkdir"
    /\ UNCHANGED <<boot, mainVars, reqVars, upVars, extVars, lost>>

ClearFolder ==
    /\ stage1 = "clear"
    /\ \E ok \in BOOLEAN :
        /\ RemoveAll(ok)
        /\ stage1' = IF ok THEN "mkdir" ELSE "done"
    /\ UNCHANGED <<boot, mainVars, reqVars, upVars, extVars, lost>>

MkdirAll ==
    /\ stage1 = "mkdir"
    /\ \/ exists' = TRUE /\ stage1' = "checkpoint" /\ UNCHANGED fault
       \/ UNCHANGED exists /\ stage1' = "done" /\ fault' = TRUE
    /\ UNCHANGED <<boot, mainVars, reqVars, upVars, dir, extVars, lost>>

(* CheckpointPodPipelined: one goroutine per listed container runs          *)
(*    curl -sk -XPOST https://localhost:10250/checkpoint/<ns>/<pod>/<c>     *)
(* and ignores how it went; an HTTP error is no error for curl.             *)
CheckpointPost(c) ==
    /\ stage1 = "checkpoint" /\ c \in toCheckpoint
    /\ toCheckpoint' = toCheckpoint \ {c}
    /\ \/ /\ checkpointing' = checkpointing \cup {c}
          /\ kubelet' = kubelet \cup {Archive(c)}
          /\ UNCHANGED fault
       \/ fault' = TRUE /\ UNCHANGED <<checkpointing, kubelet>>
    /\ UNCHANGED <<boot, mainVars, stage1, upVars, fsVars, taken, apiVars,
                   destVars, lost>>

CheckpointAnswered(c) ==
    /\ c \in checkpointing
    /\ Archive(c) \notin kubelet
    /\ checkpointing' = checkpointing \ {c}
    /\ UNCHANGED <<boot, mainVars, stage1, toCheckpoint, upVars, fsVars,
                   extVars, lost, fault>>

CheckpointLost(c) ==
    /\ c \in checkpointing
    /\ Archive(c) \in kubelet
    /\ checkpointing' = checkpointing \ {c}
    /\ lost' = lost \cup {Archive(c)}
    /\ fault' = TRUE
    /\ UNCHANGED <<boot, mainVars, stage1, toCheckpoint, upVars, fsVars, extVars>>

(* Variant: no wg.Wait, the requests are started and left alone. *)
CheckpointsNotWaited ==
    /\ stage1 = "checkpoint" /\ toCheckpoint = {}
    /\ stage1' = "chown"
    /\ UNCHANGED <<boot, mainVars, reqVars, upVars, fsVars, extVars, lost, fault>>

(* wg.Wait in CheckpointPodPipelined *)
CheckpointsWaited ==
    /\ stage1 = "checkpoint"
    /\ toCheckpoint = {} /\ checkpointing = {}
    /\ stage1' = "chown"
    /\ UNCHANGED <<boot, mainVars, reqVars, upVars, fsVars, extVars, lost, fault>>

Chown ==
    /\ stage1 = "chown"
    /\ \/ stage1' = "send" /\ UNCHANGED fault
       \/ stage1' = "done" /\ fault' = TRUE
    /\ UNCHANGED <<boot, mainVars, reqVars, upVars, fsVars, extVars, lost>>

(* The path goes through the unbuffered channel; main starts stage 2.       *)
SendCheckpoints ==
    /\ stage1 = "send" /\ main = "range"
    /\ stage1' = "done"
    /\ stage2' = "readdir"
    /\ UNCHANGED <<boot, mainVars, reqVars, toStat, postVars, fsVars, extVars,
                   lost, fault>>

(* Variant: the pod is terminated while stage 1 still works. *)
RangeSkipped ==
    /\ main = "range"
    /\ main' = "delete"
    /\ closer' = "waiting"
    /\ UNCHANGED <<boot, ckVars, upVars, fsVars, extVars, lost, fault>>

(* Variant: nobody closes migratedCheckpoints. *)
RangeWithoutCloser ==
    /\ main = "range" /\ stage1 = "done"
    /\ main' = "delete"
    /\ UNCHANGED <<boot, closer, ckVars, upVars, fsVars, extVars, lost, fault>>

(* `checkpoints' is closed: main leaves the loop and starts the closer.     *)
RangeEnds ==
    /\ main = "range" /\ stage1 = "done"
    /\ main' = "delete"
    /\ closer' = "waiting"
    /\ UNCHANGED <<boot, ckVars, upVars, fsVars, extVars, lost, fault>>
-----------------------------------------------------------------------------
(* Stage 2: os.ReadDir, then MigrateCheckpointParallelized.                 *)

ReadDir ==
    /\ stage2 = "readdir"
    /\ \/ exists /\ toStat' = dir /\ stage2' = "service" /\ UNCHANGED fault
       \/ UNCHANGED toStat /\ stage2' = "done" /\ fault' = TRUE
    /\ UNCHANGED <<boot, mainVars, ckVars, postVars, fsVars, extVars, lost>>

ServiceFound ==
    /\ stage2 = "service" /\ svc
    /\ stage2' = "upload"
    /\ UNCHANGED <<boot, mainVars, ckVars, toStat, postVars, fsVars, extVars,
                   lost, fault>>

(* One goroutine per file.  entry.Info() fails for a file that has gone.    *)
UploadInfo(f) ==
    /\ stage2 = "upload" /\ f \in toStat
    /\ toStat' = toStat \ {f}
    /\ IF f \in dir THEN toPost' = toPost \cup {f} /\ UNCHANGED fault
                    ELSE fault' = TRUE /\ UNCHANGED toPost
    /\ UNCHANGED <<boot, mainVars, ckVars, stage2, posting, fsVars, extVars, lost>>

(* curl -X POST -F file=@path http://<service>/upload: the file handler has *)
(* the whole body before it is called, so a request is received or not.     *)
Post(f) ==
    /\ f \in toPost
    /\ toPost' = toPost \ {f}
    /\ \/ /\ f \in dir
          /\ posting' = posting \cup {f}
          /\ received' = received \cup {f}
          /\ UNCHANGED fault
       \/ fault' = TRUE /\ UNCHANGED <<posting, received>>
    /\ UNCHANGED <<boot, mainVars, ckVars, stage2, toStat, fsVars, kletVars,
                   apiVars, copying, stored, partial, lost>>

PostAnswered(f) ==
    /\ f \in posting \ InFlight
    /\ posting' = posting \ {f}
    /\ UNCHANGED <<boot, mainVars, ckVars, stage2, toStat, toPost, fsVars,
                   extVars, lost, fault>>

PostLost(f) ==
    /\ f \in posting \cap InFlight
    /\ posting' = posting \ {f}
    /\ lost' = lost \cup {f}
    /\ fault' = TRUE
    /\ UNCHANGED <<boot, mainVars, ckVars, stage2, toStat, toPost, fsVars, extVars>>

(* Variant: no wg.Wait before the marker. *)
TouchDummyEarly ==
    /\ stage2 = "upload" /\ toStat = {}
    /\ stage2' = "mark"
    /\ toPost' = toPost \cup {Marker}
    /\ dir' = dir \cup {Marker}
    /\ UNCHANGED <<boot, mainVars, ckVars, toStat, posting, exists, extVars,
                   lost, fault>>

(* wg.Wait in MigrateCheckpointParallelized, then the marker file is        *)
(* touched and posted like any other file.                                  *)
TouchDummy ==
    /\ stage2 = "upload"
    /\ toStat = {} /\ toPost = {} /\ posting = {}
    /\ stage2' = "mark"
    /\ toPost' = {Marker}
    /\ \/ exists /\ dir' = dir \cup {Marker} /\ UNCHANGED fault
       \/ fault' = TRUE /\ UNCHANGED dir
    /\ UNCHANGED <<boot, mainVars, ckVars, toStat, posting, exists, extVars, lost>>

DummyPosted ==
    /\ stage2 = "mark"
    /\ toPost = {} /\ posting = {}
    /\ stage2' = "send"
    /\ UNCHANGED <<boot, mainVars, ckVars, toStat, postVars, fsVars, extVars,
                   lost, fault>>
-----------------------------------------------------------------------------
(* TerminateCheckpointedPod.  Its Get changes nothing, the errors of Get,   *)
(* Delete and WaitForPodDeletion are logged, and it always returns nil.     *)

DeletePod ==
    /\ main = "delete"
    /\ main' = "watch"
    /\ \/ pod # "Gone" /\ pod' = "Terminating" /\ UNCHANGED fault
       \/ fault' = (fault \/ pod # "Gone") /\ UNCHANGED pod
    /\ UNCHANGED <<boot, closer, ckVars, upVars, fsVars, kletVars, deleted, svc,
                   destVars, lost>>

(* WaitForPodDeletion: a pod that has gone before the watch was opened      *)
(* sends no event, and then only the end of the watch ends the wait.        *)
WatchPod ==
    /\ main = "watch"
    /\ main' = "wait"
    /\ deleted' = FALSE
    /\ UNCHANGED <<boot, closer, ckVars, upVars, fsVars, kletVars, pod, svc,
                   destVars, lost, fault>>

WaitDeleted ==
    /\ main = "wait" /\ deleted
    /\ main' = "cleanup"
    /\ deleted' = FALSE
    /\ UNCHANGED <<boot, closer, ckVars, upVars, fsVars, kletVars, pod, svc,
                   destVars, lost, fault>>

WatchClosed ==
    /\ main = "wait"
    /\ main' = "cleanup"
    /\ fault' = (fault \/ pod # "Gone")
    /\ UNCHANGED <<boot, closer, ckVars, upVars, fsVars, extVars, lost>>
-----------------------------------------------------------------------------
(* Stage 3: main ranges over migratedCheckpoints, which is unbuffered       *)
(* because len(checkpoints) is 0, and clears the folder for what it gets.   *)

(* Variant: stage 3 clears the folder without a message from stage 2. *)
RemoveUnasked ==
    /\ main = "cleanup"
    /\ main' = "removing"
    /\ UNCHANGED <<boot, closer, ckVars, upVars, fsVars, extVars, lost, fault>>

ReceiveMigrated ==
    /\ main = "cleanup" /\ stage2 = "send"
    /\ main' = "removing"
    /\ stage2' = "done"
    /\ UNCHANGED <<boot, closer, ckVars, toStat, postVars, fsVars, extVars,
                   lost, fault>>

RemoveMigrated ==
    /\ main = "removing"
    /\ main' = "cleanup"
    /\ \E ok \in BOOLEAN : RemoveAll(ok)
    /\ UNCHANGED <<boot, closer, ckVars, upVars, extVars, lost>>

(* wg.Wait, close(migratedCheckpoints) *)
CloseMigrated ==
    /\ closer = "waiting" /\ stage2 \in {"none", "done"}
    /\ closer' = "closed"
    /\ UNCHANGED <<boot, main, ckVars, upVars, fsVars, extVars, lost, fault>>

(* Variant: the loop over migratedCheckpoints is left before its close. *)
ReturnsBeforeClose ==
    /\ main = "cleanup"
    /\ main' = "done"
    /\ UNCHANGED <<boot, closer, ckVars, upVars, fsVars, extVars, lost, fault>>

MigrateReturns ==
    /\ main = "cleanup" /\ closer = "closed"
    /\ main' = "done"
    /\ UNCHANGED <<boot, closer, ckVars, upVars, fsVars, extVars, lost, fault>>
-----------------------------------------------------------------------------
(* The end of the process, with every goroutine, and its next start.        *)

Die ==
    /\ main' = "dead" /\ closer' = "none"
    /\ stage1' = "none" /\ toCheckpoint' = {} /\ checkpointing' = {}
    /\ stage2' = "none" /\ toStat' = {} /\ toPost' = {} /\ posting' = {}
    /\ fault' = TRUE
    /\ UNCHANGED <<boot, fsVars, extVars, lost>>

(* GetDummyServiceIPAndPort indexes the ports of the Service it got, and of *)
(* the empty one it has after an error: Ports[0] panics.                    *)
ServicePanics ==
    /\ stage2 = "service"
    /\ Die

(* When Watch fails, `defer w.Stop()' dereferences a nil watch.Interface.   *)
WatchPanics ==
    /\ main = "watch"
    /\ Die

Killed ==
    /\ main # "dead"
    /\ Die

Restart ==
    /\ main = "dead" /\ boot < MaxBoots
    /\ boot' = boot + 1
    /\ main' = "poll"
    /\ UNCHANGED <<closer, ckVars, upVars, fsVars, extVars, lost, fault>>
-----------------------------------------------------------------------------
(* handleFile, in the dummy pod of the other cluster.                       *)

(* An error before os.Create has succeeded. *)
HandlerRejects(f) ==
    /\ f \in received
    /\ received' = received \ {f}
    /\ fault' = TRUE
    /\ UNCHANGED <<boot, mainVars, ckVars, upVars, fsVars, kletVars, apiVars,
                   copying, stored, partial, lost>>

HandlerCreates(f) ==
    /\ f \in received
    /\ received' = received \ {f}
    /\ copying' = copying \cup {f}
    /\ UNCHANGED <<boot, mainVars, ckVars, upVars, fsVars, kletVars, apiVars,
                   stored, partial, lost, fault>>

HandlerCopies(f) ==
    /\ f \in copying
    /\ copying' = copying \ {f}
    /\ \/ stored' = stored \cup {f} /\ UNCHANGED <<partial, fault>>
       \/ partial' = partial \cup {f} /\ fault' = TRUE /\ UNCHANGED stored
    /\ UNCHANGED <<boot, mainVars, ckVars, upVars, fsVars, kletVars, apiVars,
                   received, lost>>
-----------------------------------------------------------------------------
(* External: the kubelet and the API server. *)

(* The kubelet knows the containers of the pod while the pod is there.      *)
KubeletWrites(f) ==
    /\ f \in kubelet
    /\ f[1] \in Own /\ pod # "Gone" /\ exists
    /\ kubelet' = kubelet \ {f}
    /\ taken' = taken \cup {f}
    /\ dir' = dir \cup {f}
    /\ UNCHANGED <<boot, mainVars, ckVars, upVars, exists, apiVars, destVars,
                   lost, fault>>

KubeletRefuses(f) ==
    /\ f \in kubelet
    /\ kubelet' = kubelet \ {f}
    /\ fault' = (fault \/ f[1] \in Own)
    /\ UNCHANGED <<boot, mainVars, ckVars, upVars, fsVars, taken, apiVars,
                   destVars, lost>>

PodGone ==
    /\ pod = "Terminating"
    /\ pod' = "Gone"
    /\ deleted' = (main = "wait")
    /\ UNCHANGED <<boot, mainVars, ckVars, upVars, fsVars, kletVars, svc,
                   destVars, lost, fault>>

(* dummy-service is created on the other cluster and reflected here. *)
ServiceAppears ==
    /\ ~svc
    /\ svc' = TRUE
    /\ UNCHANGED <<boot, mainVars, ckVars, upVars, fsVars, kletVars, pod,
                   deleted, destVars, lost, fault>>
-----------------------------------------------------------------------------
Operator ==
    \/ PollFound \/ PollError \/ PrintContainerIDs
    \/ ClearFolder \/ MkdirAll \/ CheckpointsWaited \/ Chown
    \/ \E c \in Containers : \/ CheckpointPost(c)
                             \/ CheckpointAnswered(c)
                             \/ CheckpointLost(c)
    \/ SendCheckpoints \/ RangeEnds
    \/ ReadDir \/ ServiceFound \/ ServicePanics
    \/ \E f \in toStat : UploadInfo(f)
    \/ \E f \in toPost : Post(f)
    \/ \E f \in posting : PostAnswered(f) \/ PostLost(f)
    \/ TouchDummy \/ DummyPosted
    \/ DeletePod \/ WatchPod \/ WatchPanics \/ WaitDeleted \/ WatchClosed
    \/ ReceiveMigrated \/ RemoveMigrated \/ CloseMigrated \/ MigrateReturns

FileHandler ==
    \/ \E f \in received : HandlerRejects(f) \/ HandlerCreates(f)
    \/ \E f \in copying : HandlerCopies(f)

Cluster ==
    \/ \E f \in kubelet : KubeletWrites(f) \/ KubeletRefuses(f)
    \/ PodGone

Next == Operator \/ FileHandler \/ Cluster \/ ServiceAppears \/ Killed \/ Restart

Spec == Init /\ [][Next]_vars

(* Go runs every runnable goroutine, curl and the HTTP servers answer or    *)
(* fail, the kubelet ends a terminating pod, the API server ends a watch.   *)
(* Nothing is assumed of kills, of restarts or of the other cluster.        *)
FairSpec ==
    Spec /\ WF_vars(Operator) /\ WF_vars(FileHandler) /\ WF_vars(Cluster)
-----------------------------------------------------------------------------
(* Properties. *)

(* The marker comes last.  Once the marker of a boot has reached the file   *)
(* handler, which is what starts a restore, no archive of that boot is      *)
(* still to be posted, being received or being written, unless its sender   *)
(* gave up on an answer (wg.Wait before the touch and post of "dummy" in    *)
(* MigrateCheckpointParallelized).                                          *)
MarkerLast ==
    \A m \in Arrived : m[1] = Dummy =>
        \A f \in toStat \cup toPost \cup posting \cup InFlight :
            f[1] # Dummy /\ f[2] = m[2] => f \in lost

(* Nothing that was in the checkpoints folder before the operator first     *)
(* started is ever sent to the other cluster: stage 1 returns when          *)
(* os.RemoveAll fails, so what stage 2 reads was written after a complete   *)
(* clearing, whatever crashed before.                                       *)
NoStaleShipped == \A f \in Arrived : f[2] # 0

(* Stage 3 never takes a file from under an upload: as long as a goroutine  *)
(* is about to stat or to post an archive, the archive is in the folder     *)
(* (migratedCheckpoints is sent to only after all uploads ended).           *)
UploadsFindFiles == toStat \cup (toPost \ {Marker}) \subseteq dir

(* The pod is asked to terminate only when every checkpoint request of this *)
(* boot that was not given up has been answered by the kubelet: main leaves *)
(* the loop over `checkpoints' only after stage 1 has closed it.            *)
DeleteWaitsForCheckpoints ==
    [][pod = "Running" /\ pod' # "Running" =>
          \A f \in kubelet : f[2] = boot => f \in lost]_vars

(* MigratePodPipelined leaves no goroutine behind: when it has returned,    *)
(* stages 1 and 2 and all their workers have ended and no channel operation *)
(* is pending.                                                              *)
NoGoroutineLeft ==
    main = "done" =>
        /\ stage1 = "done" /\ checkpointing = {}
        /\ stage2 \in {"none", "done"}
        /\ toStat = {} /\ toPost = {} /\ posting = {}

(* What a migration is for: if no call failed on the way, then by the time  *)
(* MigratePodPipelined returns the other cluster has a complete archive of  *)
(* every container of the pod and the marker, the pod is gone here, and the *)
(* folder is gone with all archives.                                        *)
FaultlessRunShips ==
    main = "done" /\ ~fault =>
        /\ \A c \in Own : Archive(c) \in stored
        /\ Marker \in stored
        /\ pod = "Gone"
        /\ ~exists /\ dir = {}

(* A migration that has begun ends: MigratePodPipelined returns, or the     *)
(* process dies.  No order of stages, answers and pod events leaves two     *)
(* goroutines waiting for each other on the unbuffered channels.            *)
MigrationEnds == main = "list" ~> main \in {"done", "dead"}

(* The destination's folder, as the restore sees it. *)
Folder == INSTANCE Delivery WITH
    Archives <- Containers \X (0..MaxBoots),
    Markers  <- {Dummy} \X (0..MaxBoots),
    MarkerOf <- [f \in Containers \X (0..MaxBoots) |-> <<Dummy, f[2]>>],
    open     <- copying,
    present  <- copying \cup stored \cup partial,
    late     <- lost

(* The source keeps the promise that the restore relies on: whatever dies,  *)
(* fails or comes late, the file handler creates the files of each start in *)
(* the order of Delivery, archives first and closed, then their marker.     *)
DeliversInOrder == Folder!Spec

(* migrate.go:254 calls what it terminates the "checkpointed pod": a pod    *)
(* that the operator has asked to terminate has had each of its containers  *)
(* checkpointed.                                                            *)
TerminatedPodIsCheckpointed ==
    pod # "Running" => \A c \in Own : \E f \in taken : f[1] = c
=============================================================================
