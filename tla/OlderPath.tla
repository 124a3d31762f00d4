----------------------------- MODULE OlderPath ------------------------------
(***************************************************************************)
(* The sequential migration, MigratePod with CheckpointPodCrio, from the   *)
(* source pod to the restored one: its archives go through the file        *)
(* handler to BuildahRestore or to BuildahRestoreParallelized.             *)
(*                                                                         *)
(* MigratePod shares its helpers with MigratePodPipelined, and so does     *)
(* this module its actions with MigratePipeline; here they run one after   *)
(* the other.  Reconcile calls neither MigratePod nor the two restores;    *)
(* they are taken to be called where it calls the pipelined ones.          *)
(*                                                                         *)
(* The commands of a restore on one archive work on a container of their   *)
(* own and are one step; what they leave behind in buildah is not kept.    *)
(* The source operator is started once.                                    *)
(***************************************************************************)
EXTENDS MigratePipeline

CONSTANT Stale   \* bound: files that may be in the folder before the migration

ASSUME StaleAssumption == Stale \subseteq Names \X {0}

VARIABLES
    restorer,   \* the restore that is called
    rst,        \* where it is
    toRestore,  \* files it has still to process
    appending,  \* workers in append: <<file, containersList as read, tmpList>>
    list,       \* containersList, as the archives its containers come from
    podName,    \* the variable podName
    images,     \* archives that have been committed as images
    unwhole,    \* those of them that were not completely written
    copy,       \* containers of the pod that was created, as archives
    raced       \* whether an append has overwritten another

rstVars  == <<rst, toRestore, appending, list, podName, images, unwhole, copy, raced>>
srcVars  == <<boot, mainVars, ckVars, upVars, fsVars, kletVars, apiVars, destVars, lost>>
allVars  == <<vars, restorer, rstVars>>

Sequential == "BuildahRestore"
Parallel   == "BuildahRestoreParallelized"

OlderTypeOK ==
    /\ TypeOK
    /\ restorer \in {Sequential, Parallel}
    /\ rst \in {"idle", "list", "files", "hung", "returned", "crashed"}
    /\ toRestore \subseteq Entry /\ list \subseteq Entry
    /\ \A w \in appending : w[1] \in Entry /\ w[2] \cup w[3] \subseteq Entry
    /\ podName \in {"", "pod", "dummy"}
    /\ unwhole \subseteq images /\ copy \subseteq list
    /\ raced \in BOOLEAN

OlderInit ==
    /\ Init /\ dir \subseteq Stale
    /\ restorer \in {Sequential, Parallel}
    /\ rst = "idle" /\ toRestore = {} /\ appending = {}
    /\ list = {} /\ podName = "" /\ images = {} /\ unwhole = {}
    /\ copy = {} /\ raced = FALSE
-----------------------------------------------------------------------------
(* MigratePod *)

MigrateReturnsWith(ok) ==
    /\ main' = "done" /\ stage1' = "done"
    /\ fault' = (fault \/ ~ok)

(* A failure of os.RemoveAll is logged. *)
ClearPath == ClearFolderGoesOn

(* That of MkdirAll ends the migration. *)
MkdirPath ==
    /\ stage1 = "mkdir"
    /\ \/ exists' = TRUE /\ stage1' = "checkpoint" /\ UNCHANGED <<main, fault>>
       \/ UNCHANGED exists /\ MigrateReturnsWith(FALSE)
    /\ UNCHANGED <<boot, closer, reqVars, upVars, dir, extVars, lost>>

(* CheckpointPodCrio: one request after the other. *)
CheckpointPodCrio(c) == checkpointing = {} /\ CheckpointPost(c)

(* Variant: the pod is not terminated. *)
ChownAndReadDir ==
    /\ stage1 = "chown"
    /\ stage1' = "done" /\ main' = "cleanup"
    /\ UNCHANGED <<boot, closer, reqVars, upVars, fsVars, extVars, lost, fault>>

(* A failure of os.Chown is logged; TerminateCheckpointedPod comes next.    *)
ChownPath ==
    /\ stage1 = "chown"
    /\ stage1' = "done" /\ main' = "delete"
    /\ fault' \in {fault, TRUE}
    /\ UNCHANGED <<boot, closer, reqVars, upVars, fsVars, extVars, lost>>

(* With the pod terminated the folder is read; on an error it has no files, *)
(* and the marker is sent alone.                                            *)
ReadPath ==
    /\ main = "cleanup" /\ stage2 = "none"
    /\ stage2' = "service"
    /\ \/ exists /\ toStat' = dir /\ UNCHANGED fault
       \/ toStat' = {} /\ fault' = TRUE
    /\ UNCHANGED <<boot, mainVars, ckVars, postVars, fsVars, extVars, lost>>

(* Nothing is removed in the end. *)
MigratePodReturns ==
    /\ stage2 = "send"
    /\ main' = "done" /\ stage2' = "done"
    /\ UNCHANGED <<boot, closer, ckVars, toStat, postVars, fsVars, extVars, lost, fault>>

MigratePod ==
    \/ PollFound \/ PollError \/ PrintContainerIDs
    \/ ClearPath \/ MkdirPath \/ CheckpointsWaited \/ ChownPath
    \/ \E c \in Containers : \/ CheckpointPodCrio(c)
                             \/ CheckpointAnswered(c)
                             \/ CheckpointLost(c)
    \/ DeletePod \/ WatchPod \/ WatchPanics \/ WaitDeleted \/ WatchClosed
    \/ ReadPath \/ ServiceFound \/ ServicePanics
    \/ \E f \in toStat : UploadInfo(f)
    \/ \E f \in toPost : Post(f)
    \/ \E f \in posting : PostAnswered(f) \/ PostLost(f)
    \/ TouchDummy \/ DummyPosted \/ MigratePodReturns
-----------------------------------------------------------------------------
(* The restores.  `add' reads an archive whether or not it is whole.        *)

Present == copying \cup stored \cup partial

Commit(f) ==
    /\ images' = images \cup {f}
    /\ unwhole' = IF f \in stored THEN unwhole ELSE unwhole \cup {f}

(* External: the call, at the creation of the marker. *)
RestoreCalled ==
    /\ rst = "idle" /\ \E m \in Present : m[1] = Dummy
    /\ rst' = "list"
    /\ UNCHANGED <<toRestore, appending, list, podName, images, unwhole, copy, raced,
                   srcVars, fault>>

(* os.ReadDir, which on an error returns what it has read.  BuildahRestore  *)
(* breaks its loop at "dummy", the last name in order.                      *)
ReadFiles ==
    /\ rst = "list" /\ rst' = "files"
    /\ \E files \in SUBSET Present :
        /\ fault' = (fault \/ files # Present)
        /\ toRestore' = IF restorer = Parallel THEN files
                        ELSE {f \in files : f[1] # Dummy}
    /\ UNCHANGED <<appending, list, podName, images, unwhole, copy, raced, srcVars>>

(* BuildahRestore on one archive: a failure of chmod, from, add or config   *)
(* ends the restore, one of commit or rm is logged.                         *)
RestoreFile(f) ==
    /\ restorer = Sequential /\ rst = "files"
    /\ \/ /\ rst' = "returned" /\ fault' = TRUE
          /\ UNCHANGED <<toRestore, list, podName, images, unwhole>>
       \/ /\ toRestore' = toRestore \ {f}
          /\ list' = list \cup {f} /\ podName' = "pod"
          /\ \/ Commit(f) /\ fault' \in {fault, TRUE}
             \/ fault' = TRUE /\ UNCHANGED <<images, unwhole>>
          /\ UNCHANGED rst
    /\ UNCHANGED <<appending, copy, raced, srcVars>>

(* A worker of BuildahRestoreParallelized comes back from processFile (for  *)
(* which see Restore) and assigns podName, which all workers share.  Then   *)
(* append reads containersList.  A worker that hangs keeps wg.Wait waiting: *)
(* what the others still do is left out.                                    *)
WorkerProcesses(f) ==
    /\ restorer = Parallel /\ rst = "files"
    /\ toRestore' = toRestore \ {f}
    /\ \/ /\ f[1] = Dummy /\ podName' = "dummy"
          /\ appending' = appending \cup {<<f, list, {}>>}
          /\ UNCHANGED <<rst, images, unwhole, fault>>
       \/ /\ f[1] # Dummy /\ podName' = "pod"
          /\ appending' = appending \cup {<<f, list, {f}>>}
          /\ \/ Commit(f) /\ fault' \in {fault, TRUE}
             \/ fault' = TRUE /\ UNCHANGED <<images, unwhole>>
          /\ UNCHANGED rst
       \/ /\ f[1] # Dummy /\ podName' = ""       \* chmod failed: tmpList is nil
          /\ appending' = appending \cup {<<f, list, {}>>}
          /\ fault' = TRUE
          /\ UNCHANGED <<rst, images, unwhole>>
       \/ /\ f[1] # Dummy /\ rst' = "hung"       \* two commands failed
          /\ fault' = TRUE
          /\ UNCHANGED <<appending, podName, images, unwhole>>
    /\ UNCHANGED <<list, copy, raced, srcVars>>

(* The worker writes the list it has read, with its container: what others  *)
(* have written since is lost.  Stores of a slice that overlap may also be  *)
(* torn, and the list then has no valid memory.                             *)
WorkerAppends(w) ==
    /\ appending' = appending \ {w}
    /\ list' = w[2] \cup w[3]
    /\ raced' = (raced \/ list # w[2])
    /\ rst' \in {rst} \cup (IF appending' # {} THEN {"crashed"} ELSE {})
    /\ UNCHANGED <<toRestore, podName, images, unwhole, copy, srcVars, fault>>

(* The loop of BuildahRestore has ended, or wg.Wait has returned. *)
FilesDone == rst = "files" /\ toRestore = {} /\ appending = {}

(* Variant: no wg.Wait. *)
CreateUnwaited ==
    /\ rst = "files" /\ podName # "" /\ list # {}
    /\ rst' = "returned" /\ copy' = list
    /\ UNCHANGED <<toRestore, appending, list, podName, images, unwhole, raced, srcVars,
                   fault>>

(* Both: with all files done the pod is created.  The API server takes no   *)
(* pod without a name, without containers or with two of one name.          *)
CreateRestored ==
    /\ FilesDone
    /\ rst' = "returned"
    /\ \/ /\ podName # "" /\ list # {}
          /\ \A f, g \in list : f[1] = g[1] => f = g
          /\ copy' = list /\ UNCHANGED fault
       \/ fault' = TRUE /\ UNCHANGED copy
    /\ UNCHANGED <<toRestore, appending, list, podName, images, unwhole, raced, srcVars>>

Restorer ==
    \/ ReadFiles \/ CreateRestored
    \/ \E f \in toRestore : RestoreFile(f) \/ WorkerProcesses(f)
    \/ rst = "files" /\ \E w \in appending : WorkerAppends(w)
-----------------------------------------------------------------------------
Source ==
    /\ MigratePod \/ FileHandler \/ Cluster \/ ServiceAppears \/ Killed
    /\ UNCHANGED rstVars

OlderNext == (Source \/ RestoreCalled \/ Restorer) /\ UNCHANGED restorer

OlderSpec == OlderInit /\ [][OlderNext]_allVars
-----------------------------------------------------------------------------
(* Properties. *)

(* The pod is never on both clusters: without a failed call, the restored   *)
(* pod is created only when the source pod is gone.  MigratePod waits for   *)
(* the deletion before it uploads anything.                                 *)
NeverTwoPods == copy # {} /\ ~fault => pod = "Gone"

(* From pod to pod: if no call fails on either cluster and, in the parallel *)
(* restore, no append overwrites another, the restore returns with a pod of *)
(* all the containers, each with an image of its whole archive; the         *)
(* sequential restore also gives it its name.                               *)
FaultlessMigrationRestores ==
    rst = "returned" /\ ~fault /\ ~raced =>
        /\ copy = {Archive(c) : c \in Own}
        /\ copy \subseteq images /\ unwhole = {}
        /\ restorer = Sequential => podName = "pod"

(* Across both clusters an image is made of an incomplete archive only if   *)
(* the upload had failed or its sender had given up: the marker that calls  *)
(* the restore comes after all uploads.  The marker of an earlier migration *)
(* that MigratePod could not clear is an exception: it goes with the others. *)
ImagesAreWhole ==
    <<Dummy, 0>> \notin Present => unwhole \subseteq lost \cup partial
=============================================================================
