------------------------------ MODULE Restore ------------------------------
(***************************************************************************)
(* The destination side of a migration: the goroutine of Reconcile that    *)
(* watches /checkpoints/, and BuildahRestorePipelined with processFile,    *)
(* which it calls when a file with "dummy" in its name is created: the     *)
(* marker, or an archive that happens to have it there.  The buildah       *)
(* commands, the API server and the uploads that fill the folder are       *)
(* external.                                                               *)
(*                                                                         *)
(* Archives are numbered in the order of their names, which is the order   *)
(* in which os.ReadDir returns them.  A name is                            *)
(*     checkpoint-<pod>_<namespace>-<container>-<timestamp>.tar            *)
(* so of two archives of one container the newer one has the larger        *)
(* number, and "dummy" comes after all of them.                            *)
(*                                                                         *)
(* The folder is filled as Delivery says and MigratePipeline implements it:*)
(* when the marker is created no archive is being written, but for the     *)
(* archives in Late, whose sender gave up or that belong to a later start  *)
(* of the source operator.                                                 *)
(***************************************************************************)
EXTENDS Naturals, Sequences

CONSTANTS N,         \* how many archives may ever be uploaded
          Tags,      \* image tags
          Tag,       \* RetrieveContainerName of each archive
          Late,      \* archives that keep no order with the marker
          DummyNamed,\* archives with "dummy" in the name of their pod,
                     \* namespace or container
          MaxBoots   \* bound: how often the operator is started

Archives == 1..N
Dummy    == N + 1
Files    == 1..(N + 1)

ASSUME RestoreAssumption ==
    /\ N \in Nat
    /\ Tag \in [Archives -> Tags]
    /\ Late \subseteq Archives /\ DummyNamed \subseteq Archives
    /\ MaxBoots \in Nat \ {0}

VARIABLES
    boot,       \* the current incarnation of the operator
    disk,       \* the state of each file of /checkpoints/
    watching,   \* whether watcher.Add has succeeded
    events,     \* Create events the watcher has still to deliver
    pc,         \* where the watching goroutine is
    listed,     \* the files getFiles returned
    todo,       \* those of them the loop has not begun yet
    cur,        \* the archive processFile works on
    results,    \* how many strings are in the channel `results'
    failed,     \* how many of its commands that send to `results' failed
    named,      \* whether newContainer is a name, not the empty string
    content,    \* what buildah add put into the working container
    builders,   \* archives whose (latest) working container exists
    kept,       \* those whose removal failed or was cut off by a death
    images,     \* what the image of each tag was made of
    containers, \* the variable `containers' of BuildahRestorePipelined
    pod,        \* the containers of the pod that was restored
    fault       \* whether any call has failed so far

runVars  == <<listed, todo>>
fileVars == <<cur, results, failed, named, content>>
storVars == <<builders, kept, images>>
podVars  == <<containers, pod>>
watVars  == <<watching, events>>
vars     == <<boot, disk, watVars, pc, runVars, fileVars, storVars, podVars,
              fault>>

(* Variant: room for one message only. *)
SmallCapacity == 1

Capacity == 2  \* make(chan string, 2)

Nothing  == [file |-> 0, read |-> "absent"]
Contents == [file : Archives \cup {0}, read : {"absent", "open", "closed"}]

InFile  == {"chmod", "from", "add", "config", "commit", "rm"}

TypeOK ==
    /\ boot \in Nat \ {0}
    /\ disk \in [Files -> {"absent", "open", "closed"}]
    /\ watching \in BOOLEAN
    /\ events \in Seq(Files)
    /\ pc \in InFile \cup {"select", "list", "loop", "blocked", "dead"}
    /\ listed \subseteq Files /\ todo \subseteq listed
    /\ cur \in Archives \cup {0}
    /\ results \in 0..Capacity
    /\ failed \in Nat
    /\ named \in BOOLEAN
    /\ content \in Contents
    /\ builders \subseteq Archives /\ kept \subseteq Archives
    /\ images \in [Tags -> Contents]
    /\ containers \subseteq Archives /\ pod \subseteq Archives
    /\ fault \in BOOLEAN

Init ==
    /\ boot = 1
    /\ disk = [f \in Files |-> "absent"]
    /\ watching = FALSE /\ events = <<>>
    /\ pc = "select"
    /\ listed = {} /\ todo = {}
    /\ cur = 0 /\ results = 0 /\ failed = 0 /\ named = FALSE /\ content = Nothing
    /\ builders = {} /\ kept = {} /\ images = [t \in Tags |-> Nothing]
    /\ containers = {} /\ pod = {}
    /\ fault = FALSE
-----------------------------------------------------------------------------
(* The watching goroutine.  Its third case, ctx.Done(), never comes: the    *)
(* Reconcile that would cancel the context waits for channels nobody uses.  *)

(* watcher.Add("/checkpoints/"): what was created before is never reported. *)
AddWatcher ==
    /\ pc # "dead" /\ ~watching
    /\ watching' = TRUE
    /\ UNCHANGED <<boot, disk, events, pc, runVars, fileVars, storVars, podVars,
                   fault>>

(* Variant: any new file starts a restore. *)
HandleAnyEvent ==
    /\ pc = "select" /\ events # <<>>
    /\ pc' = "list"
    /\ events' = Tail(events)
    /\ UNCHANGED <<boot, disk, watching, runVars, fileVars, storVars, podVars,
                   fault>>

(* Variant: the name of the marker is not recognised. *)
HandleNoEvent ==
    /\ pc = "select" /\ events # <<>>
    /\ events' = Tail(events)
    /\ UNCHANGED <<boot, disk, watching, pc, runVars, fileVars, storVars,
                   podVars, fault>>

(* strings.Contains(event.Name, "dummy") *)
HandleEvent ==
    /\ pc = "select" /\ events # <<>>
    /\ pc' = IF Head(events) \in DummyNamed \cup {Dummy} THEN "list" ELSE "select"
    /\ events' = Tail(events)
    /\ UNCHANGED <<boot, disk, watching, runVars, fileVars, storVars, podVars,
                   fault>>
-----------------------------------------------------------------------------
(* BuildahRestorePipelined *)

(* getFiles goes on with what os.ReadDir returned before an error.  The pod *)
(* name is that of the first file; "dummy" has none, which is an error.     *)
ListFiles ==
    /\ pc = "list"
    /\ \E files \in SUBSET {f \in Files : disk[f] # "absent"} :
        /\ files # {}
        /\ listed' = files /\ todo' = files
        /\ pc' = IF files = {Dummy} THEN "select" ELSE "loop"
        /\ fault' = (fault \/ \E f \in Files \ files : disk[f] # "absent")
    /\ containers' = {}
    /\ UNCHANGED <<boot, disk, watVars, fileVars, storVars, pod>>

(* Variant: the files come in no order. *)
AnyNextFile ==
    /\ pc = "loop"
    /\ \E f \in todo :
        /\ todo' = todo \ {f}
        /\ IF f = Dummy THEN UNCHANGED <<pc, cur>>
                        ELSE pc' = "chmod" /\ cur' = f
    /\ results' = 0 /\ failed' = 0 /\ named' = FALSE /\ content' = Nothing
    /\ UNCHANGED <<boot, disk, watVars, listed, storVars, podVars, fault>>

(* Variant: the marker is processed like an archive. *)
DummyNotSkipped ==
    /\ pc = "loop"
    /\ \E f \in todo :
        /\ \A g \in todo : f <= g
        /\ todo' = todo \ {f}
        /\ pc' = "chmod" /\ cur' = f
    /\ results' = 0 /\ failed' = 0 /\ named' = FALSE /\ content' = Nothing
    /\ UNCHANGED <<boot, disk, watVars, listed, storVars, podVars, fault>>

(* The loop goes through the files in order; processFile skips "dummy".     *)
NextFile ==
    /\ pc = "loop"
    /\ \E f \in todo :
        /\ \A g \in todo : f <= g
        /\ todo' = todo \ {f}
        /\ IF f = Dummy THEN UNCHANGED <<pc, cur>>
                        ELSE pc' = "chmod" /\ cur' = f
    /\ results' = 0 /\ failed' = 0 /\ named' = FALSE /\ content' = Nothing
    /\ UNCHANGED <<boot, disk, watVars, listed, storVars, podVars, fault>>

(* An error of processFile ends the restore. *)
Chmod ==
    /\ pc = "chmod"
    /\ \/ pc' = "from" /\ UNCHANGED fault
       \/ pc' = "select" /\ fault' = TRUE
    /\ UNCHANGED <<boot, disk, watVars, runVars, fileVars, storVars, podVars>>

(* A command went well, or its failure is sent to `results', which nobody   *)
(* receives from: a send to the full channel blocks for good.               *)
Succeed(next) ==
    /\ pc' = next
    /\ UNCHANGED <<results, failed, fault>>

Fail(next) ==
    /\ failed' = failed + 1
    /\ fault' = TRUE
    /\ IF results < Capacity THEN results' = results + 1 /\ pc' = next
                             ELSE UNCHANGED results /\ pc' = "blocked"

(* buildah from scratch: without it the later commands name no container    *)
(* and fail.  Of the containers of an archive the latest one counts.        *)
BuildahFrom ==
    /\ pc = "from"
    /\ \/ /\ Succeed("add") /\ named' = TRUE
          /\ builders' = builders \cup {cur} /\ kept' = kept \ {cur}
       \/ Fail("add") /\ UNCHANGED <<named, builders, kept>>
    /\ UNCHANGED <<boot, disk, watVars, runVars, cur, content, images, podVars>>

BuildahAdd ==
    /\ pc = "add"
    /\ \/ /\ named
          /\ content' = [file |-> cur, read |-> disk[cur]]
          /\ Succeed("config")
       \/ Fail("config") /\ UNCHANGED content
    /\ UNCHANGED <<boot, disk, watVars, runVars, cur, named, storVars, podVars>>

(* Variant: a failure returns at once, without buildah rm. *)
ConfigFailureReturns ==
    /\ pc = "config"
    /\ \/ named /\ Succeed("commit")
       \/ Fail("loop")
    /\ UNCHANGED <<boot, disk, watVars, runVars, cur, named, content, storVars,
                   podVars>>

BuildahConfig ==
    /\ pc = "config"
    /\ \/ named /\ Succeed("commit")
       \/ Fail("commit")
    /\ UNCHANGED <<boot, disk, watVars, runVars, cur, named, content, storVars,
                   podVars>>

(* What was added is committed, and nothing if that failed. *)
BuildahCommit ==
    /\ pc = "commit"
    /\ \/ named /\ Succeed("rm") /\ images' = [images EXCEPT ![Tag[cur]] = content]
       \/ Fail("rm") /\ UNCHANGED images
    /\ UNCHANGED <<boot, disk, watVars, runVars, cur, named, content, builders,
                   kept, podVars>>

(* buildah rm, whose failure is only logged, and the last send, which needs *)
(* a place in the channel too.  The list that processFile returns goes to a *)
(* variable of the `if' inside the loop, not to `containers'.               *)
BuildahRm ==
    /\ pc = "rm"
    /\ \/ named /\ builders' = builders \ {cur} /\ UNCHANGED <<kept, fault>>
       \/ kept' = kept \cup (builders \cap {cur}) /\ fault' = TRUE /\ UNCHANGED builders
    /\ IF results < Capacity THEN results' = results + 1 /\ pc' = "loop"
                             ELSE UNCHANGED results /\ pc' = "blocked"
    /\ UNCHANGED <<boot, disk, watVars, runVars, cur, failed, named, content,
                   images, podVars>>

(* The API server takes no pod without containers. *)
CreatePod ==
    /\ pc = "loop" /\ todo = {}
    /\ pod' = IF pod = {} THEN containers ELSE pod
    /\ pc' = "select"
    /\ UNCHANGED <<boot, disk, watVars, runVars, fileVars, storVars, containers,
                   fault>>
-----------------------------------------------------------------------------
(* The end of the process and its next start. *)

Die ==
    /\ pc' = "dead"
    /\ watching' = FALSE /\ events' = <<>>
    /\ kept' = kept \cup builders
    /\ listed' = {} /\ todo' = {} /\ containers' = {}
    /\ cur' = 0 /\ results' = 0 /\ failed' = 0 /\ named' = FALSE /\ content' = Nothing
    /\ fault' = TRUE
    /\ UNCHANGED <<boot, disk, builders, images, pod>>

(* files[0] of an empty list. *)
ListPanics == pc = "list" /\ Die

Killed == pc # "dead" /\ Die

Restart ==
    /\ pc = "dead" /\ boot < MaxBoots
    /\ boot' = boot + 1
    /\ pc' = "select"
    /\ UNCHANGED <<disk, watVars, runVars, fileVars, storVars, podVars, fault>>
-----------------------------------------------------------------------------
(* External: the file handler writes into the folder.  os.Create reports a  *)
(* Create event only for a file that was not there.                         *)

(* The order of the uploads is what MigratePipeline is shown to implement.  *)
Folder == INSTANCE Delivery WITH
    Markers  <- {Dummy},
    MarkerOf <- [f \in Archives |-> Dummy],
    open     <- {f \in Files : disk[f] = "open"},
    present  <- {f \in Files : disk[f] # "absent"},
    late     <- Late

UploadCreates(f) ==
    /\ disk[f] = "absent" \/ (f = Dummy /\ disk[f] # "open")
    /\ Folder!MayCreate(f)
    /\ disk' = [disk EXCEPT ![f] = "open"]
    /\ events' = IF watching /\ disk[f] = "absent" THEN Append(events, f) ELSE events
    /\ UNCHANGED <<boot, watching, pc, runVars, fileVars, storVars, podVars, fault>>

UploadEnds(f) ==
    /\ disk[f] = "open"
    /\ disk' = [disk EXCEPT ![f] = "closed"]
    /\ UNCHANGED fault \/ fault' = TRUE
    /\ UNCHANGED <<boot, watVars, pc, runVars, fileVars, storVars, podVars>>
-----------------------------------------------------------------------------
Operator ==
    \/ HandleEvent \/ ListFiles \/ ListPanics \/ NextFile \/ Chmod
    \/ BuildahFrom \/ BuildahAdd \/ BuildahConfig \/ BuildahCommit \/ BuildahRm
    \/ CreatePod

Uploads == \E f \in Files : UploadCreates(f) \/ UploadEnds(f)

Next == Operator \/ AddWatcher \/ Uploads \/ Killed \/ Restart

Spec == Init /\ [][Next]_vars

(* Go runs the goroutine while it can run, and buildah commands end. *)
FairSpec == Spec /\ WF_vars(Operator)

(* The call of watcher.Add, which comes after the goroutine has started, is *)
(* reached and succeeds.                                                    *)
WatchedSpec == FairSpec /\ WF_vars(AddWatcher)
-----------------------------------------------------------------------------
(* Properties. *)

(* processFile blocks only when two of the commands from, add, config and   *)
(* commit fail on one archive: one failure and the last message fit into    *)
(* the channel of capacity 2 that nobody reads.                             *)
HangsOnlyAfterTwoFailures == pc = "blocked" => failed >= 2

(* The folder is never cleaned, so archives of earlier migrations of a      *)
(* container are processed as well.  While no call fails, the image of a    *)
(* container is made of the newest of its archives seen so far, and in the  *)
(* end of the newest that was listed: the loop takes them in name order.    *)
NewestArchiveWins ==
    pc \in {"loop", "chmod"} /\ ~fault =>
        \A f \in listed \ (todo \cup {Dummy}) : pc = "loop" \/ f # cur =>
            \E g \in listed \ todo :
                g >= f /\ Tag[g] = Tag[f] /\ images[Tag[f]].file = g

(* One error path of processFile leaks a working container, and no other:   *)
(* when add, config and commit all fail, the third send finds the channel   *)
(* full and blocks, and buildah rm is never reached.  Any other container   *)
(* that is left belongs to the archive being processed, or its buildah rm   *)
(* failed, or the process died over it.                                     *)
BuildersRemoved ==
    \A f \in builders \ kept :
        /\ f = cur
        /\ pc \in {"add", "config", "commit", "rm"} \/ (pc = "blocked" /\ failed = 3)

(* A restore never builds an image from an archive that is still being      *)
(* written, unless that archive came out of order, or one with "dummy" in   *)
(* its name is in the folder: its creation is taken for the marker and      *)
(* starts a restore in the middle of the uploads (livemigration.go:156).    *)
AddsWholeArchives ==
    \A t \in Tags : images[t].read = "open" =>
        images[t].file \in Late \/ \E f \in DummyNamed : disk[f] # "absent"

(* A restore returns, or the process dies, unless two commands failed on    *)
(* one archive.                                                             *)
RestoreEnds == pc = "list" ~> pc \in {"select", "dead"} \/ failed >= 2

(* The creation of the marker, once reported, is acted upon: a restore      *)
(* begins, unless an earlier one hangs or the process dies.                 *)
MarkerStartsRestore ==
    (\E i \in 1..Len(events) : events[i] = Dummy)
        ~> pc \in {"list", "blocked", "dead"}

(* livemigration.go:212: "Wait for either the file or the sourcePod to be   *)
(* detected".  If a marker ever comes to /checkpoints/ while the operator   *)
(* runs, a restore begins at some time, unless the operator dies.           *)
MarkerDetected ==
    <>(disk[Dummy] # "absent") => <>(pc \in {"list", "dead"})

(* livemigration.go:271: "processFile processes the given file and returns  *)
(* a list of containers, pod name, or an error."                            *)
ProcessFileReturns == pc = "chmod" ~> pc \in {"loop", "select", "dead"}

(* restore.go:225: "Create the Pod".  When the loop over the files has      *)
(* ended and nothing failed, a pod is created of the listed archives.       *)
LoopCreatesPod ==
    [][pc = "loop" /\ pc' = "select" /\ ~fault => pod' # {}]_vars
=============================================================================
