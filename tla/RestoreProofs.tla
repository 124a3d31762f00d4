--------------------------- MODULE RestoreProofs ---------------------------
(***************************************************************************)
(* Proofs about Restore, for any number of archives, any tags and any      *)
(* number of restarts.                                                     *)
(***************************************************************************)
EXTENDS Restore, TLAPS

Looping   == InFile \cup {"loop"}
Restoring == Looping \cup {"list"}

(* processFile works on an archive, never on the marker. *)
TypeInv == TypeOK /\ (pc \in InFile => cur \in Archives)

(* While it runs, processFile has sent one message per failed command.      *)
SendsInv ==
    /\ pc \in InFile => results = failed
    /\ pc \in {"chmod", "from"} => failed = 0
    /\ pc = "blocked" => failed >= 2

(* A working container that is not kept has seen at most one failure per    *)
(* command so far; the third one is that of commit.                         *)
BuildersInv ==
    /\ BuildersRemoved
    /\ builders \ kept # {} =>
           /\ pc = "add" => failed = 0
           /\ pc = "config" => failed <= 1
           /\ pc = "commit" => failed <= 2

(* A restore runs only after a file with "dummy" in its name was created.   *)
(* From the creation of the marker on, only archives that keep no order are *)
(* being written.                                                           *)
TakenForMarker == \E f \in DummyNamed : disk[f] # "absent"

OrderInv ==
    /\ \A i \in 1..Len(events) : disk[events[i]] # "absent"
    /\ pc \in Restoring => disk[Dummy] # "absent" \/ TakenForMarker
    /\ disk[Dummy] # "absent" => \A g \in Archives \ Late : disk[g] # "open"
    /\ content.read = "open" => content.file \in Late \/ TakenForMarker

(* The files that are done come before those that are left, and the current *)
(* one is the last that is done or begun.                                   *)
LoopInv ==
    /\ pc \in Looping => \A f \in listed \ todo, g \in todo : f <= g
    /\ pc \in InFile =>
           /\ cur \in listed \ todo
           /\ \A f \in listed \ todo : f <= cur

(* What a restore without failures has done for the current archive.        *)
CurrentInv ==
    ~fault =>
        /\ pc \in {"add", "config", "commit", "rm"} => named
        /\ pc \in {"config", "commit"} => content.file = cur
        /\ pc = "rm" => images[Tag[cur]].file = cur

(* What it has done for the archives before. *)
NewestInv ==
    pc \in Looping /\ ~fault =>
        \A f \in listed \ (todo \cup {Dummy}) : pc = "loop" \/ f # cur =>
            \E g \in listed \ todo :
                g >= f /\ Tag[g] = Tag[f] /\ images[Tag[f]].file = g

(* The inductive invariant. *)
IInv ==
    /\ TypeInv
    /\ SendsInv
    /\ BuildersInv
    /\ OrderInv
    /\ AddsWholeArchives
    /\ LoopInv
    /\ CurrentInv
    /\ NewestInv
-----------------------------------------------------------------------------
USE RestoreAssumption
USE DEF vars, runVars, fileVars, storVars, podVars, watVars

(* Archives are files, the marker is a file and no archive. *)
LEMMA FilesFacts ==
    /\ Archives \subseteq Files
    /\ Dummy \in Files /\ Dummy \notin Archives
    /\ Files \ {Dummy} = Archives
    /\ \A f, g \in Files : f <= g \/ g <= f
    /\ \A f \in Files : f \in Nat
    /\ 0 \notin Files
  BY DEF Archives, Files, Dummy

(* What the order of Delivery means in this folder, which has one marker. *)
LEMMA UploadOrder ==
    ASSUME NEW f \in Files, Folder!MayCreate(f)
    PROVE  /\ f \in Archives \ Late => disk[Dummy] = "absent"
           /\ f = Dummy => \A g \in Archives \ Late : disk[g] # "open"
  BY FilesFacts DEF Folder!MayCreate

(* An empty working container is a content. *)
LEMMA NothingInContents == Nothing \in Contents
  BY DEF Nothing, Contents

PcStates == InFile \cup {"select", "list", "loop", "blocked", "dead"}

(* What a command does to the channel, whether it fails or not. *)
LEMMA SendTypes ==
    ASSUME TypeOK, NEW next \in PcStates, Succeed(next) \/ Fail(next)
    PROVE  /\ pc' \in PcStates
           /\ results' \in 0..Capacity
           /\ failed' \in Nat
           /\ fault' \in BOOLEAN
  <1>1. CASE Succeed(next)
    BY <1>1 DEF Succeed, TypeOK, PcStates
  <1>2. CASE Fail(next)
    <2>1. pc' \in PcStates
      BY <1>2 DEF Fail, PcStates
    <2>2. results' \in 0..Capacity /\ failed' \in Nat
      BY <1>2 DEF Fail, TypeOK, Capacity
    <2>3. fault' \in BOOLEAN
      BY <1>2 DEF Fail
    <2> QED
      BY <2>1, <2>2, <2>3
  <1> QED
    BY <1>1, <1>2

(* Every step keeps the types. *)
LEMMA NextTypeOK == TypeInv /\ [Next]_vars => TypeInv'
  <1> SUFFICES ASSUME TypeInv, [Next]_vars PROVE TypeInv'
    OBVIOUS
  <1> USE DEF TypeInv, TypeOK, InFile, Capacity
  <1>1. CASE AddWatcher
    BY <1>1, FilesFacts, NothingInContents DEF AddWatcher
  <1>2. CASE HandleEvent
    BY <1>2, FilesFacts, NothingInContents DEF HandleEvent
  <1>3. CASE ListFiles
    BY <1>3, FilesFacts, NothingInContents DEF ListFiles
  <1>4. CASE ListPanics
    <2>1. watching' \in BOOLEAN /\ fault' \in BOOLEAN /\ named' \in BOOLEAN
      BY <1>4, FilesFacts DEF ListPanics, Die, PcStates
    <2>2. events' \in Seq(Files) /\ kept' \subseteq Archives /\ pc' \in PcStates
      BY <1>4, FilesFacts DEF ListPanics, Die, PcStates
    <2>3. cur' \in Archives \cup {0} /\ results' \in 0..Capacity /\ failed' \in Nat
      BY <1>4, FilesFacts DEF ListPanics, Die, PcStates
    <2> QED
      BY <1>4, <2>1, <2>2, <2>3, NothingInContents DEF ListPanics, Die, PcStates
  <1>5. CASE NextFile
    <2>1. pc' \in PcStates /\ todo' \subseteq listed
      BY <1>5, FilesFacts DEF NextFile, PcStates
    <2>2. cur' \in Archives \cup {0} /\ (pc' \in InFile => cur' \in Archives)
      BY <1>5, FilesFacts DEF NextFile, PcStates
    <2>3. results' \in 0..Capacity /\ failed' \in Nat
      BY <1>5, FilesFacts DEF NextFile, PcStates
    <2>4. named' \in BOOLEAN
      BY <1>5, FilesFacts DEF NextFile, PcStates
    <2> QED
      BY <1>5, <2>1, <2>2, <2>3, <2>4, NothingInContents DEF NextFile, PcStates
  <1>6. CASE Chmod
    BY <1>6, FilesFacts, NothingInContents DEF Chmod
  <1>7. CASE BuildahFrom
    <2>1. /\ pc' \in PcStates /\ results' \in 0..Capacity
          /\ failed' \in Nat /\ fault' \in BOOLEAN
      <3>1. Succeed("add") \/ Fail("add")
        BY <1>7 DEF BuildahFrom
      <3> QED
        BY <3>1, SendTypes DEF PcStates
    <2>2. named' \in BOOLEAN
      BY <1>7, FilesFacts DEF BuildahFrom, Contents
    <2>3. builders' \subseteq Archives /\ kept' \subseteq Archives
      BY <1>7, FilesFacts DEF BuildahFrom, Contents
    <2> QED
      BY <1>7, <2>1, <2>2, <2>3 DEF BuildahFrom, PcStates
  <1>8. CASE BuildahAdd
    <2>1. /\ pc' \in PcStates /\ results' \in 0..Capacity
          /\ failed' \in Nat /\ fault' \in BOOLEAN
      <3>1. Succeed("config") \/ Fail("config")
        BY <1>8 DEF BuildahAdd
      <3> QED
        BY <3>1, SendTypes DEF PcStates
    <2>2. content' \in Contents
      BY <1>8, FilesFacts DEF BuildahAdd, Contents
    <2> QED
      BY <1>8, <2>1, <2>2 DEF BuildahAdd, PcStates
  <1>9. CASE BuildahConfig
    <2>1. /\ pc' \in PcStates /\ results' \in 0..Capacity
          /\ failed' \in Nat /\ fault' \in BOOLEAN
      <3>1. Succeed("commit") \/ Fail("commit")
        BY <1>9 DEF BuildahConfig
      <3> QED
        BY <3>1, SendTypes DEF PcStates
    <2> QED
      BY <1>9, <2>1 DEF BuildahConfig, PcStates
  <1>10. CASE BuildahCommit
    <2>1. /\ pc' \in PcStates /\ results' \in 0..Capacity
          /\ failed' \in Nat /\ fault' \in BOOLEAN
      <3>1. Succeed("rm") \/ Fail("rm")
        BY <1>10 DEF BuildahCommit
      <3> QED
        BY <3>1, SendTypes DEF PcStates
    <2>2. images' \in [Tags -> Contents]
      <3>1. CASE images' = [images EXCEPT ![Tag[cur]] = content]
        BY <3>1
      <3> QED
        BY <1>10, <3>1 DEF BuildahCommit
    <2> QED
      BY <1>10, <2>1, <2>2 DEF BuildahCommit, PcStates
  <1>11. CASE BuildahRm
    <2>1. pc' \in PcStates /\ results' \in 0..Capacity
      BY <1>11, FilesFacts DEF BuildahRm, PcStates
    <2>2. builders' \subseteq Archives /\ kept' \subseteq Archives
      BY <1>11, FilesFacts DEF BuildahRm, PcStates
    <2>3. fault' \in BOOLEAN
      BY <1>11, FilesFacts DEF BuildahRm, PcStates
    <2> QED
      BY <1>11, <2>1, <2>2, <2>3, NothingInContents DEF BuildahRm, PcStates
  <1>12. CASE CreatePod
    BY <1>12, FilesFacts, NothingInContents DEF CreatePod
  <1>13. CASE Killed
    <2>1. watching' \in BOOLEAN /\ fault' \in BOOLEAN /\ named' \in BOOLEAN
      BY <1>13, FilesFacts DEF Killed, Die, PcStates
    <2>2. events' \in Seq(Files) /\ kept' \subseteq Archives /\ pc' \in PcStates
      BY <1>13, FilesFacts DEF Killed, Die, PcStates
    <2>3. cur' \in Archives \cup {0} /\ results' \in 0..Capacity /\ failed' \in Nat
      BY <1>13, FilesFacts DEF Killed, Die, PcStates
    <2> QED
      BY <1>13, <2>1, <2>2, <2>3, NothingInContents DEF Killed, Die, PcStates
  <1>14. CASE Restart
    BY <1>14, FilesFacts, NothingInContents DEF Restart
  <1>15. ASSUME NEW f \in Files, UploadCreates(f) PROVE TypeInv'
    BY <1>15, FilesFacts, NothingInContents DEF UploadCreates
  <1>16. ASSUME NEW f \in Files, UploadEnds(f) PROVE TypeInv'
    BY <1>16, FilesFacts, NothingInContents DEF UploadEnds
  <1>17. CASE UNCHANGED vars
    BY <1>17
  <1> QED
    BY <1>1, <1>2, <1>3, <1>4, <1>5, <1>6, <1>7, <1>8, <1>9, <1>10,
       <1>11, <1>12, <1>13, <1>14, <1>15, <1>16, <1>17
       DEF Next, Operator, Uploads
-----------------------------------------------------------------------------
(* Every step keeps the inductive invariant. *)
LEMMA NextIInv == IInv /\ [Next]_vars => IInv'
  <1> SUFFICES ASSUME IInv, [Next]_vars PROVE IInv'
    OBVIOUS
  <1>0. TypeInv'
    BY NextTypeOK DEF IInv
  <1> USE DEF IInv, SendsInv, BuildersInv, BuildersRemoved, OrderInv,
              TakenForMarker, AddsWholeArchives, LoopInv, CurrentInv,
              NewestInv, Looping, Restoring, InFile, Capacity, Nothing
  <1>1. CASE AddWatcher
    BY <1>0, <1>1, FilesFacts DEF AddWatcher, TypeInv, TypeOK
  <1>2. CASE HandleEvent
    <2>1. SendsInv'
      BY <1>0, <1>2, FilesFacts DEF HandleEvent, TypeInv, TypeOK
    <2>2. BuildersInv'
      BY <1>0, <1>2, FilesFacts DEF HandleEvent, TypeInv, TypeOK
    <2>3. OrderInv'
      BY <1>0, <1>2, FilesFacts DEF HandleEvent, TypeInv, TypeOK
    <2>4. AddsWholeArchives'
      BY <1>0, <1>2, FilesFacts DEF HandleEvent, TypeInv, TypeOK
    <2>5. LoopInv'
      BY <1>0, <1>2, FilesFacts DEF HandleEvent, TypeInv, TypeOK
    <2>6. CurrentInv'
      BY <1>0, <1>2, FilesFacts DEF HandleEvent, TypeInv, TypeOK
    <2>7. NewestInv'
      BY <1>0, <1>2, FilesFacts DEF HandleEvent, TypeInv, TypeOK
    <2> QED
      BY <1>0, <2>1, <2>2, <2>3, <2>4, <2>5, <2>6, <2>7
  <1>3. CASE ListFiles
    <2>1. SendsInv'
      BY <1>0, <1>3, FilesFacts DEF ListFiles, TypeInv, TypeOK
    <2>2. BuildersInv'
      BY <1>0, <1>3, FilesFacts DEF ListFiles, TypeInv, TypeOK
    <2>3. OrderInv'
      BY <1>0, <1>3, FilesFacts DEF ListFiles, TypeInv, TypeOK
    <2>4. AddsWholeArchives'
      BY <1>0, <1>3, FilesFacts DEF ListFiles, TypeInv, TypeOK
    <2>5. LoopInv'
      BY <1>0, <1>3, FilesFacts DEF ListFiles, TypeInv, TypeOK
    <2>6. CurrentInv'
      BY <1>0, <1>3, FilesFacts DEF ListFiles, TypeInv, TypeOK
    <2>7. NewestInv'
      BY <1>0, <1>3, FilesFacts DEF ListFiles, TypeInv, TypeOK
    <2> QED
      BY <1>0, <2>1, <2>2, <2>3, <2>4, <2>5, <2>6, <2>7
  <1>4. CASE ListPanics
    BY <1>0, <1>4, FilesFacts DEF ListPanics, Die, TypeInv, TypeOK
  <1>5. CASE NextFile
    <2>1. SendsInv'
      BY <1>0, <1>5, FilesFacts DEF NextFile, TypeInv, TypeOK
    <2>2. BuildersInv'
      BY <1>0, <1>5, FilesFacts DEF NextFile, TypeInv, TypeOK
    <2>3. OrderInv'
      BY <1>0, <1>5, FilesFacts DEF NextFile, TypeInv, TypeOK
    <2>4. AddsWholeArchives'
      BY <1>0, <1>5, FilesFacts DEF NextFile, TypeInv, TypeOK
    <2>5. LoopInv'
      BY <1>0, <1>5, FilesFacts DEF NextFile, TypeInv, TypeOK
    <2>6. CurrentInv'
      BY <1>0, <1>5, FilesFacts DEF NextFile, TypeInv, TypeOK
    <2>7. NewestInv'
      BY <1>0, <1>5, FilesFacts DEF NextFile, TypeInv, TypeOK
    <2> QED
      BY <1>0, <2>1, <2>2, <2>3, <2>4, <2>5, <2>6, <2>7
  <1>6. CASE Chmod
    BY <1>0, <1>6, FilesFacts DEF Chmod, TypeInv, TypeOK
  <1>7. CASE BuildahFrom
    <2>1. SendsInv'
      BY <1>0, <1>7, FilesFacts DEF BuildahFrom, Succeed, Fail, TypeInv, TypeOK
    <2>2. BuildersInv'
      BY <1>0, <1>7, FilesFacts DEF BuildahFrom, Succeed, Fail, TypeInv, TypeOK
    <2>3. OrderInv'
      BY <1>0, <1>7, FilesFacts DEF BuildahFrom, Succeed, Fail, TypeInv, TypeOK
    <2>4. AddsWholeArchives'
      BY <1>0, <1>7, FilesFacts DEF BuildahFrom, Succeed, Fail, TypeInv, TypeOK
    <2>5. LoopInv'
      BY <1>0, <1>7, FilesFacts DEF BuildahFrom, Succeed, Fail, TypeInv, TypeOK
    <2>6. CurrentInv'
      BY <1>0, <1>7, FilesFacts DEF BuildahFrom, Succeed, Fail, TypeInv, TypeOK
    <2>7. NewestInv'
      BY <1>0, <1>7, FilesFacts DEF BuildahFrom, Succeed, Fail, TypeInv, TypeOK
    <2> QED
      BY <1>0, <2>1, <2>2, <2>3, <2>4, <2>5, <2>6, <2>7
  <1>8. CASE BuildahAdd
    <2>1. SendsInv'
      BY <1>0, <1>8, FilesFacts DEF BuildahAdd, Succeed, Fail, TypeInv, TypeOK
    <2>2. BuildersInv'
      BY <1>0, <1>8, FilesFacts DEF BuildahAdd, Succeed, Fail, TypeInv, TypeOK
    <2>3. OrderInv'
      BY <1>0, <1>8, FilesFacts DEF BuildahAdd, Succeed, Fail, TypeInv, TypeOK
    <2>4. AddsWholeArchives'
      BY <1>0, <1>8, FilesFacts DEF BuildahAdd, Succeed, Fail, TypeInv, TypeOK
    <2>5. LoopInv'
      BY <1>0, <1>8, FilesFacts DEF BuildahAdd, Succeed, Fail, TypeInv, TypeOK
    <2>6. CurrentInv'
      BY <1>0, <1>8, FilesFacts DEF BuildahAdd, Succeed, Fail, TypeInv, TypeOK
    <2>7. NewestInv'
      BY <1>0, <1>8, FilesFacts DEF BuildahAdd, Succeed, Fail, TypeInv, TypeOK
    <2> QED
      BY <1>0, <2>1, <2>2, <2>3, <2>4, <2>5, <2>6, <2>7
  <1>9. CASE BuildahConfig
    <2>1. SendsInv'
      BY <1>0, <1>9, FilesFacts DEF BuildahConfig, Succeed, Fail, TypeInv, TypeOK
    <2>2. BuildersInv'
      BY <1>0, <1>9, FilesFacts DEF BuildahConfig, Succeed, Fail, TypeInv, TypeOK
    <2>3. OrderInv'
      BY <1>0, <1>9, FilesFacts DEF BuildahConfig, Succeed, Fail, TypeInv, TypeOK
    <2>4. AddsWholeArchives'
      BY <1>0, <1>9, FilesFacts DEF BuildahConfig, Succeed, Fail, TypeInv, TypeOK
    <2>5. LoopInv'
      BY <1>0, <1>9, FilesFacts DEF BuildahConfig, Succeed, Fail, TypeInv, TypeOK
    <2>6. CurrentInv'
      BY <1>0, <1>9, FilesFacts DEF BuildahConfig, Succeed, Fail, TypeInv, TypeOK
    <2>7. NewestInv'
      BY <1>0, <1>9, FilesFacts DEF BuildahConfig, Succeed, Fail, TypeInv, TypeOK
    <2> QED
      BY <1>0, <2>1, <2>2, <2>3, <2>4, <2>5, <2>6, <2>7
  <1>10. CASE BuildahCommit
    <2>1. SendsInv'
      BY <1>0, <1>10, FilesFacts DEF BuildahCommit, Succeed, Fail, TypeInv, TypeOK
    <2>2. BuildersInv'
      BY <1>0, <1>10, FilesFacts DEF BuildahCommit, Succeed, Fail, TypeInv, TypeOK
    <2>3. OrderInv'
      BY <1>0, <1>10, FilesFacts DEF BuildahCommit, Succeed, Fail, TypeInv, TypeOK
    <2>4. AddsWholeArchives'
      BY <1>0, <1>10, FilesFacts DEF BuildahCommit, Succeed, Fail, TypeInv, TypeOK
    <2>5. LoopInv'
      BY <1>0, <1>10, FilesFacts DEF BuildahCommit, Succeed, Fail, TypeInv, TypeOK
    <2>6. CurrentInv'
      BY <1>0, <1>10, FilesFacts DEF BuildahCommit, Succeed, Fail, TypeInv, TypeOK
    <2>7. NewestInv'
      <3> SUFFICES ASSUME pc' \in Looping, ~fault',
                          NEW f \in listed' \ (todo' \cup {Dummy}), f # cur'
                   PROVE  \E g \in listed' \ todo' :
                              g >= f /\ Tag[g] = Tag[f] /\ images'[Tag[f]].file = g
        BY <1>10 DEF BuildahCommit, Succeed, Fail
      <3>1. /\ named /\ ~fault /\ content.file = cur
            /\ images' = [images EXCEPT ![Tag[cur]] = content]
            /\ UNCHANGED <<listed, todo, cur>>
        BY <1>10 DEF BuildahCommit, Succeed, Fail
      <3>2. f \in Archives /\ cur \in Archives /\ Tag[f] \in Tags
        BY <1>10, <3>1, FilesFacts DEF BuildahCommit, TypeInv, TypeOK
      <3>3. CASE Tag[f] = Tag[cur]
        <4>1. cur \in listed \ todo /\ cur >= f
          BY <1>10, <3>1, <3>2 DEF BuildahCommit, Archives
        <4>2. images'[Tag[f]].file = cur
          BY <3>1, <3>2, <3>3 DEF TypeInv, TypeOK
        <4> QED
          BY <3>1, <3>3, <4>1, <4>2
      <3>4. CASE Tag[f] # Tag[cur]
        <4>1. images'[Tag[f]] = images[Tag[f]]
          BY <3>1, <3>2, <3>4 DEF TypeInv, TypeOK
        <4>2. \E g \in listed \ todo :
                  g >= f /\ Tag[g] = Tag[f] /\ images[Tag[f]].file = g
          BY <1>10, <3>1 DEF BuildahCommit
        <4> QED
          BY <3>1, <4>1, <4>2
      <3> QED
        BY <3>3, <3>4
    <2> QED
      BY <1>0, <2>1, <2>2, <2>3, <2>4, <2>5, <2>6, <2>7
  <1>11. CASE BuildahRm
    <2>1. SendsInv'
      BY <1>0, <1>11, FilesFacts DEF BuildahRm, TypeInv, TypeOK
    <2>2. BuildersInv'
      BY <1>0, <1>11, FilesFacts DEF BuildahRm, TypeInv, TypeOK
    <2>3. OrderInv'
      BY <1>0, <1>11, FilesFacts DEF BuildahRm, TypeInv, TypeOK
    <2>4. AddsWholeArchives'
      BY <1>0, <1>11, FilesFacts DEF BuildahRm, TypeInv, TypeOK
    <2>5. LoopInv'
      BY <1>0, <1>11, FilesFacts DEF BuildahRm, TypeInv, TypeOK
    <2>6. CurrentInv'
      BY <1>0, <1>11, FilesFacts DEF BuildahRm, TypeInv, TypeOK
    <2>7. NewestInv'
      BY <1>0, <1>11, FilesFacts DEF BuildahRm, TypeInv, TypeOK
    <2> QED
      BY <1>0, <2>1, <2>2, <2>3, <2>4, <2>5, <2>6, <2>7
  <1>12. CASE CreatePod
    BY <1>0, <1>12, FilesFacts DEF CreatePod, TypeInv, TypeOK
  <1>13. CASE Killed
    BY <1>0, <1>13, FilesFacts DEF Killed, Die, TypeInv, TypeOK
  <1>14. CASE Restart
    BY <1>0, <1>14, FilesFacts DEF Restart, TypeInv, TypeOK
  <1>15. ASSUME NEW f \in Files, UploadCreates(f) PROVE IInv'
    <2>1. SendsInv'
      BY <1>0, <1>15, FilesFacts DEF UploadCreates, TypeInv, TypeOK
    <2>2. BuildersInv'
      BY <1>0, <1>15, FilesFacts DEF UploadCreates, TypeInv, TypeOK
    <2>3. OrderInv'
      BY <1>0, <1>15, UploadOrder, FilesFacts DEF UploadCreates, TypeInv, TypeOK
    <2>4. AddsWholeArchives'
      BY <1>0, <1>15, FilesFacts DEF UploadCreates, TypeInv, TypeOK
    <2>5. LoopInv'
      BY <1>0, <1>15, FilesFacts DEF UploadCreates, TypeInv, TypeOK
    <2>6. CurrentInv'
      BY <1>0, <1>15, FilesFacts DEF UploadCreates, TypeInv, TypeOK
    <2>7. NewestInv'
      BY <1>0, <1>15, FilesFacts DEF UploadCreates, TypeInv, TypeOK
    <2> QED
      BY <1>0, <2>1, <2>2, <2>3, <2>4, <2>5, <2>6, <2>7
  <1>16. ASSUME NEW f \in Files, UploadEnds(f) PROVE IInv'
    <2>1. SendsInv'
      BY <1>0, <1>16, FilesFacts DEF UploadEnds, TypeInv, TypeOK
    <2>2. BuildersInv'
      BY <1>0, <1>16, FilesFacts DEF UploadEnds, TypeInv, TypeOK
    <2>3. OrderInv'
      BY <1>0, <1>16, FilesFacts DEF UploadEnds, TypeInv, TypeOK
    <2>4. AddsWholeArchives'
      BY <1>0, <1>16, FilesFacts DEF UploadEnds, TypeInv, TypeOK
    <2>5. LoopInv'
      BY <1>0, <1>16, FilesFacts DEF UploadEnds, TypeInv, TypeOK
    <2>6. CurrentInv'
      BY <1>0, <1>16, FilesFacts DEF UploadEnds, TypeInv, TypeOK
    <2>7. NewestInv'
      BY <1>0, <1>16, FilesFacts DEF UploadEnds, TypeInv, TypeOK
    <2> QED
      BY <1>0, <2>1, <2>2, <2>3, <2>4, <2>5, <2>6, <2>7
  <1>17. CASE UNCHANGED vars
    BY <1>0, <1>17, FilesFacts DEF TypeInv, TypeOK
  <1> QED
    BY <1>1, <1>2, <1>3, <1>4, <1>5, <1>6, <1>7, <1>8, <1>9, <1>10,
       <1>11, <1>12, <1>13, <1>14, <1>15, <1>16, <1>17
       DEF Next, Operator, Uploads

(* The inductive invariant holds when the operator first starts. *)
LEMMA InitIInv == Init => IInv
  <1> SUFFICES ASSUME Init PROVE IInv
    OBVIOUS
  <1>1. TypeOK
    <2>1. watching \in BOOLEAN /\ named \in BOOLEAN /\ fault \in BOOLEAN
      BY DEF Init
    <2> QED
      BY <2>1, NothingInContents DEF Init, TypeOK, InFile, Capacity
  <1>2. TypeInv /\ SendsInv /\ BuildersInv
    BY <1>1 DEF Init, TypeInv, SendsInv, BuildersInv, BuildersRemoved, InFile
  <1>3. OrderInv /\ AddsWholeArchives
    BY FilesFacts DEF Init, OrderInv, AddsWholeArchives, Nothing, Restoring,
       Looping, InFile
  <1>4. LoopInv /\ CurrentInv /\ NewestInv
    BY DEF Init, LoopInv, CurrentInv, NewestInv, Looping, InFile
  <1> QED
    BY <1>2, <1>3, <1>4 DEF IInv

(* The inductive invariant holds in every behaviour. *)
THEOREM Safety == Spec => []IInv
  BY InitIInv, NextIInv, PTL DEF Spec
-----------------------------------------------------------------------------
(* Type correctness of the restore, whatever fails and however often the    *)
(* operator dies.                                                           *)
THEOREM TypeCorrect == Spec => []TypeOK
  <1>1. IInv => TypeOK
    BY DEF IInv, TypeInv
  <1> QED
    BY <1>1, Safety, PTL

(* processFile hangs only after two failed commands on one archive.         *)
THEOREM HangsNeedTwoFailures == Spec => []HangsOnlyAfterTwoFailures
  <1>1. IInv => HangsOnlyAfterTwoFailures
    BY DEF IInv, SendsInv, HangsOnlyAfterTwoFailures
  <1> QED
    BY <1>1, Safety, PTL

(* For any number of archives and any tags, the newest archive of a         *)
(* container is the one its image is made of.                               *)
THEOREM NewestWins == Spec => []NewestArchiveWins
  <1>1. IInv => NewestArchiveWins
    BY DEF IInv, NewestInv, NewestArchiveWins, Looping, InFile
  <1> QED
    BY <1>1, Safety, PTL

(* Only one error path of processFile leaks a working container: the one    *)
(* that blocks after add, config and commit have all failed.                *)
THEOREM OnlyTripleFailureLeaks == Spec => []BuildersRemoved
  <1>1. IInv => BuildersRemoved
    BY DEF IInv, BuildersInv
  <1> QED
    BY <1>1, Safety, PTL

(* Given uploads in the order MigratePipeline guarantees, and until an      *)
(* archive with "dummy" in its name has come, no image is built from an     *)
(* archive that is still being written.                                     *)
THEOREM OnlyWholeArchives == Spec => []AddsWholeArchives
  <1>1. IInv => AddsWholeArchives
    BY DEF IInv
  <1> QED
    BY <1>1, Safety, PTL
=============================================================================
