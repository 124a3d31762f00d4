------------------------------ MODULE Delivery ------------------------------
(***************************************************************************)
(* What the source of a migration promises about the files it puts into    *)
(* the folder of the destination, /mnt/data of the file handler, which is  *)
(* /checkpoints/ of the restore.  MigratePipeline implements this          *)
(* specification; Restore assumes it of its uploads.                       *)
(*                                                                         *)
(* Files are archives and markers; each archive belongs to one marker.     *)
(* Only the order of arrival is promised: a file may be created and stay   *)
(* incomplete, and a marker may come without any of its archives.          *)
(***************************************************************************)
CONSTANTS Archives, Markers,
          MarkerOf   \* a function: the marker that follows an archive

VARIABLES open,     \* files that are being written
          present,  \* files that have been created
          late      \* archives whose sender has given up: no promise

vars == <<open, present, late>>

Init == open = {} /\ present = {} /\ late = {}

(* An archive comes before its marker, a marker after its archives have     *)
(* been written.                                                            *)
MayCreate(f) ==
    /\ f \in Archives \ late => MarkerOf[f] \notin present
    /\ f \in Markers => \A a \in (open \cap Archives) \ late : MarkerOf[a] # f

Create(f) ==
    /\ MayCreate(f)
    /\ open' = open \cup {f}
    /\ present' = present \cup {f}
    /\ UNCHANGED late

Close(f) ==
    /\ f \in open
    /\ open' = open \ {f}
    /\ UNCHANGED <<present, late>>

GiveUp(f) ==
    /\ late' = late \cup {f}
    /\ UNCHANGED <<open, present>>

Next ==
    \/ \E f \in Archives \cup Markers : Create(f) \/ GiveUp(f)
    \/ \E f \in open : Close(f)

Spec == Init /\ [][Next]_vars
=============================================================================
