------------------------------- MODULE Names --------------------------------
(***************************************************************************)
(* The names of checkpoint archives, and what RetrievePodName and          *)
(* RetrieveContainerName make of them.  The kubelet calls an archive       *)
(*     checkpoint-<pod>_<namespace>-<container>-<timestamp>.tar            *)
(* and both functions cut this string up at "-" and at "_".  A path is     *)
(* therefore written as the sequence of its parts between "-", and each    *)
(* part as the sequence of its words between "_".  Pods, namespaces and    *)
(* containers have no "_": they are sequences of words.                    *)
(***************************************************************************)
EXTENDS SequencesExt

CONSTANTS Words,    \* words of names, the year in the code among them
          MaxWords, \* bound: words in a name
          Year      \* "2024", the year in the code

ASSUME NamesAssumption == Year \in Words /\ MaxWords \in Nat

Parts(name) == [i \in DOMAIN name |-> <<name[i]>>]

ArchiveName(pod, ns, ctr, year) ==
    <<<<"checkpoint">>>> \o Parts(Front(pod)) \o <<<<Last(pod), ns[1]>>>>
        \o Parts(Tail(ns)) \o Parts(ctr) \o <<<<year>>>>

(* Variant: stops at the last "-" before the "_". *)
RetrievePodNameShort(path) ==
    LET joined == {i \in 2..Len(path) : Len(path[i]) > 1}
    IN  IF joined = {} THEN <<>>
        ELSE [i \in 1..(Min(joined) - 2) |-> path[i + 1][1]]

(* checkpoint-(.+?)_ matches up to the first part with a "_" in it.         *)
RetrievePodName(path) ==
    LET joined == {i \in 2..Len(path) : Len(path[i]) > 1}
    IN  IF joined = {} THEN <<>>
        ELSE [i \in 1..(Min(joined) - 1) |-> path[i + 1][1]]

Panics == <<"index out of range">>

(* Variant: looks from the front. *)
RetrieveFromFront(path) ==
    LET years == {i \in DOMAIN path : path[i] = <<Year>>}
    IN  IF years = {} \/ Min(years) = 1 THEN <<>>
        ELSE IF Min(years) = 2 THEN Panics
        ELSE path[Min(years) - 2] \o path[Min(years) - 1]

(* The two parts before the last one that is the year.  They are joined by  *)
(* "-": here, their words by concatenation.                                 *)
RetrieveContainerName(path) ==
    LET years == {i \in DOMAIN path : path[i] = <<Year>>}
    IN  IF years = {} \/ Max(years) = 1 THEN <<>>
        ELSE IF Max(years) = 2 THEN Panics
        ELSE path[Max(years) - 2] \o path[Max(years) - 1]
-----------------------------------------------------------------------------
(* Statements about all names of up to MaxWords words. *)

AllNames == UNION {[1..n -> Words] : n \in 1..MaxWords}

(* The pod gets its name back from each of its archives, whatever it and    *)
(* the namespace are called: the first "_" is the one after the pod.        *)
PodNamesKept ==
    \A pod, ns, ctr \in AllNames, year \in Words :
        RetrievePodName(ArchiveName(pod, ns, ctr, year)) = pod

(* An archive of the year in the code gives the name of its container if    *)
(* that has exactly two words, and one of two containers of a pod is taken  *)
(* for the other only if the last words before the year are the same.  No   *)
(* name makes RetrieveContainerName index out of range, unless the archive  *)
(* is of another year and the pod's name begins with the year.              *)
ContainerNamesKept ==
    \A pod, ns, ctr \in AllNames :
        LET retrieved(c, year) == RetrieveContainerName(ArchiveName(pod, ns, c, year))
        IN  /\ Len(ctr) = 2 => retrieved(ctr, Year) = ctr
            /\ \A other \in AllNames :
                   retrieved(other, Year) = retrieved(ctr, Year)
                       => Last(other) = Last(ctr)
            /\ \A year \in Words : retrieved(ctr, year) = Panics =>
                   year # Year /\ Len(pod) > 1 /\ pod[1] = Year
=============================================================================
