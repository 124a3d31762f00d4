----------------------------- MODULE MCRestore -----------------------------
(* Restore for TLC: three archives, one of a container with "dummy" in its  *)
(* name and two of another one, with the tags that RetrieveContainerName    *)
(* gives them.                                                              *)
EXTENDS Restore, Names

MCTag  == <<<<"demo", "dummy">>, <<"my", "web">>, <<"my", "web">>>>
MCTags == {<<"demo", "dummy">>, <<"my", "web">>}

MCContainer  == <<<<"dummy">>, <<"my", "web">>, <<"my", "web">>>>
MCDummyNamed == {f \in 1..3 : "dummy" \in Range(MCContainer[f])}

ASSUME TagsAssumption ==
    \A f \in 1..3 : MCTag[f] =
        RetrieveContainerName(
            ArchiveName(<<"app">>, <<"liqo", "demo">>, MCContainer[f], Year))

(* RetrievePodName recovers the name of the pod from the name of each of    *)
(* its archives (Names!PodNamesKept).  It depends on no state and is looked *)
(* at once, in the initial state.                                           *)
PodNameRecovered == Init => PodNamesKept

(* RetrieveContainerName recovers names of two words, tells containers      *)
(* apart by their last word, and panics only for archives of another year   *)
(* (Names!ContainerNamesKept); looked at once, in the initial state.        *)
ContainerNameRecovered == Init => ContainerNamesKept
=============================================================================
