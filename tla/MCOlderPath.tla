---------------------------- MODULE MCOlderPath -----------------------------
(* OlderPath for TLC.  With MCStale for Stale and one container TLC also    *)
(* reaches the marker of an earlier migration being shipped once more.      *)
EXTENDS OlderPath, TLC

MCStale == {<<Dummy, 0>>}

MCSymmetry == Permutations(Own)
=============================================================================
