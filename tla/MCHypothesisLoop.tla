-------------------------- MODULE MCHypothesisLoop --------------------------
(***************************************************************************)
(* Two calls of two iterations.  Of the ways to fail, the two that set a   *)
(* candidate apart: an idea without form leaves no trace, files that do    *)
(* not build are deferred; a breach of the schema is rejected like a sweep *)
(* that cannot be set up.                                                  *)
(***************************************************************************)
EXTENDS HypothesisLoop

MCFailures == {<<1, "reject_format">>, <<3, "reject_build">>}

\* No ceiling; one that fits one sweep and no other; one met by one exactly.
MCCeilings == {Unlimited, 2, 3}
=============================================================================
