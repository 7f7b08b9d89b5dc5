---------------------------- MODULE MCCacheTags ----------------------------
(***************************************************************************)
(* Instances of CacheTags for TLC.                                         *)
(***************************************************************************)
EXTENDS CacheTags, TLC

CONSTANTS t1, t2, i1

\* One invalidator owns both tags.
AllTags == i1 :> {t1, t2}
=============================================================================
