---------------------------- MODULE MCStagingRing ----------------------------
(* Small instances of StagingRing.                                         *)
EXTENDS StagingRing

\* Two lengths, so that a charge dropped by the wrong owner is seen as a wrong
\* sum and not only as a wrong number of charges.
MCLengths == {1, 2}
=============================================================================
