---------------------------- MODULE MCLogCollector ----------------------------
(***************************************************************************)
(* Three log objects, of which the first may grow twice: the smallest      *)
(* number that leaves one object beyond the cap, two batches in a call and *)
(* an object that outgrows the size limit.                                 *)
(***************************************************************************)
EXTENDS LogCollector

MCMaxVersion == <<3, 1, 1>>
=============================================================================
