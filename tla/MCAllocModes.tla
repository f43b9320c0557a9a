---------------------------- MODULE MCAllocModes ----------------------------
(* Instances of AllocModes for TLC. *)
EXTENDS HiveVerify

SmallClasses == <<1, 2>>

\* The search does not go on from a hive in which a batch overran its region:
\* no property speaks of what such a hive becomes.
NotOverrun == ~overran
=============================================================================
