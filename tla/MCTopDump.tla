------------------------------ MODULE MCTopDump ------------------------------
(***************************************************************************)
(* The way to poi-top-10.csv for TLC.                                      *)
(***************************************************************************)
EXTENDS TopDump, TLC

MCRecords == [key : 1 .. MaxTopic, value : Seq(Entry)]

\* No point of interest is named by anything.
MCSymmetry == Permutations(Ids)
=============================================================================
