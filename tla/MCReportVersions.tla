-------------------------- MODULE MCReportVersions --------------------------
(***************************************************************************)
(* Instances of ReportVersions for TLC.                                    *)
(***************************************************************************)
EXTENDS ReportVersions, TLC

\* Every event of the day in one second: only the id orders them.
OneSecond == [e \in Events |-> 1]

MCSymmetry == Permutations(Writers) \cup Permutations(Names)
=============================================================================
