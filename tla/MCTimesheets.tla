---------------------------- MODULE MCTimesheets ----------------------------
(***************************************************************************)
(* Instances of Timesheets for TLC.                                        *)
(***************************************************************************)
EXTENDS TimesheetsHistory, TLC

\* Slots, ids and contents are interchangeable: no property below is a liveness one.
Symmetry == Permutations(Requests) \cup Permutations(Amendments) \cup Permutations(Logs)
            \cup Permutations(Rests)
=============================================================================
