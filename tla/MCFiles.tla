------------------------------ MODULE MCFiles ------------------------------
(* Media and EventLifecycle, the two components that keep a row and a file in   *)
(* two stores, on small instances for TLC.  They share no variable, so nothing  *)
(* is lost by following one at a time, while the other has not begun.           *)
EXTENDS Media, EventLifecycle, TLC

FilesInit == Init /\ EventInit

FilesNext ==
  \/ EventInit /\ Next /\ UNCHANGED eventVars
  \/ Init /\ EventNext /\ UNCHANGED vars

FilesSpec == FilesInit /\ [][FilesNext]_<<vars, eventVars>>

\* Requests, files and statuses are interchangeable; the handlers of events are
\* requests and their covers are files.
Symmetry ==
  Permutations(Requests) \cup Permutations(Files) \cup Permutations(Statuses)
=============================================================================
