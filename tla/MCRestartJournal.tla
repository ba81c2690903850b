-------------------------- MODULE MCRestartJournal --------------------------
(***************************************************************************)
(* Instances of RestartJournal: its constants are numbers and Booleans.    *)
(***************************************************************************)
EXTENDS RestartJournal
=============================================================================
