----------------------------- MODULE MCReminderScan -----------------------------
(* Instances of ReminderScan for TLC. *)
EXTENDS ReminderScan
=============================================================================
