------------------------------- MODULE MCJournal -------------------------------
(***************************************************************************)
(* Eight entries and two process deaths: passes before and after a torn    *)
(* write, and a second one in what the first left behind.                  *)
(***************************************************************************)
EXTENDS Journal
================================================================================
