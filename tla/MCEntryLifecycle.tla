-------------------------- MODULE MCEntryLifecycle --------------------------
(* EntryLifecycle instantiated for TLC.                                     *)

EXTENDS EntryLifecycle

=============================================================================
