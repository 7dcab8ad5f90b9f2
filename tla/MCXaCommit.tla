----------------------------- MODULE MCXaCommit -----------------------------
(* XaCommit for TLC. *)
EXTENDS XaCommit
=============================================================================
