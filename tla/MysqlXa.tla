------------------------------- MODULE MysqlXa -------------------------------
(***************************************************************************)
(* What a MySQL backend does with the XA statements that backend/xa.go and *)
(* backend/xacheck.go send it.  MySQL is not part of this repository: the  *)
(* operators say no more of it than the proxy's code relies on.            *)
(*                                                                         *)
(* A branch is the part of one XA transaction that lives on one backend.   *)
(* A connection of the proxy to that backend is                            *)
(*   "none"   no connection in txn.twopcConnections,                       *)
(*   "fresh"  open, and no branch was started on it,                       *)
(*   "own"    open, and the branch was started on it,                      *)
(*   "dead"   closed by the server or the network, not yet noticed.        *)
(***************************************************************************)

BranchStates == {"none", "active", "idle", "prepared", "committed", "aborted"}

ConnStates == {"none", "fresh", "own", "dead"}

XaCommands == {"start", "end", "prepare", "commit", "rollback"}

\* The session that holds a branch ends: an unprepared branch is rolled back,
\* a prepared one survives and waits for XA COMMIT or XA ROLLBACK.
Disconnected(s) == IF s \in {"active", "idle"} THEN "aborted" ELSE s

\* Does the backend accept cmd on connection c for a branch in state s?
\* XA END and XA PREPARE need the session the branch was started on; XA COMMIT
\* takes a prepared branch from any session; XA ROLLBACK takes a prepared
\* branch from any session and an ended one from its own.
Accepts(cmd, c, s) ==
  \/ cmd = "start"    /\ c \in {"fresh", "own"} /\ s = "none"
  \/ cmd = "end"      /\ c = "own" /\ s = "active"
  \/ cmd = "prepare"  /\ c = "own" /\ s = "idle"
  \/ cmd = "commit"   /\ c \in {"fresh", "own"} /\ s = "prepared"
  \/ cmd = "rollback" /\ c \in {"fresh", "own"} /\ s = "prepared"
  \/ cmd = "rollback" /\ c = "own" /\ s = "idle"

\* The branch after an accepted command.
After(cmd) ==
  CASE cmd = "start"    -> "active"
    [] cmd = "end"      -> "idle"
    [] cmd = "prepare"  -> "prepared"
    [] cmd = "commit"   -> "committed"
    [] cmd = "rollback" -> "aborted"

=============================================================================
