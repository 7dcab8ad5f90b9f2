---------------------------- MODULE ShiftService ----------------------------
(***************************************************************************)
(* What the shifts of a proxy share: a pool of connections each            *)
(* (ShiftPool), the throttle of the proxy (Throttle) and the manager the   *)
(* requests go through (ShiftManager).  The three share no variable: what  *)
(* a shift does to them is an action of their own modules.                 *)
(***************************************************************************)
EXTENDS ShiftPool, Throttle, ShiftManager

ServiceSpec == SPoolSpec /\ ThrottleSpec /\ MgrSpec

\* The limits of a shift hold: its pool has a slot for every connection, the
\* limiter lets no more queries pass than it says and is on while the shift is
\* behind, and the manager has each instance once and gives its lock back.
ShiftLimits ==
  /\ ShiftPoolTypeOK /\ ThrottleTypeOK /\ MgrTypeOK
  /\ NeverStuck /\ PutNeverBlocks
  /\ WithinLimit /\ BehindIsThrottled
  /\ RegisteredOnce /\ LockReleased
=============================================================================
