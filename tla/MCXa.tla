-------------------------------- MODULE MCXa --------------------------------
(***************************************************************************)
(* Transactions in XA mode (XaCommit): one of several statements beside a  *)
(* SELECT, which "several" is about, a single statement and one of several *)
(* at the same time ("two"), and a proxy that crashes ("crash"); with what *)
(* an administrator does about the branches that are left (AdminXa) and    *)
(* the names of the branches (XaIds).                                      *)
(***************************************************************************)
EXTENDS XaCommit, XaIds

CONSTANTS t1, t2, b1, b2

VARIABLE which   \* which one runs
VARIABLES xm_pc, xm_goal, xm_todo, xm_failed, xm_errors, xm_part, xm_conn,
          xm_branch, xm_tries, xm_applied, xm_halfStmt, xm_cmds, xm_reply,
          xm_writer, xm_rpc, xm_rtodo, xm_saw, xm_retrys, xm_file, xm_torn,
          xm_timesout, xm_xpc, xm_xpass, xm_xcur, xm_xneed, xm_xleft,
          xm_xbad, xm_up, xm_faults, xm_crashes, now, since, ad_branch,
          call, ad_faults

Two == INSTANCE XaCommit WITH
  Txns <- {t1, t2}, Multi <- {t2}, Backends <- {b1, b2}, Legs <- {},
  XaMaxRetry <- 1, XaCheckRetrys <- 1, MaxCmds <- 1, MaxFaults <- 2,
  MaxCrashes <- 0,
  pc <- xm_pc, goal <- xm_goal, todo <- xm_todo, failed <- xm_failed,
  errors <- xm_errors, part <- xm_part, conn <- xm_conn, branch <- xm_branch,
  tries <- xm_tries, applied <- xm_applied, halfStmt <- xm_halfStmt,
  cmds <- xm_cmds, reply <- xm_reply, writer <- xm_writer, rpc <- xm_rpc,
  rtodo <- xm_rtodo, saw <- xm_saw, retrys <- xm_retrys, file <- xm_file,
  torn <- xm_torn, timesout <- xm_timesout, xpc <- xm_xpc, xpass <- xm_xpass,
  xcur <- xm_xcur, xneed <- xm_xneed, xleft <- xm_xleft, xbad <- xm_xbad,
  up <- xm_up, faults <- xm_faults, crashes <- xm_crashes
Crashing == INSTANCE XaCommit WITH
  Txns <- {t1}, Multi <- {t1}, Backends <- {b1, b2}, Legs <- {},
  XaMaxRetry <- 2, XaCheckRetrys <- 1, MaxCmds <- 1, MaxFaults <- 2,
  MaxCrashes <- 2,
  pc <- xm_pc, goal <- xm_goal, todo <- xm_todo, failed <- xm_failed,
  errors <- xm_errors, part <- xm_part, conn <- xm_conn, branch <- xm_branch,
  tries <- xm_tries, applied <- xm_applied, halfStmt <- xm_halfStmt,
  cmds <- xm_cmds, reply <- xm_reply, writer <- xm_writer, rpc <- xm_rpc,
  rtodo <- xm_rtodo, saw <- xm_saw, retrys <- xm_retrys, file <- xm_file,
  torn <- xm_torn, timesout <- xm_timesout, xpc <- xm_xpc, xpass <- xm_xpass,
  xcur <- xm_xcur, xneed <- xm_xneed, xleft <- xm_xleft, xbad <- xm_xbad,
  up <- xm_up, faults <- xm_faults, crashes <- xm_crashes
Admin == INSTANCE AdminXa WITH
  Backends <- {b1, b2}, Xids <- {t1}, NoXid <- NoTxn, Admins <- {1, 2},
  Hour <- 3, Day <- 2, MaxTime <- 7, MaxFaults <- 1, branch <- ad_branch,
  faults <- ad_faults

xmVars == <<xm_pc, xm_goal, xm_todo, xm_failed, xm_errors, xm_part, xm_conn,
            xm_branch, xm_tries, xm_applied, xm_halfStmt, xm_cmds, xm_reply,
            xm_writer, xm_rpc, xm_rtodo, xm_saw, xm_retrys, xm_file, xm_torn,
            xm_timesout, xm_xpc, xm_xpass, xm_xcur, xm_xneed, xm_xleft,
            xm_xbad, xm_up, xm_faults, xm_crashes>>
adVars == <<now, since, ad_branch, call, ad_faults>>

ASSUME Two!XaAssumption /\ Crashing!XaAssumption /\ Admin!AdminXaAssumption

MCInit ==
  /\ which \in {"several", "two", "crash", "admin", "names"}
  /\ Init
  /\ \/ which = "crash" /\ Crashing!Init
     \/ which # "crash" /\ Two!Init
  /\ Admin!Init
  /\ IdsInit

SeveralStep == which = "several" /\ Next /\ UNCHANGED <<which, xmVars, adVars, idsVars>>
TwoStep == which = "two" /\ Two!Next /\ UNCHANGED <<which, vars, adVars, idsVars>>
CrashStep == which = "crash" /\ Crashing!Next /\ UNCHANGED <<which, vars, adVars, idsVars>>
AdminStep == which = "admin" /\ Admin!Next /\ UNCHANGED <<which, vars, xmVars, idsVars>>
NamesStep == which = "names" /\ IdsNext /\ UNCHANGED <<which, vars, xmVars, adVars>>

MCNext == SeveralStep \/ TwoStep \/ CrashStep \/ AdminStep \/ NamesStep

MCvars == <<which, vars, xmVars, adVars, idsVars>>
MCSpec == MCInit /\ [][MCNext]_MCvars

-----------------------------------------------------------------------------
\* The types of the components that run.
MCXaTypeOK == /\ which = "several" => TypeOK
              /\ which = "two" => Two!TypeOK
              /\ which = "crash" => Crashing!TypeOK
              /\ which = "admin" => Admin!AdminXaTypeOK
              /\ which = "names" => XaIdsTypeOK

\* Transactions that share the commit lock, the map of xacheck and its file,
\* and ones whose proxy crashes, are committed on all of their backends or on
\* none; an acknowledged commit is kept, and one that is half done is tracked
\* (executeXA, WriteXaCommitErrLog, XaCheck).
SharedAndCrashed ==
  /\ MCXaTypeOK
  /\ which = "two" => Two!XaAtomicity /\ Two!AckedCommitKept /\ Two!HalfCommitTracked
  /\ which = "crash" => Crashing!XaAtomicity /\ Crashing!AckedCommitKept

\* A call of XA COMMIT or XA ROLLBACK that answers without an error has ended
\* its transaction on all backends alike, one of which nothing was lost leaves
\* no branch prepared, and a transaction of the same day younger than an hour is
\* left alone (Commit, Rollback).
AdminEndsWhole == which = "admin" => /\ Admin!OkEndsAlike
                                     /\ Admin!NoneLeftPrepared
                                     /\ Admin!YoungLeftAlone

=============================================================================
