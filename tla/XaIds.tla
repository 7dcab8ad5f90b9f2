-------------------------------- MODULE XaIds -------------------------------
(***************************************************************************)
(* Names of distributed transactions (Txn.xaStart): kind, second, and an   *)
(* id that counts from zero in every process.  A backend refuses a name in *)
(* use; xacheck retries a logged commit by its name, in the process that   *)
(* logged it or in a later one.  One backend stands for all.               *)
(***************************************************************************)
EXTENDS Naturals

CONSTANTS Sessions,
          RestartTakes,   \* seconds from a crash to the first transaction
          MaxSecond, MaxTxns

ASSUME XaIdsAssumption == {RestartTakes, MaxSecond, MaxTxns} \subseteq Nat

VARIABLES second, crashed,  \* 0: the proxy runs; else the second of its crash
          txnid,    \* of the TxnManager
          txns,     \* transactions so far; each has a number
          hnd,      \* handler -> [step, id, txn, xid]
          held,     \* xid -> 0, or the transaction whose branch is on the backend
          log,      \* xid -> 0, or the transaction whose commit is logged
          refused, stolen

idsVars == <<second, crashed, txnid, txns, hnd, held, log, refused, stolen>>

Xids == {"RXID", "MULTRXID"} \X (1..MaxSecond) \X (0..MaxTxns)
NoSession == [step |-> "idle", id |-> 0, txn |-> 0, xid |-> <<"RXID", 1, 1>>]

IdsInit ==
  /\ second = 1 /\ crashed = 0 /\ txnid = 0 /\ txns = 0
  /\ hnd = [h \in Sessions |-> NoSession]
  /\ held = [x \in Xids |-> 0] /\ log = [x \in Xids |-> 0]
  /\ refused = FALSE /\ stolen = FALSE

NextSecond ==
  /\ second < MaxSecond /\ second' = second + 1
  /\ UNCHANGED <<crashed, txnid, txns, hnd, held, log, refused, stolen>>

\* GetID
NextId == txnid + 1

\* CreateTxn
CreateTxn(h) ==
  /\ crashed = 0 /\ hnd[h].step = "idle" /\ txns < MaxTxns
  /\ txnid' = NextId /\ txns' = txns + 1
  /\ hnd' = [hnd EXCEPT ![h] = [step |-> "created", id |-> NextId, txn |-> txns + 1, xid |-> NoSession.xid]]
  /\ UNCHANGED <<second, crashed, held, log, refused, stolen>>

\* Mutant: the name leaves out the second.
NameOnce(kind, id) == <<kind, 1, id>>

Name(kind, id) == <<kind, second, id>>

\* xaStart
XaStart(h, kind) ==
  LET x == Name(kind, hnd[h].id) IN
  /\ hnd[h].step = "created"
  /\ refused' = (refused \/ held[x] # 0)
  /\ hnd' = [hnd EXCEPT ![h] = IF held[x] # 0 THEN NoSession ELSE [@ EXCEPT !.step = "started", !.xid = x]]
  /\ held' = [held EXCEPT ![x] = IF @ # 0 THEN @ ELSE hnd[h].txn]
  /\ UNCHANGED <<second, crashed, txnid, txns, log, stolen>>

\* The rest of the transaction: its branch is ended; or the reply to its commit, or
\* the commit itself, fails and is logged.
XaEnds(h, done, logged) ==
  /\ hnd[h].step = "started" /\ (done \/ logged)
  /\ hnd' = [hnd EXCEPT ![h] = NoSession]
  /\ held' = IF done THEN [held EXCEPT ![hnd[h].xid] = 0] ELSE held
  /\ log' = IF logged THEN [log EXCEPT ![hnd[h].xid] = hnd[h].txn] ELSE log
  /\ UNCHANGED <<second, crashed, txnid, txns, refused, stolen>>

\* commitRetryBackends
Retry(x) ==
  /\ crashed = 0 /\ log[x] # 0
  /\ stolen' = (stolen \/ held[x] \notin {0, log[x]})
  /\ held' = [held EXCEPT ![x] = 0] /\ log' = [log EXCEPT ![x] = 0]
  /\ UNCHANGED <<second, crashed, txnid, txns, hnd, refused>>

\* Branches that are prepared stay.
ProxyDies ==
  /\ crashed = 0 /\ crashed' = second
  /\ hnd' = [h \in Sessions |-> NoSession]
  /\ \E gone \in SUBSET {h \in Sessions : hnd[h].step = "started"} :
       held' = [x \in Xids |-> IF \E h \in gone : hnd[h].xid = x THEN 0 ELSE held[x]]
  /\ UNCHANGED <<second, txnid, txns, log, refused, stolen>>

\* NewTxnManager
NewTxnManager ==
  /\ crashed # 0 /\ second >= crashed + RestartTakes /\ crashed' = 0 /\ txnid' = 0
  /\ UNCHANGED <<second, txns, hnd, held, log, refused, stolen>>

IdsNext ==
  \/ NextSecond \/ ProxyDies \/ NewTxnManager
  \/ \E h \in Sessions : \/ CreateTxn(h)
                         \/ \E kind \in {"RXID", "MULTRXID"} : XaStart(h, kind)
                         \/ \E done, logged \in BOOLEAN : XaEnds(h, done, logged)
  \/ \E x \in Xids : Retry(x)

IdsSpec == IdsInit /\ [][IdsNext]_idsVars

-----------------------------------------------------------------------------
\* The variables have their types; ids count up to the transactions.
XaIdsTypeOK ==
  /\ second \in 1..MaxSecond /\ crashed \in 0..second
  /\ txns \in 0..MaxTxns /\ txnid \in 0..txns
  /\ hnd \in [Sessions -> [step : {"idle", "created", "started"}, id : 0..MaxTxns, txn : 0..MaxTxns,
                           xid : Xids \cup {NoSession.xid}]]
  /\ held \in [Xids -> 0..MaxTxns] /\ log \in [Xids -> 0..MaxTxns]

\* The name of a transaction, a second and an id, is nobody else's, also after a
\* restart that counts from zero: no XA START is refused for it, and no retry of
\* xacheck ends the branch of another transaction (xaStart, commitRetryBackends).
NamesApart == ~refused /\ ~stolen

=============================================================================
