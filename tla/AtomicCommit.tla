---------------------------- MODULE AtomicCommit ----------------------------
(***************************************************************************)
(* What the proxy promises of a distributed write: its shards all commit   *)
(* or all roll back, and a commit that was acknowledged stays.  It says    *)
(* nothing of rounds, retries, logs, connections or crashes.               *)
(***************************************************************************)
CONSTANTS Txns, Backends

VARIABLES
  shards,  \* the backends each transaction writes to
  rm,      \* the state of its part on each of them
  told     \* transactions whose client was told the commit succeeded

acVars == <<shards, rm, told>>

RmStates == {"working", "prepared", "committed", "aborted"}

AllPrepared(t)   == \A b \in shards[t] : rm[t][b] \in {"prepared", "committed"}
NoneCommitted(t) == \A b \in Backends : rm[t][b] # "committed"

ACInit ==
  /\ shards \in [Txns -> SUBSET Backends]
  /\ rm = [t \in Txns |-> [b \in Backends |-> "working"]]
  /\ told = {}

\* The planner picks the shards before anything is prepared.
Enlist(t) ==
  /\ \A b \in Backends : rm[t][b] = "working"
  /\ \E S \in SUBSET Backends : shards' = [shards EXCEPT ![t] = S]
  /\ UNCHANGED <<rm, told>>

Prepare(t, b) ==
  /\ rm[t][b] = "working"
  /\ rm' = [rm EXCEPT ![t][b] = "prepared"]
  /\ UNCHANGED <<shards, told>>

CommitOne(t, b) ==
  /\ rm[t][b] = "prepared" /\ AllPrepared(t)
  /\ rm' = [rm EXCEPT ![t][b] = "committed"]
  /\ UNCHANGED <<shards, told>>

\* Any number of parts may be rolled back at once (a crash of the proxy), but
\* none of a transaction that has committed somewhere or was acknowledged.
RollBack ==
  /\ rm' \in [Txns -> [Backends -> RmStates]]
  /\ \A t \in Txns : \A b \in Backends :
       \/ rm'[t][b] = rm[t][b]
       \/ /\ rm'[t][b] = "aborted" /\ rm[t][b] \in {"working", "prepared"}
          /\ NoneCommitted(t) /\ t \notin told
  /\ UNCHANGED <<shards, told>>

\* The client is told: the decision can no longer change.
Acknowledge(t) ==
  /\ AllPrepared(t)
  /\ told' = told \cup {t}
  /\ UNCHANGED <<shards, rm>>

ACNext ==
  \/ \E t \in Txns : Enlist(t) \/ Acknowledge(t)
  \/ \E t \in Txns, b \in Backends : Prepare(t, b) \/ CommitOne(t, b)
  \/ RollBack

ACSpec == ACInit /\ [][ACNext]_acVars

=============================================================================
