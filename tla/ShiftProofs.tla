---------------------------- MODULE ShiftProofs ----------------------------
(***************************************************************************)
(* The move of a table (Shift), with the rows it replays (ShiftRows), and  *)
(* the choice of what to move (Rebalance), each from an inductive          *)
(* invariant.                                                              *)
(***************************************************************************)
EXTENDS ShiftRows, Rebalance, Integers, TLAPS

-----------------------------------------------------------------------------
(* The shift.                                                              *)

\* The writes of before the readonly step are copied, and none of them is lost
\* where the checksums are compared.
Copied == spos >= roPos /\ (cfg.checksum => bad \cap 1..roPos = {})

\* The canal is never ahead of the binlog, and what it lost it has passed.
RowsInOrder == /\ spos <= fpos /\ roPos <= fpos /\ pos <= fpos
               /\ \A r \in bad : r <= spos
               /\ inflight => fpos < MaxWrites
               /\ kpc = "row" => spos < fpos

\* The steps of setNeoDB after the second wait, and after the checksum.
CutOverKeeps ==
  /\ bpc = "w3" => roPos <= pos
  /\ bpc = "s4" => roPos <= spos
  /\ bpc \in {"s5", "s6", "s7", "s8", "s9", "set"} => Copied
  /\ allDone => Copied /\ bpc \in {"loop", "check", "end"}

\* The To table has its name when the rule names it, and only cleanupTo, which
\* is the last thing a shift does, takes it away.
ToTableThere ==
  /\ bpc \in {"s6", "s7", "s8", "s9", "set"} \/ allDone \/ rule = "to"
       => toTab \in {"table", "dropped"}
  /\ toTab = "dropped" => wpc = "ret" /\ cfg.cleanup
  /\ bpc \in {"s7", "s8", "s9", "set"} \/ allDone
       => cfg.flavor = "neodb" \/ rule = "to"
  /\ bpc # "idle" /\ cfg.flavor = "neodb" => toTab \in {"table", "dropped"}
  /\ wpc = "start" => bpc = "idle" /\ kpc = "idle" /\ toTab = "none"

\* Cleanup touches the From table as the last step of a shift that succeeded.
FromThere == (fromTab # "table" => wpc = "ret") /\ FromKept

\* ShiftTypeOK in two parts.
CountTypes ==
  /\ cfg \in Configs /\ fpos \in 0..MaxWrites /\ spos \in 0..MaxWrites
  /\ roPos \in 0..MaxWrites /\ pos \in 0..MaxWrites /\ bad \subseteq 1..MaxWrites
  /\ shiftFaults \in 0..MaxShiftFaults
FlagTypes ==
  /\ inflight \in BOOLEAN /\ ro \in BOOLEAN /\ throttled \in BOOLEAN
  /\ allDone \in BOOLEAN /\ canalOK \in BOOLEAN /\ closed \in BOOLEAN /\ stop \in BOOLEAN
  /\ rule \in Rules /\ fromTab \in FromTabs /\ toTab \in ToTabs
  /\ kpc \in CanalPcs /\ bpc \in BehindsPcs /\ wpc \in WaiterPcs /\ rpc \in ReceiverPcs

ShiftInv == /\ CountTypes /\ FlagTypes /\ RowsInOrder
            /\ CutOverKeeps /\ ToTableThere /\ FromThere

\* The values the steps of a shift assign.
LEMMA ShiftNames ==
  /\ \A x \in {"dump", "sync", "row", "nil", "exit", "send", "end", "panic"} : x \in CanalPcs
  /\ \A x \in {"dumping", "loop", "check", "pos", "throttle", "s1", "w1", "s2", "s3", "w3",
               "s4", "s5", "s6", "s7", "s8", "s9", "set", "send", "end"} : x \in BehindsPcs
  /\ \A x \in {"wait", "close", "c1", "c2", "c3", "ret"} : x \in WaiterPcs
  /\ "recv" \in ReceiverPcs /\ "end" \in ReceiverPcs
  /\ "cleanup" \in FromTabs /\ "dropped" \in FromTabs
  /\ "migrate" \in ToTabs /\ "table" \in ToTabs /\ "dropped" \in ToTabs
  /\ "to" \in Rules
  BY Zenon DEF CanalPcs, BehindsPcs, WaiterPcs, ReceiverPcs, FromTabs, ToTabs, Rules

\* An error that is taken lets the canal go on, at most with one row lost.
LEMMA SenderKeeps ==
  ASSUME CountTypes, RowsInOrder, SenderGoesOn,
         UNCHANGED <<cfg, fpos, inflight, roPos, pos, shiftFaults>>
  PROVE  (CountTypes /\ RowsInOrder)'
<1>1. CASE kpc = "row" /\ kpc' = "sync" /\ spos' = spos + 1 /\ bad' = bad \cup {spos + 1}
  <2>1. spos \in Nat /\ fpos \in Nat /\ spos < fpos /\ fpos <= MaxWrites
    BY <1>1, ShiftAssumption DEF CountTypes, RowsInOrder
  <2>2. spos + 1 \in 0..MaxWrites /\ spos + 1 \in 1..MaxWrites /\ spos + 1 <= fpos
    BY <2>1, ShiftAssumption
  <2>3. \A r \in bad : r <= spos + 1
    BY <2>1, ShiftAssumption DEF CountTypes, RowsInOrder
  <2>4. CountTypes'
    BY <1>1, <2>2, Zenon DEF CountTypes
  <2>5. QED
    BY <1>1, <2>1, <2>2, <2>3, <2>4 DEF RowsInOrder
<1>2. CASE UNCHANGED <<spos, bad>> /\ kpc' \in {kpc, "panic", "end"}
  BY <1>2, Zenon DEF CountTypes, RowsInOrder
<1>3. QED
  BY <1>1, <1>2, Zenon DEF SenderGoesOn

\* Every step of a shift keeps the flags, tables and program counters in their
\* sets, and only the rule step of setNeoDB changes the routing rule.
LEMMA StepFlags ==
  ASSUME ShiftInv, ShiftNext
  PROVE  FlagTypes' /\ (rule' = rule \/ bpc = "s6")
<1> USE DEF rows, proxy, tabs, flags, pcs
<1>0. CountTypes /\ FlagTypes /\ RowsInOrder /\ CutOverKeeps /\ ToTableThere /\ FromThere
  BY Zenon DEF ShiftInv
<1>1. CASE Start
  BY <1>0, <1>1, ShiftNames, Zenon DEF FlagTypes, Start, ToTableMade
<1>2. CASE StartFails
  BY <1>0, <1>2, ShiftNames, Zenon DEF FlagTypes, StartFails, ShiftFault, ToTableMade
<1>3. CASE WriteAdmitted
  BY <1>0, <1>3, ShiftNames, Zenon DEF FlagTypes, WriteAdmitted
<1>4. CASE WriteExecuted
  BY <1>0, <1>4, ShiftNames, Zenon DEF FlagTypes, WriteExecuted
<1>5. CASE Dumped
  BY <1>0, <1>5, ShiftNames, Zenon DEF FlagTypes, Dumped
<1>6. CASE OnRow
  BY <1>0, <1>6, ShiftNames, Zenon DEF FlagTypes, OnRow
<1>7. CASE OnRowFails
  BY <1>0, <1>7, ShiftNames, Zenon DEF FlagTypes, OnRowFails, ShiftFault
<1>8. CASE OnRowNoConn
  BY <1>0, <1>8, ShiftNames, Zenon DEF FlagTypes, OnRowNoConn, ShiftFault
<1>9. CASE CanalFails
  BY <1>0, <1>9, ShiftNames, Zenon DEF FlagTypes, CanalFails, ShiftFault
<1>10. CASE CanalCancelled
  BY <1>0, <1>10, ShiftNames, Zenon DEF FlagTypes, CanalCancelled
<1>11. CASE CanalExit
  BY <1>0, <1>11, ShiftNames, Zenon DEF FlagTypes, CanalExit
<1>12. CASE WaitDumpDone
  BY <1>0, <1>12, ShiftNames, Zenon DEF FlagTypes, WaitDumpDone, CheckerGoto
<1>13. CASE Tick
  BY <1>0, <1>13, ShiftNames, Zenon DEF FlagTypes, Tick, CheckerGoto
<1>14. CASE LoopCloses
  BY <1>0, <1>14, ShiftNames, Zenon DEF FlagTypes, LoopCloses, CheckerGoto
<1>15. CASE Check
  BY <1>0, <1>15, ShiftNames, Zenon DEF FlagTypes, Check, CheckerGoto
<1>16. CASE Behind
  BY <1>0, <1>16, ShiftNames, Zenon DEF FlagTypes, Behind, CheckerGoto
<1>17. CASE SetThrottle
  BY <1>0, <1>17, ShiftNames, Zenon DEF FlagTypes, SetThrottle, CheckerGoto
<1>18. CASE Wait1
  BY <1>0, <1>18, ShiftNames, Zenon DEF FlagTypes, Wait1, MasterPos, CheckerGoto
<1>19. CASE Waited1
  BY <1>0, <1>19, ShiftNames, Zenon DEF FlagTypes, Waited1, WaitUntilPos, CheckerGoto
<1>20. CASE ReadOnlyOn
  BY <1>0, <1>20, ShiftNames, Zenon DEF FlagTypes, ReadOnlyOn, CheckerGoto
<1>21. CASE Wait3
  BY <1>0, <1>21, ShiftNames, Zenon DEF FlagTypes, Wait3, MasterPos, CheckerGoto
<1>22. CASE Waited3
  BY <1>0, <1>22, ShiftNames, Zenon DEF FlagTypes, Waited3, WaitUntilPos, CheckerGoto
<1>23. CASE ChecksumTable
  BY <1>0, <1>23, ShiftNames, Zenon DEF FlagTypes, ChecksumTable, CheckerGoto
<1>24. CASE RenameToTable
  BY <1>0, <1>24, ShiftNames, Zenon DEF FlagTypes, RenameToTable, CheckerGoto
<1>25. CASE SetNeoDBRule
  BY <1>0, <1>25, ShiftNames, Zenon DEF FlagTypes, SetNeoDBRule, CheckerGoto
<1>26. CASE ReadOnlyOff
  BY <1>0, <1>26, ShiftNames, Zenon DEF FlagTypes, ReadOnlyOff, CheckerGoto
<1>27. CASE ThrottleOff
  BY <1>0, <1>27, ShiftNames, Zenon DEF FlagTypes, ThrottleOff, CheckerGoto
<1>28. CASE SendDone
  BY <1>0, <1>28, ShiftNames, Zenon DEF FlagTypes, SendDone
<1>29. CASE SetAllDone
  BY <1>0, <1>29, ShiftNames, Zenon DEF FlagTypes, SetAllDone, CheckerGoto
<1>30. CASE BehindsFails
  BY <1>0, <1>30, ShiftNames, Zenon DEF FlagTypes, BehindsFails, ShiftFault
<1>31. CASE WaitFinishErr
  BY <1>0, <1>31, ShiftNames, Zenon DEF FlagTypes, WaitFinishErr, SenderGoesOn
<1>32. CASE ReceiverErr
  BY <1>0, <1>32, ShiftNames, Zenon DEF FlagTypes, ReceiverErr, SenderGoesOn
<1>33. CASE WaitFinishStop
  BY <1>0, <1>33, ShiftNames, Zenon DEF FlagTypes, WaitFinishStop
<1>34. CASE CloseShift
  BY <1>0, <1>34, ShiftNames, Zenon DEF FlagTypes, CloseShift, Then
<1>35. CASE CleanupThrottle
  BY <1>0, <1>35, ShiftNames, Zenon DEF FlagTypes, CleanupThrottle, Then
<1>36. CASE CleanupReadOnly
  BY <1>0, <1>36, ShiftNames, Zenon DEF FlagTypes, CleanupReadOnly, Then
<1>37. CASE CleanupTables
  BY <1>0, <1>37, ShiftNames, Zenon DEF FlagTypes, CleanupTables, Then, Dropped
<1>38. CASE CloseFails
  BY <1>0, <1>38, ShiftNames, Zenon DEF FlagTypes, CloseFails, ShiftFault
<1>39. CASE SetStopSignal
  BY <1>0, <1>39, ShiftNames, Zenon DEF FlagTypes, SetStopSignal
<1>40. QED
  BY <1>1, <1>2, <1>3, <1>4, <1>5, <1>6, <1>7, <1>8, <1>9, <1>10, <1>11, <1>12, <1>13, <1>14,
     <1>15, <1>16, <1>17, <1>18, <1>19, <1>20, <1>21, <1>22, <1>23, <1>24, <1>25, <1>26,
     <1>27, <1>28, <1>29, <1>30, <1>31, <1>32, <1>33, <1>34, <1>35, <1>36, <1>37, <1>38,
     <1>39, ZenonT(30)
     DEF ShiftNext, ClientSteps, Canal, BehindsChecker, Waiter

\* Every step keeps the counters in their ranges and the canal behind the binlog.
LEMMA StepCounts ==
  ASSUME ShiftInv, ShiftNext
  PROVE  (CountTypes /\ RowsInOrder)'
<1> USE DEF rows, proxy, tabs, flags, pcs
<1>0. CountTypes /\ FlagTypes /\ RowsInOrder /\ CutOverKeeps /\ ToTableThere /\ FromThere
  BY Zenon DEF ShiftInv
<1>1. CASE Start
  BY <1>0, <1>1, Zenon DEF CountTypes, RowsInOrder, Start, ToTableMade
<1>2. CASE StartFails
  BY <1>0, <1>2, ShiftAssumption DEF CountTypes, RowsInOrder, StartFails, ShiftFault,
     ToTableMade
<1>3. CASE WriteAdmitted
  BY <1>0, <1>3, Zenon DEF CountTypes, RowsInOrder, WriteAdmitted
<1>4. CASE WriteExecuted
  BY <1>0, <1>4, ShiftAssumption DEF CountTypes, RowsInOrder, WriteExecuted
<1>5. CASE Dumped
  BY <1>0, <1>5, ShiftAssumption DEF CountTypes, RowsInOrder, Dumped
<1>6. CASE OnRow
  BY <1>0, <1>6, ShiftAssumption DEF CountTypes, RowsInOrder, OnRow
<1>7. CASE OnRowFails
  BY <1>0, <1>7, ShiftAssumption DEF CountTypes, RowsInOrder, OnRowFails, ShiftFault
<1>8. CASE OnRowNoConn
  BY <1>0, <1>8, ShiftAssumption DEF CountTypes, RowsInOrder, OnRowNoConn, ShiftFault
<1>9. CASE CanalFails
  BY <1>0, <1>9, ShiftAssumption DEF CountTypes, RowsInOrder, CanalFails, ShiftFault
<1>10. CASE CanalCancelled
  BY <1>0, <1>10, Zenon DEF CountTypes, RowsInOrder, CanalCancelled
<1>11. CASE CanalExit
  BY <1>0, <1>11, Zenon DEF CountTypes, RowsInOrder, CanalExit
<1>12. CASE WaitDumpDone
  BY <1>0, <1>12, Zenon DEF CountTypes, RowsInOrder, WaitDumpDone, CheckerGoto
<1>13. CASE Tick
  BY <1>0, <1>13, Zenon DEF CountTypes, RowsInOrder, Tick, CheckerGoto
<1>14. CASE LoopCloses
  BY <1>0, <1>14, Zenon DEF CountTypes, RowsInOrder, LoopCloses, CheckerGoto
<1>15. CASE Check
  BY <1>0, <1>15, Zenon DEF CountTypes, RowsInOrder, Check, CheckerGoto
<1>16. CASE Behind
  BY <1>0, <1>16, Zenon DEF CountTypes, RowsInOrder, Behind, CheckerGoto
<1>17. CASE SetThrottle
  BY <1>0, <1>17, Zenon DEF CountTypes, RowsInOrder, SetThrottle, CheckerGoto
<1>18. CASE Wait1
  BY <1>0, <1>18, ShiftAssumption DEF CountTypes, RowsInOrder, Wait1, MasterPos, CheckerGoto
<1>19. CASE Waited1
  BY <1>0, <1>19, Zenon DEF CountTypes, RowsInOrder, Waited1, WaitUntilPos, CheckerGoto
<1>20. CASE ReadOnlyOn
  BY <1>0, <1>20, ShiftAssumption DEF CountTypes, RowsInOrder, ReadOnlyOn, CheckerGoto
<1>21. CASE Wait3
  BY <1>0, <1>21, ShiftAssumption DEF CountTypes, RowsInOrder, Wait3, MasterPos, CheckerGoto
<1>22. CASE Waited3
  BY <1>0, <1>22, Zenon DEF CountTypes, RowsInOrder, Waited3, WaitUntilPos, CheckerGoto
<1>23. CASE ChecksumTable
  BY <1>0, <1>23, Zenon DEF CountTypes, RowsInOrder, ChecksumTable, CheckerGoto
<1>24. CASE RenameToTable
  BY <1>0, <1>24, Zenon DEF CountTypes, RowsInOrder, RenameToTable, CheckerGoto
<1>25. CASE SetNeoDBRule
  BY <1>0, <1>25, Zenon DEF CountTypes, RowsInOrder, SetNeoDBRule, CheckerGoto
<1>26. CASE ReadOnlyOff
  BY <1>0, <1>26, Zenon DEF CountTypes, RowsInOrder, ReadOnlyOff, CheckerGoto
<1>27. CASE ThrottleOff
  BY <1>0, <1>27, Zenon DEF CountTypes, RowsInOrder, ThrottleOff, CheckerGoto
<1>28. CASE SendDone
  BY <1>0, <1>28, Zenon DEF CountTypes, RowsInOrder, SendDone
<1>29. CASE SetAllDone
  BY <1>0, <1>29, Zenon DEF CountTypes, RowsInOrder, SetAllDone, CheckerGoto
<1>30. CASE BehindsFails
  BY <1>0, <1>30, ShiftAssumption DEF CountTypes, RowsInOrder, BehindsFails, ShiftFault
<1>31. CASE WaitFinishErr
  BY <1>0, <1>31, SenderKeeps, Zenon DEF WaitFinishErr
<1>32. CASE ReceiverErr
  BY <1>0, <1>32, SenderKeeps, Zenon DEF ReceiverErr
<1>33. CASE WaitFinishStop
  BY <1>0, <1>33, Zenon DEF CountTypes, RowsInOrder, WaitFinishStop
<1>34. CASE CloseShift
  BY <1>0, <1>34, Zenon DEF CountTypes, RowsInOrder, CloseShift, Then
<1>35. CASE CleanupThrottle
  BY <1>0, <1>35, Zenon DEF CountTypes, RowsInOrder, CleanupThrottle, Then
<1>36. CASE CleanupReadOnly
  BY <1>0, <1>36, Zenon DEF CountTypes, RowsInOrder, CleanupReadOnly, Then
<1>37. CASE CleanupTables
  BY <1>0, <1>37, Zenon DEF CountTypes, RowsInOrder, CleanupTables, Then, Dropped
<1>38. CASE CloseFails
  BY <1>0, <1>38, ShiftAssumption DEF CountTypes, RowsInOrder, CloseFails, ShiftFault
<1>39. CASE SetStopSignal
  BY <1>0, <1>39, Zenon DEF CountTypes, RowsInOrder, SetStopSignal
<1>40. QED
  BY <1>1, <1>2, <1>3, <1>4, <1>5, <1>6, <1>7, <1>8, <1>9, <1>10, <1>11, <1>12, <1>13, <1>14,
     <1>15, <1>16, <1>17, <1>18, <1>19, <1>20, <1>21, <1>22, <1>23, <1>24, <1>25, <1>26,
     <1>27, <1>28, <1>29, <1>30, <1>31, <1>32, <1>33, <1>34, <1>35, <1>36, <1>37, <1>38,
     <1>39, ZenonT(30)
     DEF ShiftNext, ClientSteps, Canal, BehindsChecker, Waiter

\* Every step keeps what the cut-over, the To table and the From table rest on.
LEMMA StepCut ==
  ASSUME ShiftInv, ShiftNext
  PROVE  (CutOverKeeps /\ ToTableThere /\ FromThere)'
<1> USE DEF rows, proxy, tabs, flags, pcs
<1>0. CountTypes /\ FlagTypes /\ RowsInOrder /\ CutOverKeeps /\ ToTableThere /\ FromThere
  BY Zenon DEF ShiftInv
<1>1. CASE Start
  BY <1>0, <1>1, ShiftAssumption, Zenon DEF CutOverKeeps, ToTableThere, FromThere, FromKept, Copied,
     CountTypes, RowsInOrder, Start, ToTableMade
<1>2. CASE StartFails
  BY <1>0, <1>2, Zenon DEF CutOverKeeps, ToTableThere, FromThere, FromKept, Copied,
     StartFails, ShiftFault, ToTableMade
<1>3. CASE WriteAdmitted
  BY <1>0, <1>3, Zenon DEF CutOverKeeps, ToTableThere, FromThere, FromKept, Copied,
     WriteAdmitted
<1>4. CASE WriteExecuted
  BY <1>0, <1>4, Zenon DEF CutOverKeeps, ToTableThere, FromThere, FromKept, Copied,
     WriteExecuted
<1>5. CASE Dumped
  BY <1>0, <1>5, ShiftAssumption, Zenon DEF CutOverKeeps, ToTableThere, FromThere, FromKept, Copied,
     CountTypes, RowsInOrder, Dumped
<1>6. CASE OnRow
  BY <1>0, <1>6, ShiftAssumption DEF CutOverKeeps, ToTableThere, FromThere, FromKept, Copied,
     CountTypes, RowsInOrder, OnRow
<1>7. CASE OnRowFails
  BY <1>0, <1>7, Zenon DEF CutOverKeeps, ToTableThere, FromThere, FromKept, Copied,
     OnRowFails, ShiftFault
<1>8. CASE OnRowNoConn
  BY <1>0, <1>8, Zenon DEF CutOverKeeps, ToTableThere, FromThere, FromKept, Copied,
     OnRowNoConn, ShiftFault
<1>9. CASE CanalFails
  BY <1>0, <1>9, Zenon DEF CutOverKeeps, ToTableThere, FromThere, FromKept, Copied,
     CanalFails, ShiftFault
<1>10. CASE CanalCancelled
  BY <1>0, <1>10, Zenon DEF CutOverKeeps, ToTableThere, FromThere, FromKept, Copied,
     CanalCancelled
<1>11. CASE CanalExit
  BY <1>0, <1>11, Zenon DEF CutOverKeeps, ToTableThere, FromThere, FromKept, Copied, CanalExit
<1>12. CASE WaitDumpDone
  BY <1>0, <1>12, Zenon DEF CutOverKeeps, ToTableThere, FromThere, FromKept, Copied,
     WaitDumpDone, CheckerGoto
<1>13. CASE Tick
  BY <1>0, <1>13, Zenon DEF CutOverKeeps, ToTableThere, FromThere, FromKept, Copied, Tick,
     CheckerGoto
<1>14. CASE LoopCloses
  BY <1>0, <1>14, Zenon DEF CutOverKeeps, ToTableThere, FromThere, FromKept, Copied,
     LoopCloses, CheckerGoto
<1>15. CASE Check
  BY <1>0, <1>15, Zenon DEF CutOverKeeps, ToTableThere, FromThere, FromKept, Copied, Check,
     CheckerGoto
<1>16. CASE Behind
  BY <1>0, <1>16, Zenon DEF CutOverKeeps, ToTableThere, FromThere, FromKept, Copied, Behind,
     CheckerGoto
<1>17. CASE SetThrottle
  BY <1>0, <1>17, Zenon DEF CutOverKeeps, ToTableThere, FromThere, FromKept, Copied,
     SetThrottle, CheckerGoto
<1>18. CASE Wait1
  BY <1>0, <1>18, Zenon DEF CutOverKeeps, ToTableThere, FromThere, FromKept, Copied, Wait1,
     MasterPos, CheckerGoto
<1>19. CASE Waited1
  BY <1>0, <1>19, Zenon DEF CutOverKeeps, ToTableThere, FromThere, FromKept, Copied, Waited1,
     WaitUntilPos, CheckerGoto
<1>20. CASE ReadOnlyOn
  BY <1>0, <1>20, ShiftAssumption, Zenon DEF CutOverKeeps, ToTableThere, FromThere, FromKept, Copied,
     CountTypes, RowsInOrder, ReadOnlyOn, CheckerGoto
<1>21. CASE Wait3
  BY <1>0, <1>21, ShiftAssumption, Zenon DEF CutOverKeeps, ToTableThere, FromThere, FromKept, Copied,
     CountTypes, RowsInOrder, Wait3, MasterPos, CheckerGoto
<1>22. CASE Waited3
  BY <1>0, <1>22, ShiftAssumption DEF CutOverKeeps, ToTableThere, FromThere, FromKept, Copied,
     CountTypes, RowsInOrder, Waited3, WaitUntilPos, CheckerGoto
<1>23. CASE ChecksumTable
  BY <1>0, <1>23, Zenon DEF CutOverKeeps, ToTableThere, FromThere, FromKept, Copied,
     ChecksumTable, CheckerGoto
<1>24. CASE RenameToTable
  BY <1>0, <1>24, Zenon DEF CutOverKeeps, ToTableThere, FromThere, FromKept, Copied,
     RenameToTable, CheckerGoto
<1>25. CASE SetNeoDBRule
  BY <1>0, <1>25, Zenon DEF CutOverKeeps, ToTableThere, FromThere, FromKept, Copied,
     SetNeoDBRule, CheckerGoto
<1>26. CASE ReadOnlyOff
  BY <1>0, <1>26, Zenon DEF CutOverKeeps, ToTableThere, FromThere, FromKept, Copied,
     ReadOnlyOff, CheckerGoto
<1>27. CASE ThrottleOff
  BY <1>0, <1>27, Zenon DEF CutOverKeeps, ToTableThere, FromThere, FromKept, Copied,
     ThrottleOff, CheckerGoto
<1>28. CASE SendDone
  BY <1>0, <1>28, Zenon DEF CutOverKeeps, ToTableThere, FromThere, FromKept, Copied, SendDone
<1>29. CASE SetAllDone
  BY <1>0, <1>29, Zenon DEF CutOverKeeps, ToTableThere, FromThere, FromKept, Copied,
     SetAllDone, CheckerGoto
<1>30. CASE BehindsFails
  <2>1. ~allDone
    BY <1>0, <1>30, Zenon DEF CutOverKeeps, BehindsFails, Hopeless
  <2>2. rule' = rule \/ (bpc = "s6" /\ rule' = "to")
    BY <1>30, Zenon DEF BehindsFails
  <2>3. UNCHANGED <<cfg, spos, bad, roPos, allDone, fromTab, toTab, wpc, kpc>> /\ bpc' = "send"
    BY <1>30, Zenon DEF BehindsFails
  <2>4. bpc # "idle" /\ wpc # "start"
    BY <1>0, <1>30, Zenon DEF BehindsFails, Hopeless, ToTableThere
  <2>5. QED
    BY <1>0, <2>1, <2>2, <2>3, <2>4, Zenon
       DEF CutOverKeeps, ToTableThere, FromThere, FromKept, Copied
<1>31. CASE WaitFinishErr
  BY <1>0, <1>31, ShiftAssumption DEF CutOverKeeps, ToTableThere, FromThere, FromKept, Copied,
     CountTypes, RowsInOrder, WaitFinishErr, SenderGoesOn
<1>32. CASE ReceiverErr
  BY <1>0, <1>32, ShiftAssumption DEF CutOverKeeps, ToTableThere, FromThere, FromKept, Copied,
     CountTypes, RowsInOrder, ReceiverErr, SenderGoesOn
<1>33. CASE WaitFinishStop
  BY <1>0, <1>33, Zenon DEF CutOverKeeps, ToTableThere, FromThere, FromKept, Copied,
     WaitFinishStop
<1>34. CASE CloseShift
  BY <1>0, <1>34, Zenon DEF CutOverKeeps, ToTableThere, FromThere, FromKept, Copied,
     CloseShift, Then
<1>35. CASE CleanupThrottle
  BY <1>0, <1>35, Zenon DEF CutOverKeeps, ToTableThere, FromThere, FromKept, Copied,
     CleanupThrottle, Then
<1>36. CASE CleanupReadOnly
  BY <1>0, <1>36, Zenon DEF CutOverKeeps, ToTableThere, FromThere, FromKept, Copied,
     CleanupReadOnly, Then
<1>37. CASE CleanupTables
  BY <1>0, <1>37, ShiftAssumption, Zenon DEF CutOverKeeps, ToTableThere, FromThere, FromKept, Copied,
     CountTypes, RowsInOrder, CleanupTables, Then, Dropped
<1>38. CASE CloseFails
  BY <1>0, <1>38, Zenon DEF CutOverKeeps, ToTableThere, FromThere, FromKept, Copied,
     CloseFails, ShiftFault
<1>39. CASE SetStopSignal
  BY <1>0, <1>39, Zenon DEF CutOverKeeps, ToTableThere, FromThere, FromKept, Copied,
     SetStopSignal
<1>40. QED
  BY <1>1, <1>2, <1>3, <1>4, <1>5, <1>6, <1>7, <1>8, <1>9, <1>10, <1>11, <1>12, <1>13, <1>14,
     <1>15, <1>16, <1>17, <1>18, <1>19, <1>20, <1>21, <1>22, <1>23, <1>24, <1>25, <1>26,
     <1>27, <1>28, <1>29, <1>30, <1>31, <1>32, <1>33, <1>34, <1>35, <1>36, <1>37, <1>38,
     <1>39, ZenonT(30)
     DEF ShiftNext, ClientSteps, Canal, BehindsChecker, Waiter

\* The invariant of a shift is inductive.
LEMMA ShiftStepInv ==
  ASSUME ShiftInv, [ShiftNext]_shiftVars
  PROVE  ShiftInv'
<1>1. CASE ShiftNext
  BY <1>1, StepFlags, StepCounts, StepCut, Zenon DEF ShiftInv
<1>2. CASE UNCHANGED shiftVars
  <2> USE DEF shiftVars, rows, proxy, tabs, flags, pcs
  <2>1. CountTypes' /\ RowsInOrder'
    BY <1>2, Zenon DEF ShiftInv, CountTypes, RowsInOrder
  <2>2. FlagTypes'
    BY <1>2, Zenon DEF ShiftInv, FlagTypes
  <2>3. CutOverKeeps' /\ ToTableThere' /\ FromThere'
    BY <1>2, Zenon DEF ShiftInv, CutOverKeeps, ToTableThere, FromThere, FromKept, Copied
  <2>4. QED
    BY <2>1, <2>2, <2>3, Zenon DEF ShiftInv
<1>3. QED
  BY <1>1, <1>2, Zenon

\* The invariant of a shift holds when Start is called.
LEMMA ShiftInitInv == ShiftInit => ShiftInv
<1> SUFFICES ASSUME ShiftInit PROVE ShiftInv
  BY Zenon
<1> USE DEF ShiftInit
<1>1. CountTypes /\ RowsInOrder
  BY ShiftAssumption DEF CountTypes, RowsInOrder
<1>2. FlagTypes
  BY Zenon DEF FlagTypes, CanalPcs, BehindsPcs, WaiterPcs, ReceiverPcs, FromTabs, ToTabs, Rules
<1>3. CutOverKeeps /\ ToTableThere /\ FromThere
  BY Zenon DEF CutOverKeeps, ToTableThere, FromThere, FromKept
<1>4. QED
  BY <1>1, <1>2, <1>3, Zenon DEF ShiftInv

\* The invariant of a shift holds in every state.
LEMMA ShiftInvHolds == ShiftSpec => []ShiftInv
<1>1. ShiftInit => ShiftInv
  BY ShiftInitInv, Zenon
<1>2. ShiftInv /\ [ShiftNext]_shiftVars => ShiftInv'
  BY ShiftStepInv, Zenon
<1>3. QED
  BY <1>1, <1>2, PTL DEF ShiftSpec

\* A shift never routes clients to a table that lacks a write of before the
\* readonly step (SwitchKeepsWrites); it leaves From alone unless it succeeded
\* (cleanupFrom, renameFromTable), and the table the routing rule names exists or,
\* where cleanupTo dropped it, the From table does.
THEOREM ShiftSafe ==
  ShiftSpec => SwitchKeepsWrites /\ [](ShiftTypeOK /\ FromKept /\ RoutedTableExists)
<1>1. ShiftInv => ShiftTypeOK /\ FromKept /\ RoutedTableExists
  <2> SUFFICES ASSUME ShiftInv PROVE ShiftTypeOK /\ FromKept /\ RoutedTableExists
    BY Zenon
  <2>1. ShiftTypeOK
    BY Zenon DEF ShiftInv, CountTypes, FlagTypes, ShiftTypeOK
  <2>2. FromKept
    BY Zenon DEF ShiftInv, FromThere
  <2>3. RoutedTableExists
    BY <2>2, Zenon DEF ShiftInv, FlagTypes, ToTableThere, FromKept, RoutedTableExists
  <2>4. QED
    BY <2>1, <2>2, <2>3, Zenon
<1>2. ShiftInv /\ [ShiftNext]_shiftVars
        => [rule' # rule => spos >= roPos /\ (cfg.checksum => bad \cap 1..roPos = {})]_shiftVars
  <2>1. ShiftInv /\ ShiftNext /\ rule' # rule => Copied
    BY StepFlags, Zenon DEF ShiftInv, CutOverKeeps
  <2>2. QED
    BY <2>1, Zenon DEF Copied
<1>3. QED
  BY ShiftInvHolds, <1>1, <1>2, PTL DEF ShiftSpec, SwitchKeepsWrites

-----------------------------------------------------------------------------
(* The rows.                                                               *)

\* No two rows of From have the same primary key.
KeysDistinct ==
  \A n, m \in DOMAIN from : n # m => \E c \in PKColumns : from[n][c] # from[m][c]

RowsInv == RowsTypeOK /\ KeysDistinct /\ Replicated

\* The WHERE clause of a table with a primary key finds the rows of that key.
LEMMA WhereIsKey ==
  ASSUME PKColumns # {}, NEW r \in AllRows, NEW q \in AllRows
  PROVE  Matches(q, Where(r)) <=> \A c \in PKColumns : q[c] = r[c]
<1>1. Where(r) = {<<c, r[c]>> : c \in PKColumns}
  BY Zenon DEF Where, Pairs
<1>2. \A c \in PKColumns : r[c] # Null
  BY RowsAssumption, Zenon DEF AllRows
<1>3. ASSUME Matches(q, Where(r)), NEW c \in PKColumns PROVE q[c] = r[c]
  <2>1. <<c, r[c]>> \in Where(r)
    BY <1>1, Zenon
  <2>2. q[<<c, r[c]>>[1]] = <<c, r[c]>>[2]
    BY <1>3, <2>1, Zenon DEF Matches
  <2>3. QED
    BY <2>2, Zenon
<1>4. ASSUME \A c \in PKColumns : q[c] = r[c], NEW p \in Where(r)
      PROVE  p[2] # Null /\ q[p[1]] = p[2]
  <2>1. PICK c \in PKColumns : p = <<c, r[c]>>
    BY <1>1, <1>4, Zenon
  <2>2. p[1] = c /\ p[2] = r[c]
    BY <2>1, Zenon
  <2>3. QED
    BY <1>2, <1>4, <2>2, Zenon
<1>5. QED
  BY <1>3, <1>4, Zenon DEF Matches

\* The SET list of an update assigns what is not NULL in the new row.
LEMMA AssignIs ==
  ASSUME NEW r, NEW new \in AllRows
  PROVE  Assign(r, UpdateSet(new)) = [c \in Columns |-> IF new[c] # Null THEN new[c] ELSE r[c]]
<1>1. \A p : p \in UpdateSet(new) <=> \E c \in Columns : new[c] # Null /\ p = <<c, new[c]>>
  BY Zenon DEF UpdateSet, Pairs, NotNull
<1>2. ASSUME NEW c \in Columns
      PROVE  (IF \E p \in UpdateSet(new) : p[1] = c
              THEN (CHOOSE p \in UpdateSet(new) : p[1] = c)[2] ELSE r[c])
             = IF new[c] # Null THEN new[c] ELSE r[c]
  <2>1. CASE new[c] # Null
    <3>1. \E p \in UpdateSet(new) : p[1] = c
      <4>1. <<c, new[c]>> \in UpdateSet(new)
        BY <1>1, <2>1, Zenon
      <4>2. <<c, new[c]>>[1] = c
        BY Zenon
      <4>3. QED
        BY <4>1, <4>2, Zenon
    <3>2. PICK q \in UpdateSet(new) : q[1] = c /\ q = (CHOOSE p \in UpdateSet(new) : p[1] = c)
      BY <3>1, Zenon
    <3>3. q[2] = new[c]
      BY <1>1, <3>2
    <3>4. QED
      BY <2>1, <3>1, <3>2, <3>3, Zenon
  <2>2. CASE new[c] = Null
    <3>1. ~\E p \in UpdateSet(new) : p[1] = c
      BY <1>1, <2>2
    <3>2. QED
      BY <2>2, <3>1, Zenon
  <2>3. QED
    BY <2>1, <2>2, Zenon
<1>3. QED
  BY <1>2, Zenon DEF Assign

\* What an update of the replay leaves in To is a row of the table.
LEMMA AssignInAllRows ==
  ASSUME NEW r \in AllRows, NEW new \in AllRows
  PROVE  Assign(r, UpdateSet(new)) \in AllRows
<1>1. [c \in Columns |-> IF new[c] # Null THEN new[c] ELSE r[c]] \in AllRows
  BY Zenon DEF AllRows
<1>2. QED
  BY <1>1, AssignIs, Zenon

\* InsertRow keeps both tables well formed, with or without a primary key.
LEMMA InsertTypes ==
  ASSUME RowsTypeOK, NEW r \in AllRows, InsertRow(r)
  PROVE  RowsTypeOK'
<1>1. /\ IsTable(from) /\ IsTable(to) /\ events \in 0..MaxEvents /\ events < MaxEvents
      /\ events' = events + 1 /\ ~failed /\ nulled' = nulled /\ nulled \in BOOLEAN
  BY Zenon DEF RowsTypeOK, InsertRow, Event
<1>2. events + 1 \in 1..(events + 1) /\ events + 1 \in 0..MaxEvents /\ 1..events \subseteq 1..(events + 1)
      /\ events + 1 \notin 1..events
  BY <1>1, RowsAssumption
<1>3. ASSUME NEW t, IsTable(t)
      PROVE  DOMAIN Added(t, events + 1, r) \subseteq 1..(events + 1)
             /\ \A n \in DOMAIN Added(t, events + 1, r) : Added(t, events + 1, r)[n] \in AllRows
  BY <1>2, <1>3, Zenon DEF IsTable, Added
<1>4. ASSUME NEW t, IsTable(t)
      PROVE  DOMAIN t \subseteq 1..(events + 1)
  BY <1>2, <1>4, Zenon DEF IsTable
<1>5. IsTable(from)' /\ IsTable(to)'
  BY <1>1, <1>3, <1>4, Zenon DEF IsTable, InsertRow
<1>6. RowsTypeOK'
  BY <1>1, <1>2, <1>5, Zenon DEF RowsTypeOK, InsertRow
<1>7. QED
  BY <1>6, Zenon

\* DeleteRow keeps both tables well formed, with or without a primary key.
LEMMA DeleteTypes ==
  ASSUME RowsTypeOK, NEW n \in DOMAIN from, DeleteRow(n)
  PROVE  RowsTypeOK'
<1>1. /\ IsTable(from) /\ IsTable(to) /\ events \in 0..MaxEvents /\ events < MaxEvents
      /\ events' = events + 1 /\ ~failed /\ nulled' = nulled /\ nulled \in BOOLEAN
  BY Zenon DEF RowsTypeOK, DeleteRow, Event
<1>2. events + 1 \in 0..MaxEvents /\ 1..events \subseteq 1..(events + 1)
  BY <1>1, RowsAssumption
<1>3. ASSUME NEW t, IsTable(t), NEW gone
      PROVE  DOMAIN Without(t, gone) \subseteq 1..(events + 1)
             /\ \A m \in DOMAIN Without(t, gone) : Without(t, gone)[m] \in AllRows
  BY <1>2, <1>3, Zenon DEF IsTable, Without
<1>4. ASSUME NEW t, IsTable(t)
      PROVE  DOMAIN t \subseteq 1..(events + 1)
  BY <1>2, <1>4, Zenon DEF IsTable
<1>5. IsTable(from)' /\ IsTable(to)'
  BY <1>1, <1>3, <1>4, Zenon DEF IsTable, DeleteRow
<1>6. RowsTypeOK'
  BY <1>1, <1>2, <1>5, Zenon DEF RowsTypeOK, DeleteRow
<1>7. QED
  BY <1>6, Zenon

\* UpdateRow keeps both tables well formed, with or without a primary key.
LEMMA UpdateTypes ==
  ASSUME RowsTypeOK, NEW n \in DOMAIN from, NEW new \in AllRows, UpdateRow(n, new)
  PROVE  RowsTypeOK'
<1>1. /\ IsTable(from) /\ IsTable(to) /\ events \in 0..MaxEvents /\ events < MaxEvents
      /\ events' = events + 1 /\ ~failed /\ nulled' \in BOOLEAN
  BY Zenon DEF RowsTypeOK, UpdateRow, Event
<1>2. events + 1 \in 0..MaxEvents /\ 1..events \subseteq 1..(events + 1)
  BY <1>1, RowsAssumption
<1>3. /\ from' = [from EXCEPT ![n] = new]
      /\ nulled' = (nulled \/ \E c \in Columns : new[c] = Null /\ from[n][c] # Null)
      /\ failed' \in BOOLEAN
      /\ to' = IF failed' THEN to
               ELSE [m \in DOMAIN to |-> IF Matches(to[m], Where(from[n]))
                                         THEN Assign(to[m], UpdateSet(new)) ELSE to[m]]
  BY Zenon DEF UpdateRow
<1>4. IsTable(from)'
  BY <1>1, <1>2, <1>3, Zenon DEF IsTable
<1>5. IsTable(to)'
  BY <1>1, <1>2, <1>3, AssignInAllRows, Zenon DEF IsTable
<1>6. RowsTypeOK'
  BY <1>1, <1>2, <1>3, <1>4, <1>5, Zenon DEF RowsTypeOK
<1>7. QED
  BY <1>6, Zenon

\* InsertRow keeps the key of From unique and the tables alike.
LEMMA RowsInsert ==
  ASSUME PKColumns # {}, RowsInv, NEW r \in AllRows, InsertRow(r)
  PROVE  RowsInv'
<1>1. /\ IsTable(from) /\ IsTable(to) /\ events \in 0..MaxEvents /\ events < MaxEvents
      /\ events' = events + 1 /\ ~failed /\ nulled' = nulled /\ nulled \in BOOLEAN
  BY Zenon DEF RowsInv, RowsTypeOK, InsertRow, Event
<1>2. events + 1 \in 1..(events + 1) /\ events + 1 \in 0..MaxEvents /\ 1..events \subseteq 1..(events + 1)
      /\ events + 1 \notin 1..events
  BY <1>1, RowsAssumption
<1>3. RowsTypeOK'
  BY InsertTypes, Zenon DEF RowsInv
<1>4. KeysDistinct'
  <2>1. /\ DOMAIN from' = DOMAIN from \cup {events + 1}
        /\ \A m \in DOMAIN from' : from'[m] = IF m = events + 1 THEN r ELSE from[m]
    BY Zenon DEF InsertRow, Added
  <2>2. events + 1 \notin DOMAIN from
    BY <1>1, <1>2, Zenon DEF IsTable
  <2>3. \A m \in DOMAIN from : \E c \in PKColumns : from[m][c] # r[c]
    BY Zenon DEF InsertRow, KeyFree
  <2>4. QED
    BY <2>1, <2>2, <2>3 DEF RowsInv, KeysDistinct
<1>5. Replicated'
  <2>1. CASE to = from
    <3>1. KeyFree(from, r)
      BY Zenon DEF InsertRow
    <3>2. KeyFree(to, r)
      BY <2>1, <3>1, Zenon
    <3>3. to' = Added(to, events + 1, r) /\ from' = Added(from, events + 1, r)
      BY <3>2, Zenon DEF InsertRow
    <3>4. QED
      BY <2>1, <3>3, Zenon DEF Replicated
  <2>2. CASE nulled
    BY <1>1, <2>2, Zenon DEF Replicated
  <2>3. QED
    BY <1>1, <2>1, <2>2, Zenon DEF RowsInv, Replicated
<1>6. QED
  BY <1>3, <1>4, <1>5, Zenon DEF RowsInv

\* DeleteRow removes from To the row it removes from From, and no other.
LEMMA RowsDelete ==
  ASSUME PKColumns # {}, RowsInv, NEW n \in DOMAIN from, DeleteRow(n)
  PROVE  RowsInv'
<1>1. /\ IsTable(from) /\ IsTable(to) /\ events \in 0..MaxEvents /\ events < MaxEvents
      /\ events' = events + 1 /\ ~failed /\ nulled' = nulled /\ nulled \in BOOLEAN
  BY Zenon DEF RowsInv, RowsTypeOK, DeleteRow, Event
<1>2. events + 1 \in 0..MaxEvents /\ 1..events \subseteq 1..(events + 1)
  BY <1>1, RowsAssumption
<1>3. RowsTypeOK'
  BY DeleteTypes, Zenon DEF RowsInv
<1>4. KeysDistinct'
  <2>1. /\ DOMAIN from' \subseteq DOMAIN from
        /\ \A m \in DOMAIN from' : from'[m] = from[m]
    BY Zenon DEF DeleteRow, Without
  <2>2. QED
    BY <2>1 DEF RowsInv, KeysDistinct
<1>5. ASSUME to = from
      PROVE  {m \in DOMAIN to : Matches(to[m], Where(from[n]))} = {n}
  <2>1. \A m \in DOMAIN from : from[m] \in AllRows
    BY <1>1, Zenon DEF IsTable
  <2>2. \A m \in DOMAIN from : Matches(from[m], Where(from[n])) <=> m = n
    <3>1. \A m \in DOMAIN from : Matches(from[m], Where(from[n])) <=>
                                   \A c \in PKColumns : from[m][c] = from[n][c]
      BY <2>1, WhereIsKey, Zenon
    <3>2. QED
      BY <3>1, Zenon DEF RowsInv, KeysDistinct
  <2>3. QED
    BY <1>5, <2>2, Zenon
<1>6. Replicated'
  <2>1. CASE to = from /\ ~failed'
    BY <1>5, <2>1, Zenon DEF Replicated, DeleteRow
  <2>2. CASE nulled \/ failed'
    BY <1>1, <2>2, Zenon DEF Replicated
  <2>3. QED
    BY <1>1, <2>1, <2>2, Zenon DEF RowsInv, Replicated
<1>7. QED
  BY <1>3, <1>4, <1>6, Zenon DEF RowsInv

\* UpdateRow leaves the new row in To unless it turned a value into NULL.
LEMMA RowsUpdate ==
  ASSUME PKColumns # {}, RowsInv, NEW n \in DOMAIN from, NEW new \in AllRows, UpdateRow(n, new)
  PROVE  RowsInv'
<1>1. /\ IsTable(from) /\ IsTable(to) /\ events \in 0..MaxEvents /\ events < MaxEvents
      /\ events' = events + 1 /\ ~failed /\ nulled' \in BOOLEAN
  BY Zenon DEF RowsInv, RowsTypeOK, UpdateRow, Event
<1>2. events + 1 \in 0..MaxEvents /\ 1..events \subseteq 1..(events + 1)
  BY <1>1, RowsAssumption
<1>3. /\ from' = [from EXCEPT ![n] = new]
      /\ nulled' = (nulled \/ \E c \in Columns : new[c] = Null /\ from[n][c] # Null)
      /\ failed' \in BOOLEAN
      /\ to' = IF failed' THEN to
               ELSE [m \in DOMAIN to |-> IF Matches(to[m], Where(from[n]))
                                         THEN Assign(to[m], UpdateSet(new)) ELSE to[m]]
  BY Zenon DEF UpdateRow
<1>4. RowsTypeOK'
  BY UpdateTypes, Zenon DEF RowsInv
<1>5. KeysDistinct'
  <2>1. /\ DOMAIN from' = DOMAIN from
        /\ \A m \in DOMAIN from' : from'[m] = IF m = n THEN new ELSE from[m]
    BY <1>3, Zenon
  <2>2. KeyFree(Without(from, {n}), new)
    BY Zenon DEF UpdateRow
  <2>3. /\ DOMAIN Without(from, {n}) = DOMAIN from \ {n}
        /\ \A m \in DOMAIN from \ {n} : Without(from, {n})[m] = from[m]
    BY Zenon DEF Without
  <2>4. \A m \in DOMAIN from \ {n} : \E c \in PKColumns : from[m][c] # new[c]
    <3>1. \A m \in DOMAIN Without(from, {n}) :
             \E c \in PKColumns : Without(from, {n})[m][c] # new[c]
      BY <2>2, Zenon DEF KeyFree
    <3>2. QED
      BY <2>3, <3>1, Zenon
  <2>5. QED
    BY <2>1, <2>4 DEF RowsInv, KeysDistinct
<1>6. ASSUME to = from, ~nulled', ~failed'
      PROVE  to' = from'
  <2>1. \A m \in DOMAIN from : from[m] \in AllRows
    BY <1>1, Zenon DEF IsTable
  <2>2. \A m \in DOMAIN from : Matches(from[m], Where(from[n])) <=> m = n
    <3>1. \A m \in DOMAIN from : Matches(from[m], Where(from[n])) <=>
                                   \A c \in PKColumns : from[m][c] = from[n][c]
      BY <2>1, WhereIsKey, Zenon
    <3>2. QED
      BY <3>1, Zenon DEF RowsInv, KeysDistinct
  <2>3. Assign(from[n], UpdateSet(new)) = [c \in Columns |-> new[c]]
    <3>1. Assign(from[n], UpdateSet(new))
          = [c \in Columns |-> IF new[c] # Null THEN new[c] ELSE from[n][c]]
      BY AssignIs, Zenon
    <3>2. \A c \in Columns : new[c] = Null => from[n][c] = Null
      BY <1>3, <1>6, Zenon
    <3>3. \A c \in Columns : (IF new[c] # Null THEN new[c] ELSE from[n][c]) = new[c]
      BY <3>2, Zenon
    <3>4. QED
      BY <3>1, <3>3, Zenon
  <2>4. [c \in Columns |-> new[c]] = new
    BY Zenon DEF AllRows
  <2>5. QED
    <3>1. to' = [m \in DOMAIN from |-> IF m = n THEN new ELSE from[m]]
      BY <1>3, <1>6, <2>2, <2>3, <2>4, Zenon
    <3>2. from' = [m \in DOMAIN from |-> IF m = n THEN new ELSE from[m]]
      BY <1>3, Zenon
    <3>3. QED
      BY <3>1, <3>2, Zenon
<1>7. Replicated'
  BY <1>1, <1>3, <1>6, Zenon DEF RowsInv, Replicated
<1>8. QED
  BY <1>4, <1>5, <1>7, Zenon DEF RowsInv

\* The replay keeps both tables well formed.
THEOREM RowsTyped == RowsSpec => []RowsTypeOK
<1>1. RowsInit => RowsTypeOK
  <2>1. DOMAIN NoRows = {}
    BY Zenon DEF NoRows
  <2>2. 0 \in 0..MaxEvents
    BY RowsAssumption
  <2>3. QED
    BY <2>1, <2>2, Zenon DEF RowsInit, RowsTypeOK, IsTable
<1>2. RowsTypeOK /\ [RowsNext]_rowsVars => RowsTypeOK'
  <2>1. ASSUME RowsTypeOK, RowsNext PROVE RowsTypeOK'
    BY <2>1, InsertTypes, DeleteTypes, UpdateTypes, Zenon DEF RowsNext
  <2>2. ASSUME RowsTypeOK, UNCHANGED rowsVars PROVE RowsTypeOK'
    BY <2>2, Zenon DEF RowsTypeOK, IsTable, rowsVars
  <2>3. QED
    BY <2>1, <2>2, Zenon
<1>3. QED
  BY <1>1, <1>2, PTL DEF RowsSpec

\* With a primary key the replay makes To equal to From (Replicated), for every
\* set of columns and values and every sequence of events.
THEOREM RowsReplicated ==
  ASSUME PKColumns # {}
  PROVE  RowsSpec => [](RowsTypeOK /\ Replicated)
<1>1. RowsInit => RowsInv
  <2>1. DOMAIN NoRows = {}
    BY Zenon DEF NoRows
  <2>2. 0 \in 0..MaxEvents
    BY RowsAssumption
  <2>3. QED
    BY <2>1, <2>2, Zenon DEF RowsInit, RowsInv, RowsTypeOK, IsTable, KeysDistinct, Replicated
<1>2. RowsInv /\ [RowsNext]_rowsVars => RowsInv'
  <2>1. ASSUME RowsInv, RowsNext PROVE RowsInv'
    BY <2>1, RowsInsert, RowsDelete, RowsUpdate, Zenon DEF RowsNext
  <2>2. ASSUME RowsInv, UNCHANGED rowsVars PROVE RowsInv'
    <3>1. from' = from /\ to' = to /\ failed' = failed /\ nulled' = nulled /\ events' = events
      BY <2>2, Zenon DEF rowsVars
    <3>2. QED
      BY <2>2, <3>1 DEF RowsInv, RowsTypeOK, IsTable, KeysDistinct, Replicated
  <2>3. QED
    BY <2>1, <2>2, Zenon
<1>3. RowsInv => RowsTypeOK /\ Replicated
  BY Zenon DEF RowsInv
<1>4. QED
  BY <1>1, <1>2, <1>3, PTL DEF RowsSpec

\* A shift of a table with a primary key loses nothing (ShiftLosesNothing).
THEOREM MigrationKeeps ==
  ASSUME PKColumns # {}
  PROVE  MigrationSpec => ShiftLosesNothing
<1>1. ShiftSpec => SwitchKeepsWrites /\ [](ShiftTypeOK /\ FromKept /\ RoutedTableExists)
  BY ShiftSafe, Zenon
<1>2. RowsSpec => [](RowsTypeOK /\ Replicated)
  BY RowsReplicated, Zenon
<1>3. QED
  BY <1>1, <1>2, PTL DEF MigrationSpec, ShiftLosesNothing

-----------------------------------------------------------------------------
(* The advice of a rebalance, followed again and again.                    *)

AdvicePcs == {"scan", "tables", "migrate"}
BackendSizes == [name : 0..NBackends, size : Nat]

AdviceTypes ==
  /\ sizes \in [1..NBackends -> Nat] /\ place \in [Tables -> 1..NBackends]
  /\ biggest \in BackendSizes /\ smallest \in BackendSizes
  /\ at \in 1..(NBackends + 1) /\ apc \in AdvicePcs /\ advice \in Tables \cup {NoTable}

Measured(m) == (m.name = 0 /\ m.size = 0) \/ (m.name \in 1..NBackends /\ m.size = sizes[m.name])

\* What the scan knows of the first n backends.
Scanned(n) ==
  /\ Measured(biggest) /\ Measured(smallest) /\ (n > 0 => smallest.name # 0)
  /\ (\A b \in 1..NBackends : sizes[b] > 0) =>
       \A b \in 1..n : sizes[b] <= biggest.size /\ smallest.size <= sizes[b]

\* The two backends are measured, differ, and stay in order when s moves.
Movable(s) ==
  /\ biggest.name \in 1..NBackends /\ biggest.size = sizes[biggest.name]
  /\ smallest.name \in 1..NBackends /\ smallest.size = sizes[smallest.name]
  /\ biggest.name # smallest.name
  /\ smallest.size + s < biggest.size - s

\* Where the call is, and what it has found.
Progress ==
  /\ apc # "migrate" => advice = NoTable
  /\ apc = "scan" => Scanned(at - 1)
  /\ apc # "scan" => Scanned(NBackends)
  /\ apc = "tables" => biggest.size - smallest.size >= Delta
  /\ apc = "migrate" /\ advice # NoTable => place[advice] = biggest.name /\ Movable(Size[advice])

AdviceInv == AdviceTypes /\ Progress

\* What one move does to where the tables are and to the sizes.
MoveSettles ==
  \E a, b \in 1..NBackends :
    /\ a # b /\ \A t \in Tables : place'[t] # place[t] => place[t] = a /\ place'[t] = b
    /\ \A c \in 1..NBackends \ {a, b} : sizes'[c] = sizes[c]
    /\ sizes'[b] < sizes'[a]
    /\ sizes'[a] * sizes'[a] + sizes'[b] * sizes'[b] < sizes[a] * sizes[a] + sizes[b] * sizes[b]

\* The steps of a call are apart.
LEMMA AdviceNames ==
  /\ "scan" # "tables" /\ "scan" # "migrate" /\ "tables" # "migrate"
  /\ "scan" \in AdvicePcs /\ "tables" \in AdvicePcs /\ "migrate" \in AdvicePcs
BY DEF AdvicePcs

\* The constants are numbers, and tables are not empty.
LEMMA AdviceNumbers ==
  /\ NBackends \in Nat /\ Delta \in Nat /\ Delta # 0
  /\ \A t \in Tables : Size[t] \in Nat /\ Size[t] > 0
  /\ NoTable \notin Tables
<1>1. Size \in [Tables -> Nat \ {0}] /\ NoTable \notin Tables
  BY RebalanceAssumption, Zenon
<1>2. \A t \in Tables : Size[t] \in Nat \ {0}
  BY <1>1, Zenon
<1>3. QED
  BY <1>1, <1>2, RebalanceAssumption

\* Moving s from x to y brings the two closer: x still is the larger one, and the
\* sum of the squares falls by 2s(x - s - y) > 0.
LEMMA SquaresFall ==
  ASSUME NEW x \in Nat, NEW y \in Nat, NEW s \in Nat, s > 0, y + s < x - s
  PROVE  /\ x - s \in Nat /\ y + s \in Nat /\ y + s < x - s
         /\ (x - s) * (x - s) + (y + s) * (y + s) < x * x + y * y
<1>1. PICK d \in Nat : d > 0 /\ x = y + s + s + d
  <2>1. x - (y + s + s) \in Nat /\ x - (y + s + s) > 0
    OBVIOUS
  <2>2. QED
    BY <2>1
<1>2. x - s = y + s + d
  BY <1>1
<1>3. (x - s) * (x - s) + (y + s) * (y + s) + 2 * s * (s + d) = x * x + y * y
  BY <1>1, <1>2
<1>4. 2 * s * (s + d) \in Nat /\ 2 * s * (s + d) > 0
  BY <1>1
<1>5. (x - s) * (x - s) \in Int /\ (y + s) * (y + s) \in Int /\ x * x \in Int /\ y * y \in Int
  OBVIOUS
<1>6. QED
  BY <1>3, <1>4, <1>5

\* A call that returns leaves nothing behind.
LEMMA ReturnStep ==
  ASSUME Return, sizes' \in [1..NBackends -> Nat], place' \in [Tables -> 1..NBackends]
  PROVE  AdviceInv'
<1>1. /\ at' = 1 /\ apc' = "scan" /\ advice' = NoTable /\ biggest' = Unset /\ smallest' = Unset
  BY Zenon DEF Return
<1>2. 0 \in 0..NBackends /\ 0 \in Nat /\ 1 \in 1..(NBackends + 1) /\ 1..(1 - 1) = {} /\ ~(1 - 1 > 0)
  BY AdviceNumbers
<1>3. Unset \in BackendSizes /\ Unset.name = 0 /\ Unset.size = 0
  BY <1>2, Zenon DEF Unset, BackendSizes
<1>4. AdviceTypes'
  BY <1>1, <1>2, <1>3, AdviceNames, Zenon DEF AdviceTypes
<1>5. Scanned(at - 1)'
  BY <1>1, <1>2, <1>3, Zenon DEF Scanned, Measured
<1>6. Progress'
  BY <1>1, <1>5, AdviceNames, Zenon DEF Progress
<1>7. QED
  BY <1>4, <1>6, Zenon DEF AdviceInv

\* One more backend is scanned.
LEMMA ScanStep ==
  ASSUME AdviceInv, Scan
  PROVE  AdviceInv'
<1>1. /\ apc = "scan" /\ at <= NBackends /\ at' = at + 1 /\ apc' = apc
      /\ sizes' = sizes /\ place' = place /\ advice' = advice
      /\ biggest' = Larger(biggest, at) /\ smallest' = Smaller(smallest, at)
  BY Zenon DEF Scan
<1>2. /\ AdviceTypes /\ Scanned(at - 1) /\ advice = NoTable
      /\ at \in 1..(NBackends + 1) /\ sizes \in [1..NBackends -> Nat]
      /\ biggest \in BackendSizes /\ smallest \in BackendSizes
  BY <1>1, AdviceNames, Zenon DEF AdviceInv, AdviceTypes, Progress
<1>3. at \in 1..NBackends /\ at \in 0..NBackends /\ at' \in 1..(NBackends + 1) /\ at' - 1 = at
  BY <1>1, <1>2, AdviceNumbers
<1>4. sizes[at] \in Nat
  BY <1>2, <1>3, Zenon
<1>5. biggest' \in BackendSizes /\ smallest' \in BackendSizes
  BY <1>1, <1>2, <1>3, <1>4, Zenon DEF BackendSizes, Larger, Smaller
<1>6. AdviceTypes'
  BY <1>1, <1>2, <1>3, <1>5, Zenon DEF AdviceTypes
<1>7. Measured(biggest)' /\ Measured(smallest)' /\ smallest'.name # 0
  <2>1. Measured(biggest) /\ Measured(smallest) /\ (at - 1 > 0 => smallest.name # 0)
    BY <1>2, Zenon DEF Scanned
  <2>2. Measured(Larger(biggest, at)) /\ Measured(Smaller(smallest, at))
    BY <1>3, <2>1, Zenon DEF Measured, Larger, Smaller
  <2>3. smallest.name = 0 => smallest.size = 0
    BY <2>1 DEF Measured
  <2>4. Smaller(smallest, at).name # 0
    BY <1>3, <2>3 DEF Smaller
  <2>5. QED
    BY <1>1, <2>2, <2>4, Zenon DEF Measured
<1>8. ASSUME \A b \in 1..NBackends : sizes[b] > 0, NEW b \in 1..at
      PROVE  sizes[b] <= biggest'.size /\ smallest'.size <= sizes[b]
  <2>1. biggest.size \in Nat /\ smallest.size \in Nat /\ sizes[b] \in Nat
    BY <1>2, <1>3, AdviceNumbers DEF BackendSizes
  <2>2. b = at \/ (b \in 1..(at - 1) /\ smallest.name # 0)
    BY <1>2, <1>3 DEF Scanned
  <2>3. smallest.name # 0 => smallest.size > 0
    BY <1>2, <1>8, Zenon DEF Scanned, Measured
  <2>4. b # at => sizes[b] <= biggest.size /\ smallest.size <= sizes[b]
    BY <1>2, <1>8, <2>2, Zenon DEF Scanned
  <2>5. sizes[at] <= biggest'.size /\ biggest.size <= biggest'.size
    BY <1>1, <1>4, <2>1 DEF Larger
  <2>6. smallest'.size <= sizes[at] /\ (smallest.size > 0 => smallest'.size <= smallest.size)
    BY <1>1, <1>4, <2>1 DEF Smaller
  <2>7. biggest'.size \in Nat /\ smallest'.size \in Nat
    BY <1>5 DEF BackendSizes
  <2>8. QED
    BY <1>4, <2>1, <2>2, <2>3, <2>4, <2>5, <2>6, <2>7
<1>9. Scanned(at - 1)'
  BY <1>1, <1>3, <1>7, <1>8, Zenon DEF Scanned
<1>10. Progress'
  BY <1>1, <1>2, <1>9, AdviceNames, Zenon DEF Progress
<1>11. QED
  BY <1>6, <1>10, Zenon DEF AdviceInv

\* The scan is over.
LEMMA CompareStep ==
  ASSUME AdviceInv, Compare
  PROVE  AdviceInv'
<1>1. /\ apc = "scan" /\ at = NBackends + 1 /\ at' = at
      /\ sizes' = sizes /\ place' = place /\ biggest' = biggest /\ smallest' = smallest
      /\ advice' = advice
      /\ apc' = (IF biggest.size - smallest.size < Delta THEN "migrate" ELSE "tables")
  BY Zenon DEF Compare
<1>2. AdviceTypes /\ Scanned(at - 1) /\ advice = NoTable
  BY <1>1, AdviceNames, Zenon DEF AdviceInv, Progress
<1>3. (NBackends + 1) - 1 = NBackends
  BY AdviceNumbers
<1>4. biggest.size \in Nat /\ smallest.size \in Nat
  BY <1>2 DEF AdviceTypes, BackendSizes
<1>5. \/ apc' = "migrate"
      \/ apc' = "tables" /\ biggest.size - smallest.size >= Delta
  BY <1>1, <1>4, AdviceNumbers
<1>6. AdviceTypes'
  BY <1>1, <1>2, <1>5, AdviceNames, Zenon DEF AdviceTypes
<1>7. Scanned(NBackends)'
  BY <1>1, <1>2, <1>3, Zenon DEF Scanned, Measured
<1>8. Progress'
  BY <1>1, <1>2, <1>5, <1>7, AdviceNames, Zenon DEF Progress
<1>9. QED
  BY <1>6, <1>8, Zenon DEF AdviceInv

\* The biggest backend and the smallest are two backends once they differ.
LEMMA TwoBackends ==
  ASSUME AdviceTypes, Scanned(NBackends), biggest.size - smallest.size >= Delta
  PROVE  /\ biggest.name \in 1..NBackends /\ biggest.size = sizes[biggest.name]
         /\ smallest.name \in 1..NBackends /\ smallest.size = sizes[smallest.name]
         /\ biggest.name # smallest.name
<1>1. biggest.size \in Nat /\ smallest.size \in Nat
  BY DEF AdviceTypes, BackendSizes
<1>2. biggest.size > 0 /\ biggest.size # smallest.size
  BY <1>1, AdviceNumbers
<1>3. Measured(biggest) /\ Measured(smallest) /\ (NBackends > 0 => smallest.name # 0)
  BY Zenon DEF Scanned
<1>4. biggest.name \in 1..NBackends /\ biggest.size = sizes[biggest.name]
  BY <1>2, <1>3 DEF Measured
<1>5. smallest.name \in 1..NBackends /\ smallest.size = sizes[smallest.name]
  BY <1>3, <1>4, AdviceNumbers DEF Measured
<1>6. QED
  BY <1>2, <1>4, <1>5, Zenon

\* A row that fits is of a table that is no larger than the row says.
LEMMA ChooseStep ==
  ASSUME AdviceInv, Choose
  PROVE  AdviceInv'
<1>1. /\ apc = "tables" /\ apc' = "migrate" /\ at' = at
      /\ sizes' = sizes /\ place' = place /\ biggest' = biggest /\ smallest' = smallest
  BY Zenon DEF Choose
<1>2. AdviceTypes /\ Scanned(NBackends) /\ biggest.size - smallest.size >= Delta
  BY <1>1, AdviceNames, Zenon DEF AdviceInv, Progress
<1>3. ASSUME advice' # NoTable
      PROVE  advice' \in Tables /\ place[advice'] = biggest.name /\ Movable(Size[advice'])
  <2>1. PICK listed \in Rows : \E r \in listed : Fits(RowSize(r)) /\ advice' = r.table
    BY <1>3, Zenon DEF Choose
  <2>2. PICK r \in listed : Fits(RowSize(r)) /\ advice' = r.table
    BY <2>1, Zenon
  <2>3. r \in [table : On(biggest.name), extra : Extras]
    BY <2>1, <2>2, Zenon DEF Rows
  <2> DEFINE t == r.table
             x == r.extra
  <2>4. t \in On(biggest.name) /\ x \in Extras
    BY <2>3, Zenon
  <2>5. t \in Tables /\ place[t] = biggest.name /\ advice' = t /\ RowSize(r) = Size[t] + x
    BY <2>2, <2>4, Zenon DEF On, RowSize
  <2> HIDE DEF t, x
  <2>6. x \in Nat /\ Size[t] \in Nat /\ biggest.size \in Nat /\ smallest.size \in Nat
    BY <1>2, <2>4, <2>5, AdviceNumbers, RebalanceAssumption DEF AdviceTypes, BackendSizes
  <2>7. smallest.size + (Size[t] + x) < biggest.size - (Size[t] + x)
    BY <2>2, <2>5, Zenon DEF Fits
  <2>8. smallest.size + Size[t] < biggest.size - Size[t]
    BY <2>6, <2>7
  <2>9. Movable(Size[t])
    BY <1>2, <2>8, TwoBackends, Zenon DEF Movable
  <2>10. QED
    BY <2>5, <2>9, Zenon
<1>4. AdviceTypes'
  BY <1>1, <1>2, <1>3, AdviceNames, Zenon DEF AdviceTypes
<1>5. Scanned(NBackends)'
  BY <1>1, <1>2, Zenon DEF Scanned, Measured
<1>6. advice' # NoTable => (place[advice] = biggest.name /\ Movable(Size[advice]))'
  BY <1>1, <1>3, Zenon DEF Movable
<1>7. Progress'
  BY <1>1, <1>5, <1>6, AdviceNames, Zenon DEF Progress
<1>8. QED
  BY <1>4, <1>7, Zenon DEF AdviceInv

\* The table is moved, or stays.
LEMMA MigrateStep ==
  ASSUME AdviceInv, Migrate
  PROVE  AdviceInv' /\ (place' # place => MoveSettles)
<1>1. apc = "migrate" /\ Return /\ AdviceTypes
  BY Zenon DEF Migrate, AdviceInv
<1>2. sizes \in [1..NBackends -> Nat] /\ place \in [Tables -> 1..NBackends]
  BY <1>1, Zenon DEF AdviceTypes
<1>3. CASE UNCHANGED <<sizes, place>>
  <2>1. sizes' = sizes /\ place' = place
    BY <1>3, Zenon
  <2>2. QED
    BY <1>1, <1>2, <2>1, ReturnStep, Zenon
<1>4. CASE ~UNCHANGED <<sizes, place>>
  <2> DEFINE a == biggest.name
             b == smallest.name
             s == Size[advice]
  <2>1. /\ advice # NoTable /\ place' = [place EXCEPT ![advice] = b]
        /\ sizes' = [sizes EXCEPT ![a] = @ - s, ![b] = @ + s]
    BY <1>4, Zenon DEF Migrate
  <2>2. advice \in Tables /\ place[advice] = a /\ Movable(s)
    BY <1>1, <2>1, Zenon DEF AdviceInv, AdviceTypes, Progress
  <2>3. /\ a \in 1..NBackends /\ b \in 1..NBackends /\ a # b
        /\ sizes[b] + s < sizes[a] - s
    BY <2>2, Zenon DEF Movable
  <2>4. sizes[a] \in Nat /\ sizes[b] \in Nat /\ s \in Nat /\ s > 0
    BY <1>2, <2>2, <2>3, AdviceNumbers, Zenon
  <2> HIDE DEF a, b, s
  <2>5. /\ sizes[a] - s \in Nat /\ sizes[b] + s \in Nat /\ sizes[b] + s < sizes[a] - s
        /\ (sizes[a] - s) * (sizes[a] - s) + (sizes[b] + s) * (sizes[b] + s)
             < sizes[a] * sizes[a] + sizes[b] * sizes[b]
    BY <2>3, <2>4, SquaresFall, Zenon
  <2>6. /\ sizes' \in [1..NBackends -> Nat] /\ place' \in [Tables -> 1..NBackends]
        /\ sizes'[a] = sizes[a] - s /\ sizes'[b] = sizes[b] + s
        /\ \A c \in 1..NBackends \ {a, b} : sizes'[c] = sizes[c]
        /\ \A t \in Tables : place'[t] # place[t] => place[t] = a /\ place'[t] = b
    BY <1>2, <2>1, <2>2, <2>3, <2>5
  <2>7. AdviceInv'
    BY <1>1, <2>6, ReturnStep, Zenon
  <2>8. MoveSettles
    <3>1. /\ sizes'[b] < sizes'[a]
          /\ sizes'[a] * sizes'[a] + sizes'[b] * sizes'[b] < sizes[a] * sizes[a] + sizes[b] * sizes[b]
      BY <2>5, <2>6, Zenon
    <3>2. QED
      BY <2>3, <2>6, <3>1, Zenon DEF MoveSettles
  <2>9. QED
    BY <2>7, <2>8, Zenon
<1>5. QED
  BY <1>3, <1>4, Zenon

\* What the invariant says at the end of the scan.
LEMMA AdviceSettled ==
  ASSUME AdviceInv
  PROVE  RebalanceTypeOK /\ ExtremesOfNonEmpty
<1>1. RebalanceTypeOK
  BY Zenon DEF AdviceInv, AdviceTypes, RebalanceTypeOK, BackendSizes, AdvicePcs
<1>2. ASSUME apc # "scan", NBackends > 0, \A b \in 1..NBackends : sizes[b] > 0
      PROVE  /\ {smallest.name, biggest.name} \subseteq 1..NBackends
             /\ \A b \in 1..NBackends : sizes[smallest.name] <= sizes[b] /\ sizes[b] <= sizes[biggest.name]
  <2>1. /\ biggest.size \in Nat /\ smallest.size \in Nat
        /\ \A b \in 1..NBackends : sizes[b] \in Nat
    BY DEF AdviceInv, AdviceTypes, BackendSizes
  <2>2. Scanned(NBackends)
    BY <1>2, Zenon DEF AdviceInv, Progress
  <2>3. Measured(biggest) /\ Measured(smallest) /\ smallest.name # 0
        /\ \A b \in 1..NBackends : sizes[b] <= biggest.size /\ smallest.size <= sizes[b]
    BY <1>2, <2>2, Zenon DEF Scanned
  <2>4. smallest.name \in 1..NBackends /\ smallest.size = sizes[smallest.name]
    BY <2>3, Zenon DEF Measured
  <2>5. biggest.size > 0
    <3>1. 1 \in 1..NBackends
      BY <1>2, AdviceNumbers
    <3>2. QED
      BY <1>2, <2>1, <2>3, <3>1
  <2>6. biggest.name \in 1..NBackends /\ biggest.size = sizes[biggest.name]
    BY <2>3, <2>5 DEF Measured
  <2>7. QED
    BY <2>3, <2>4, <2>6, Zenon
<1>3. QED
  BY <1>1, <1>2, Zenon DEF ExtremesOfNonEmpty

\* However often the advice is asked for and followed, it is between the right
\* backends, and the tables never come back to where they were.
THEOREM AdviceSettles == AdviceSpec => RebalanceSettles
<1>1. AdviceInit => AdviceInv
  <2>1. SUFFICES ASSUME AdviceInit PROVE AdviceTypes /\ Progress
    BY Zenon DEF AdviceInv
  <2>2. /\ 0 \in 0..NBackends /\ 0 \in Nat /\ 1..(1 - 1) = {} /\ ~(1 - 1 > 0)
        /\ 1 \in 1..(NBackends + 1)
    BY AdviceNumbers
  <2>3. /\ at = 1 /\ apc = "scan" /\ advice = NoTable /\ biggest = Unset /\ smallest = Unset
        /\ sizes \in [1..NBackends -> Sizes] /\ place \in [Tables -> 1..NBackends]
    BY <2>1, Zenon DEF AdviceInit
  <2>4. sizes \in [1..NBackends -> Nat]
    BY <2>3, RebalanceAssumption
  <2>5. Unset \in BackendSizes /\ Unset.name = 0 /\ Unset.size = 0
    BY <2>2, Zenon DEF Unset, BackendSizes
  <2>6. AdviceTypes
    BY <2>2, <2>3, <2>4, <2>5, AdviceNames, Zenon DEF AdviceTypes
  <2>7. Scanned(1 - 1)
    BY <2>2, <2>3, <2>5, Zenon DEF Scanned, Measured
  <2>8. Progress
    BY <2>3, <2>7, AdviceNames, Zenon DEF Progress
  <2>9. QED
    BY <2>6, <2>8, Zenon
<1>2. AdviceInv /\ [AdviceNext]_adviceVars => AdviceInv' /\ [place' # place => MoveSettles]_adviceVars
  <2>1. ASSUME AdviceInv, UNCHANGED adviceVars PROVE AdviceInv'
    BY <2>1, Zenon DEF AdviceInv, AdviceTypes, Progress, Scanned, Measured, Movable, adviceVars
  <2>2. ASSUME AdviceInv, QueryFails PROVE AdviceInv' /\ place' = place
    <3>1. Return /\ sizes' = sizes /\ place' = place
      BY <2>2, Zenon DEF QueryFails
    <3>2. sizes \in [1..NBackends -> Nat] /\ place \in [Tables -> 1..NBackends]
      BY <2>2, Zenon DEF AdviceInv, AdviceTypes
    <3>3. QED
      BY <3>1, <3>2, ReturnStep, Zenon
  <2>3. ASSUME Scan \/ Compare \/ Choose PROVE place' = place
    BY <2>3, Zenon DEF Scan, Compare, Choose
  <2>4. QED
    BY <2>1, <2>2, <2>3, ScanStep, CompareStep, ChooseStep, MigrateStep, Zenon DEF AdviceNext
<1>3. AdviceSpec => [](RebalanceTypeOK /\ ExtremesOfNonEmpty)
  BY <1>1, <1>2, AdviceSettled, PTL DEF AdviceSpec
<1>4. AdviceSpec => [][place' # place => MoveSettles]_adviceVars
  BY <1>1, <1>2, PTL DEF AdviceSpec
<1>5. AdviceSpec => MovesSettle
  BY <1>4, PTL DEF MovesSettle, MoveSettles
<1>6. QED
  BY <1>3, <1>5, PTL DEF RebalanceSettles
=============================================================================
