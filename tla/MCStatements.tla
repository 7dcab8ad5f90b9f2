---------------------------- MODULE MCStatements ----------------------------
(***************************************************************************)
(* What a statement over several partitions answers and does, against one  *)
(* server that has all the rows: SELECT (SelectPlan), joins (JoinPlan),    *)
(* UNION (UnionPlan), INSERT, UPDATE and DELETE (Dml); and the locks of    *)
(* statements that run at the same time (DmlLocks).                        *)
(***************************************************************************)
EXTENDS DmlLocks, MCQueries

CONSTANTS c1, c2, c3, b1, b2

\* Statements that wait for one another.
FourParts == 1..4
Placed == <<b1, b2, b1, b2>>
Overlapping == [x \in Clients |-> IF x = c1 THEN {1, 2, 3} ELSE IF x = c2 THEN {1, 3, 4} ELSE {1, 2, 3, 4}]

VARIABLE part   \* which one runs
VARIABLES table, query, plan, waiting, rows, pc, data, jo_query, tree,
          result, jo_pc, un_data, un_query, node, next, un_result, un_pc,
          seg, before, last, count

SortBy == INSTANCE SelectPlan WITH
  Ids <- SelIds, Values <- WithNull, Shards <- {0, 1}, Queries <- Sorting,
  MaxInt <- 9
LimitTo == INSTANCE SelectPlan WITH
  Ids <- SelIds, Values <- WithNull, Shards <- {0, 1}, Queries <- Limits,
  MaxInt <- 9
GroupBy == INSTANCE SelectPlan WITH
  Ids <- SelIds, Values <- WithNull, Shards <- {0, 1}, Queries <- Grouping,
  MaxInt <- 9
DistinctBy == INSTANCE SelectPlan WITH
  Ids <- SelIds, Values <- WithNull, Shards <- {0, 1},
  Queries <- Distinctly1, MaxInt <- 9
InnerJoin == INSTANCE JoinPlan WITH
  Tables <- {"A", "B", "S", "T", "U", "G"}, Hashed <- {"A", "B"},
  Single <- {"S", "T", "U"}, Global <- {"G"}, Home <- Homes,
  Backends <- {0, 1}, Contents <- Full, Queries <- Inner, MaxJoinRows <- 3,
  query <- jo_query, pc <- jo_pc
OuterJoin == INSTANCE JoinPlan WITH
  Tables <- {"A", "B", "S", "T", "U", "G"}, Hashed <- {"A", "B"},
  Single <- {"S", "T", "U"}, Global <- {"G"}, Home <- Homes,
  Backends <- {0, 1}, Contents <- Full, Queries <- Outer, MaxJoinRows <- 20,
  query <- jo_query, pc <- jo_pc
ThreeJoin == INSTANCE JoinPlan WITH
  Tables <- {"A", "B", "S", "T", "U", "G"}, Hashed <- {"A", "B"},
  Single <- {"S", "T", "U"}, Global <- {"G"}, Home <- Homes,
  Backends <- {0, 1}, Contents <- Small, Queries <- Three,
  MaxJoinRows <- 20, query <- jo_query, pc <- jo_pc
Unions == INSTANCE UnionPlan WITH
  Hashed <- {"A", "B"}, Global <- {"G"}, Backends <- {0, 1}, Rows <- Apart,
  Queries <- Good, MaxRows <- 2, data <- un_data, query <- un_query,
  result <- un_result, pc <- un_pc
Hash == INSTANCE Dml WITH
  Method <- "hash", Segments <- 0..1, Ids <- 0..3, Values <- {1, 2},
  Statements <- AllDml, MaxStatements <- 4
FirstRows == INSTANCE Dml WITH
  Method <- "hash", Segments <- 0..2, Ids <- 0..3, Values <- {1, 2},
  Statements <- LimitedDml, MaxStatements <- 4
List == INSTANCE Dml WITH
  Method <- "list", Segments <- 0..3, Ids <- 0..3, Values <- {1, 2},
  Statements <- AllDml, MaxStatements <- 4
Copies == INSTANCE Dml WITH
  Method <- "global", Segments <- 0..1, Ids <- 0..3, Values <- {1, 2},
  Statements <- AllDml, MaxStatements <- 4

seVars == <<table, query, plan, waiting, rows, pc>>
joVars == <<data, jo_query, tree, result, jo_pc>>
unVars == <<un_data, un_query, node, next, un_result, un_pc>>
dmVars == <<seg, before, last, count>>

ASSUME /\ Hash!DmlAssumption /\ FirstRows!DmlAssumption
       /\ List!DmlAssumption /\ Copies!DmlAssumption

SeOff == table = 0 /\ query = 0 /\ plan = 0 /\ waiting = 0 /\ rows =
         0 /\ pc = 0
JoOff == data = 0 /\ jo_query = 0 /\ tree = 0 /\ result = 0 /\ jo_pc
         = 0
UnOff == un_data = 0 /\ un_query = 0 /\ node = 0 /\ next = 0 /\
         un_result = 0 /\ un_pc = 0
\* No statement runs.
LocksOff == /\ queue = [c \in Clients |-> [b \in Backends |-> <<>>]]
            /\ holder = [p \in Parts |-> Nobody]
            /\ failed = [c \in Clients |-> FALSE] /\ done = Clients
DmOff == seg = 0 /\ before = 0 /\ last = 0 /\ count = 0

MCInit ==
  /\ part \in {"locks", "sort", "limit", "group", "dist", "inner",
               "outer", "three", "union", "hash", "first", "list",
               "global"}
  /\ \/ part = "locks" /\ LocksInit
     \/ part # "locks" /\ LocksOff
  /\ \/ part = "sort" /\ SortBy!Init
     \/ part = "limit" /\ LimitTo!Init
     \/ part = "group" /\ GroupBy!Init
     \/ part = "dist" /\ DistinctBy!Init
     \/ part \notin {"sort", "limit", "group", "dist"} /\ SeOff
  /\ \/ part = "inner" /\ InnerJoin!Init
     \/ part = "outer" /\ OuterJoin!Init
     \/ part = "three" /\ ThreeJoin!Init
     \/ part \notin {"inner", "outer", "three"} /\ JoOff
  /\ \/ part = "union" /\ Unions!Init
     \/ part \notin {"union"} /\ UnOff
  /\ \/ part = "hash" /\ Hash!Init
     \/ part = "first" /\ FirstRows!Init
     \/ part = "list" /\ List!Init
     \/ part = "global" /\ Copies!Init
     \/ part \notin {"hash", "first", "list", "global"} /\ DmOff

LocksStep == part = "locks" /\ LocksNext /\ UNCHANGED <<part, seVars, joVars, unVars, dmVars>>
SortStep == part = "sort" /\ SortBy!Next /\ UNCHANGED <<part, locksVars, joVars, unVars, dmVars>>
LimitStep == part = "limit" /\ LimitTo!Next /\ UNCHANGED <<part, locksVars, joVars, unVars, dmVars>>
GroupStep == part = "group" /\ GroupBy!Next /\ UNCHANGED <<part, locksVars, joVars, unVars, dmVars>>
DistStep == part = "dist" /\ DistinctBy!Next /\ UNCHANGED <<part, locksVars, joVars, unVars, dmVars>>
InnerStep == part = "inner" /\ InnerJoin!Next /\ UNCHANGED <<part, locksVars, seVars, unVars, dmVars>>
OuterStep == part = "outer" /\ OuterJoin!Next /\ UNCHANGED <<part, locksVars, seVars, unVars, dmVars>>
ThreeStep == part = "three" /\ ThreeJoin!Next /\ UNCHANGED <<part, locksVars, seVars, unVars, dmVars>>
UnionStep == part = "union" /\ Unions!Next /\ UNCHANGED <<part, locksVars, seVars, joVars, dmVars>>
HashStep == part = "hash" /\ Hash!Next /\ UNCHANGED <<part, locksVars, seVars, joVars, unVars>>
FirstStep == part = "first" /\ FirstRows!Next /\ UNCHANGED <<part, locksVars, seVars, joVars, unVars>>
ListStep == part = "list" /\ List!Next /\ UNCHANGED <<part, locksVars, seVars, joVars, unVars>>
GlobalStep == part = "global" /\ Copies!Next /\ UNCHANGED <<part, locksVars, seVars, joVars, unVars>>

MCNext == LocksStep \/ SortStep \/ LimitStep \/ GroupStep \/ DistStep \/
          InnerStep \/ OuterStep \/ ThreeStep \/ UnionStep \/ HashStep \/
          FirstStep \/ ListStep \/ GlobalStep

MCvars == <<part, locksVars, seVars, joVars, unVars, dmVars>>
MCSpec == MCInit /\ [][MCNext]_MCvars

-----------------------------------------------------------------------------
\* The types of the components that run.
StatementsTypeOK == /\ part = "locks" => DmlLocksTypeOK
                    /\ part = "sort" => SortBy!SelectTypeOK
                    /\ part = "limit" => LimitTo!SelectTypeOK
                    /\ part = "group" => GroupBy!SelectTypeOK
                    /\ part = "dist" => DistinctBy!SelectTypeOK
                    /\ part = "inner" => InnerJoin!JoinTypeOK
                    /\ part = "outer" => OuterJoin!JoinTypeOK
                    /\ part = "three" => ThreeJoin!JoinTypeOK
                    /\ part = "union" => Unions!UnionTypeOK
                    /\ part = "hash" => Hash!DmlTypeOK
                    /\ part = "first" => FirstRows!DmlTypeOK
                    /\ part = "list" => List!DmlTypeOK
                    /\ part = "global" => Copies!DmlTypeOK

\* A GROUP BY that selects no row answers no row (aggregate adds the row of
\* empty aggregates only where the statement has one).
NothingFromNothing == part = "sort" => SortBy!NothingFromNothing

\* The rows a client gets are rows the same statement could return from one
\* MySQL that held the whole table: what BuildNode pushes to the shards and
\* what the operators do with the answers add up to the statement, whenever a
\* grouping has a row to group.
AnswersLikeOneServer == /\ part = "sort" => SortBy!AnswersLikeOneServer
                        /\ part = "limit" => LimitTo!AnswersLikeOneServer
                        /\ part = "group" => GroupBy!AnswersLikeOneServer
                        /\ part = "dist" => DistinctBy!AnswersLikeOneServer

\* A statement sent to a backend only joins rows that are there: a single
\* table runs at its home, and two hashed tables share a statement only when
\* their keys are equated or the statement runs on one backend (mergeRoutes
\* at join, pushEqualCmprs and calcRoute).
LeavesAreLocal == /\ part = "inner" => InnerJoin!LeavesAreLocal
                  /\ part = "outer" => OuterJoin!LeavesAreLocal
                  /\ part = "three" => ThreeJoin!LeavesAreLocal

\* The joined rows are those of one MySQL that held all the tables, each
\* once: pushing the conditions, merging the nodes, choosing a strategy and
\* joining in the proxy change nothing (BuildNode, JoinEngine.Execute).
JoinLikeOneServer == /\ part = "inner" => InnerJoin!JoinLikeOneServer
                     /\ part = "outer" => OuterJoin!JoinLikeOneServer
                     /\ part = "three" => ThreeJoin!JoinLikeOneServer

\* The rows are those of the union over one server: all of them without a
\* limit, otherwise as many of them as the limit lets through (union,
\* UnionEngine.Execute).
UnionLikeOneServer == part = "union" => Unions!UnionLikeOneServer

\* No backend gets a statement with a table it does not have (union,
\* MergeNode.buildQuery).
UnionAccepted == part = "union" => Unions!UnionAccepted

\* The outcome of a statement is one that a single table allows: the same
\* rows are inserted, changed or deleted, and a duplicate key is refused
\* (Build of InsertPlan, UpdatePlan, DeletePlan; LookupFromWhere).
LikeOneTable == /\ part = "hash" => Hash!LikeOneTable
                /\ part = "first" => FirstRows!LikeOneTable
                /\ part = "list" => List!LikeOneTable
                /\ part = "global" => Copies!LikeOneTable

\* A global table has the same rows on every backend.
SameCopies == part = "global" => Copies!SameCopies

\* Every statement answers and does what it would on one server with the
\* whole tables: SELECTs, joins, UNIONs and writes.
LikeOneServer ==
  /\ StatementsTypeOK
  /\ AnswersLikeOneServer /\ NothingFromNothing
  /\ JoinLikeOneServer /\ LeavesAreLocal
  /\ UnionLikeOneServer /\ UnionAccepted
  /\ LikeOneTable /\ SameCopies

=============================================================================
