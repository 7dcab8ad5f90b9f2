----------------------------- MODULE ShiftRows -----------------------------
(***************************************************************************)
(* The row handlers of tools/shift/shift, beside the shift whose canal     *)
(* calls them (Shift): each binlog event of the From table becomes one     *)
(* statement on the To table.  A row is a function from columns to values, *)
(* a table is a function to its rows from the numbers of the events that   *)
(* created them, and a statement is the set of its assignments and the set *)
(* of its equality conditions, NULL never being equal to anything.         *)
(***************************************************************************)
EXTENDS Shift

CONSTANTS Columns,   \* the columns of the table
          PKColumns, \* those of its primary key
          Values,    \* the values but NULL a column may have
          Nullable,  \* the columns that may be NULL
          Null,
          MaxRows, MaxEvents

ASSUME RowsAssumption ==
  /\ PKColumns \subseteq Columns /\ Nullable \subseteq Columns \ PKColumns
  /\ Null \notin Values /\ MaxRows \in Nat /\ MaxEvents \in Nat

VARIABLES from, to,
          failed,    \* a statement failed on To
          nulled,    \* history: an update turned a value into NULL
          events

rowsVars == <<from, to, failed, nulled, events>>

AllRows == {r \in [Columns -> Values \cup {Null}] :
              \A c \in Columns \ Nullable : r[c] # Null}

IsTable(t) == DOMAIN t \subseteq 1..events /\ \A n \in DOMAIN t : t[n] \in AllRows

\* The table of MySQL keeps its primary key unique.
KeyFree(t, r) ==
  PKColumns = {} \/ \A n \in DOMAIN t : \E c \in PKColumns : t[n][c] # r[c]

RowsTypeOK ==
  /\ IsTable(from) /\ IsTable(to)
  /\ failed \in BOOLEAN /\ nulled \in BOOLEAN /\ events \in 0..MaxEvents

NoRows == [n \in {} |-> Null]

RowsInit == from = NoRows /\ to = NoRows /\ failed = FALSE /\ nulled = FALSE /\ events = 0

Added(t, n, r) == [m \in DOMAIN t \cup {n} |-> IF m = n THEN r ELSE t[m]]
Without(t, gone) == [m \in DOMAIN t \ gone |-> t[m]]

----------------------------------------------------------------------------
(* The statements, as sets of column-value pairs.                          *)

Pairs(r, cs) == {<<c, r[c]>> : c \in cs}

NotNull(r) == {c \in Columns : r[c] # Null}

\* UpdateRow: the columns whose new value is NULL are not in the SET list.
UpdateSet(new) == Pairs(new, NotNull(new))

\* UpdateRow and DeleteRow: the primary key, else the columns not NULL.
Where(old) == Pairs(old, IF PKColumns # {} THEN PKColumns ELSE NotNull(old))

Matches(r, where) == \A p \in where : p[2] # Null /\ r[p[1]] = p[2]

\* MySQL refuses a statement with an empty list.
Valid(list) == list # {}

Assign(r, set) == [c \in Columns |-> IF \E p \in set : p[1] = c
                                     THEN (CHOOSE p \in set : p[1] = c)[2] ELSE r[c]]

----------------------------------------------------------------------------
(* The events, each with the statement its handler executes on To.         *)

Event == ~failed /\ events < MaxEvents /\ events' = events + 1

InsertRow(r) ==
  /\ Event /\ Cardinality(DOMAIN from) < MaxRows /\ KeyFree(from, r)
  /\ from' = Added(from, events + 1, r)
  /\ failed' = ~KeyFree(to, r)
  /\ to' = IF KeyFree(to, r) THEN Added(to, events + 1, r) ELSE to
  /\ UNCHANGED nulled

DeleteRow(n) ==
  /\ Event /\ n \in DOMAIN from
  /\ from' = Without(from, {n})
  /\ failed' = ~Valid(Where(from[n]))
  /\ to' = IF failed' THEN to
           ELSE Without(to, {m \in DOMAIN to : Matches(to[m], Where(from[n]))})
  /\ UNCHANGED nulled

UpdateRow(n, new) ==
  /\ Event /\ n \in DOMAIN from /\ new # from[n] /\ KeyFree(Without(from, {n}), new)
  /\ from' = [from EXCEPT ![n] = new]
  /\ nulled' = (nulled \/ \E c \in Columns : new[c] = Null /\ from[n][c] # Null)
  /\ LET where == Where(from[n])
         set   == UpdateSet(new)
     IN  /\ failed' = ~(Valid(where) /\ Valid(set))
         /\ to' = IF failed' THEN to
                  ELSE [m \in DOMAIN to |-> IF Matches(to[m], where) THEN Assign(to[m], set) ELSE to[m]]

RowsNext ==
  \/ \E r \in AllRows : InsertRow(r)
  \/ \E n \in DOMAIN from : DeleteRow(n)
  \/ \E n \in DOMAIN from, new \in AllRows : UpdateRow(n, new)

RowsSpec == RowsInit /\ [][RowsNext]_rowsVars

----------------------------------------------------------------------------

\* The events replayed on To make it equal to From, unless a statement failed
\* and stopped the shift, or an update turned a value into NULL ("sync changed
\* data using binlog").
Replicated == failed \/ nulled \/ to = from

\* A shift beside the rows it replays.
MigrationSpec == ShiftSpec /\ RowsSpec

\* A shift loses nothing, whatever step of it fails: no write of before the
\* readonly step when clients change over, no row when it replays the binlog,
\* and no table that clients use or that it still needs when it cleans up.
ShiftLosesNothing ==
  /\ SwitchKeepsWrites
  /\ [](ShiftTypeOK /\ RowsTypeOK /\ Replicated /\ FromKept /\ RoutedTableExists)
=============================================================================
