----------------------------- MODULE Partition -----------------------------
(***************************************************************************)
(* The partition methods of the router (router/compute.go, hash.go,        *)
(* list.go, global.go, single.go): how CREATE TABLE spreads a table over   *)
(* the backends, how Build turns the configuration into a lookup table,    *)
(* and where a value of the sharding key is looked up.  The hash functions *)
(* are parameters; a literal is what the SQL text says, which for a number *)
(* is not unique: 10, 012 and '10' are the same value of an INT column.    *)
(***************************************************************************)
EXTENDS Naturals, Sequences, SequencesExt, FiniteSets

CONSTANTS Slots, Blocks,     \* of the router configuration
          MaxBackends,
          PartitionNums,     \* what PARTITIONS may say
          Literals,          \* [kind, text, value]: the SQL text and the value MySQL stores
          JumpHash(_), JumpHashString(_), \* to 0..Slots-1
          ParseInt(_),       \* strconv.ParseInt with base 0
          ListDefs           \* PARTITION backend VALUES IN (...): sequences of <<text, backend>>

PartitionAssumption ==
  /\ Slots \in Nat \ {0} /\ Blocks \in 1..Slots /\ MaxBackends \in Nat
  /\ PartitionNums \subseteq 1..Slots
  /\ \A l \in Literals : JumpHash(l.value) \in 0..(Slots - 1)

VARIABLES method, nums, num, def,  \* inputs: method, backends, PARTITIONS (0: absent), list
          conf,      \* TableConfig.Partitions: a sequence of [min, max, backend, value]
          segments,  \* Segments of the built partition
          pc,        \* "create", "build", "ready", "error", "broken"
          found      \* the last lookup: [start, end, segs], indices into segments

vars == <<method, nums, num, def, conf, segments, pc, found>>

\* No bound: Lookup(nil, nil).
NoKey == [kind |-> "none", text |-> "", value |-> 0]

NoLookup == [start |-> NoKey, end |-> NoKey, segs |-> {}]

PartitionTypeOK ==
  /\ conf \in Seq([min : 0..Slots, max : 0..Slots, backend : 1..MaxBackends, value : STRING])
  /\ pc \in {"create", "build", "ready", "error", "broken"}
  /\ found.segs \subseteq DOMAIN segments

Init ==
  /\ method \in {"hash", "list", "global", "single"} /\ nums \in 0..MaxBackends
  /\ num \in (IF method = "hash" THEN PartitionNums \cup {0} ELSE {0})
  /\ def \in (IF method = "list" THEN ListDefs ELSE {<<>>})
  /\ conf = <<>> /\ segments = <<>> /\ pc = "create" /\ found = NoLookup

Part(lo, hi, b, v) == [min |-> lo, max |-> hi, backend |-> b, value |-> v]

----------------------------------------------------------------------------
(* compute.go                                                              *)

BlockSize == IF num = 0 THEN Blocks ELSE Slots \div num

SlotsPerShard  == Slots \div nums
TablesPerShard == SlotsPerShard \div BlockSize

\* The last table of a backend takes what is left of its slots, the last table of
\* the last backend what is left of all.
HashPart(s, i) ==
  LET step == s * SlotsPerShard
      last == i = TablesPerShard - 1
  IN Part(i * BlockSize + step,
          IF ~last THEN (i + 1) * BlockSize + step
          ELSE IF s = nums - 1 THEN Slots ELSE step + SlotsPerShard,
          s + 1, "")

HashParts ==
  [k \in 1..(nums * TablesPerShard) |->
     HashPart((k - 1) \div TablesPerShard, (k - 1) % TablesPerShard)]

HashUniform ==
  /\ pc = "create" /\ method = "hash"
  /\ IF nums = 0 \/ nums >= Slots THEN pc' = "error" /\ UNCHANGED conf
     ELSE pc' = "build" /\ conf' = HashParts
  /\ UNCHANGED <<method, nums, num, def, segments, found>>

GlobalUniform ==
  /\ pc = "create" /\ method = "global"
  /\ IF nums = 0 THEN pc' = "error" /\ UNCHANGED conf
     ELSE pc' = "build" /\ conf' = [s \in 1..nums |-> Part(0, 0, s, "")]
  /\ UNCHANGED <<method, nums, num, def, segments, found>>

SingleUniform ==
  /\ pc = "create" /\ method = "single"
  /\ IF nums = 0 THEN pc' = "error" /\ UNCHANGED conf
     ELSE pc' = "build" /\ conf' = <<Part(0, 0, 1, "")>>
  /\ UNCHANGED <<method, nums, num, def, segments, found>>

\* listMergePartition: the values as texts, each with one backend.
ListMerge == {def[i] : i \in DOMAIN def}
ListOK == ListMerge # {} /\ \A p, q \in ListMerge : p[1] = q[1] => p[2] = q[2]

\* The order of the partitions is that of a Go map.
ListUniform ==
  /\ pc = "create" /\ method = "list"
  /\ IF ~ListOK THEN pc' = "error" /\ UNCHANGED conf
     ELSE /\ pc' = "build"
          /\ \E o \in SetToSeqs(ListMerge) :
               conf' = [i \in DOMAIN o |-> Part(0, 0, o[i][2], o[i][1])]
  /\ UNCHANGED <<method, nums, num, def, segments, found>>

----------------------------------------------------------------------------
(* Build: a hash partition wants every slot exactly once.                  *)

Overlap ==
  \E p, q \in DOMAIN conf : p # q /\ conf[p].min < conf[q].max /\ conf[q].min < conf[p].max

Covered == UNION {conf[p].min..(conf[p].max - 1) : p \in DOMAIN conf}

HashBuilds ==
  /\ \A p \in DOMAIN conf : conf[p].min < conf[p].max
  /\ ~Overlap /\ Cardinality(Covered) = Slots

HashBuild ==
  /\ pc = "build" /\ method = "hash"
  /\ IF ~HashBuilds THEN pc' = "broken" /\ UNCHANGED segments
     ELSE pc' = "ready" /\ segments' = SortSeq(conf, LAMBDA p, q : p.min < q.min)
  /\ UNCHANGED <<method, nums, num, def, conf, found>>

\* The others copy their configuration.
Copy(m) ==
  /\ pc = "build" /\ method = m /\ pc' = "ready" /\ segments' = conf
  /\ UNCHANGED <<method, nums, num, def, conf, found>>

ListBuild   == Copy("list")
GlobalBuild == Copy("global")
SingleBuild == Copy("single")

----------------------------------------------------------------------------
(* Lookup.                                                                 *)

\* GetIndex of Hash.
HashIndex(l) ==
  IF l.kind = "str" THEN JumpHashString(l.text)
  ELSE IF l.kind = "float" THEN JumpHash(l.value) ELSE JumpHash(ParseInt(l.text))

\* Mutant: both bounds belong to a range.
SegmentOfSlotClosed(x) == {p \in DOMAIN segments : segments[p].min <= x /\ x <= segments[p].max}

SegmentOfSlot(x) == {p \in DOMAIN segments : segments[p].min <= x /\ x < segments[p].max}

\* The first of several partitions with the value.
SegmentOfValue(t) ==
  LET at == {p \in DOMAIN segments : segments[p].value = t}
  IN IF at = {} THEN {} ELSE {CHOOSE p \in at : \A q \in at : p <= q}

\* Lookup(start, end): an open interval and one of several values take all
\* segments.
Several(a, b) == NoKey \in {a, b} \/ a.text # b.text

HashLookup(a, b) == IF Several(a, b) THEN DOMAIN segments ELSE SegmentOfSlot(HashIndex(a))
ListLookup(a, b) == IF Several(a, b) THEN DOMAIN segments ELSE SegmentOfValue(a.text)
GlobalLookup(a, b) == DOMAIN segments
SingleLookup(a, b) == DOMAIN segments

Segs(a, b) ==
  CASE method = "hash" -> HashLookup(a, b) [] method = "list" -> ListLookup(a, b)
    [] method = "global" -> GlobalLookup(a, b) [] OTHER -> SingleLookup(a, b)

\* Two types, or a value that no partition of a list has.
LookupError(a, b) ==
  \/ a.kind # b.kind /\ NoKey \notin {a, b} /\ method \in {"hash", "list"}
  \/ Segs(a, b) = {}

Lookup(a, b) ==
  /\ pc = "ready" /\ ~LookupError(a, b)
  /\ found' = [start |-> a, end |-> b, segs |-> Segs(a, b)]
  /\ UNCHANGED <<method, nums, num, def, conf, segments, pc>>

Keys == Literals \cup {NoKey}

Next ==
  \/ HashUniform \/ GlobalUniform \/ SingleUniform \/ ListUniform
  \/ HashBuild \/ ListBuild \/ GlobalBuild \/ SingleBuild
  \/ \E a, b \in Keys : Lookup(a, b)

Spec == Init /\ [][Next]_vars

----------------------------------------------------------------------------

\* When each backend has room for a table, CREATE TABLE ... HASH gives every slot
\* to exactly one table and every backend at least its share of the slots.
HashCoversSlots ==
  method = "hash" /\ pc \in {"build", "ready", "broken"} /\ TablesPerShard > 0 =>
    /\ HashBuilds
    /\ \A s \in 1..nums :
         LET own == UNION {conf[p].min..(conf[p].max - 1) : p \in {q \in DOMAIN conf : conf[q].backend = s}}
         IN Cardinality(own) >= Slots \div nums /\ Cardinality(own) < Slots \div nums + nums

\* A lookup of one value reads the one segment that an insert of the same literal
\* writes; a lookup of several values reads every segment that holds one of them.
LookupFindsInserted ==
  pc = "ready" /\ found # NoLookup =>
    LET at(l) == Segs(l, l)
    IN /\ found.start = found.end /\ found.start # NoKey /\ method \in {"hash", "list"} =>
            found.segs = at(found.start) /\ Cardinality(found.segs) = 1
       /\ found.start # found.end => found.segs = DOMAIN segments

\* Every value of a LIST definition has one partition, on the backend it names.
ListCovers ==
  method = "list" /\ pc = "ready" =>
    \A i \in DOMAIN def :
      {p \in DOMAIN segments : segments[p].value = def[i][1]} =
      {p \in SegmentOfValue(def[i][1]) : segments[p].backend = def[i][2]}

\* A table that CREATE TABLE accepted can be built.
\* NOT KEPT by the code: see "Known disagreements" in the README.
AcceptedBuilds == pc # "broken"

\* "PARTITIONS num can specify the partition number".
\* NOT KEPT by the code: see "Known disagreements" in the README.
PartitionNumber == method = "hash" /\ pc = "ready" /\ num # 0 => Len(segments) = num

\* The segment depends on the value of the key, not on how it is written ("the
\* data type of this column is not limited").
\* NOT KEPT by the code: see "Known disagreements" in the README.
SameValueSameSegment ==
  method = "hash" /\ pc = "ready" =>
    \A k, l \in Literals : k.value = l.value => Segs(k, k) = Segs(l, l)
=============================================================================
