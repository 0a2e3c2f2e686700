------------------------------ MODULE Planning ------------------------------
(***************************************************************************)
(* Readable maps and read plans of one unit: model/_ranges.py and the       *)
(* planning half of model/_planning.py.  A map says per address space which *)
(* ranges may be read, and whether an author declared them or they only     *)
(* record what something reads (a claim); None leaves the space             *)
(* unconstrained.  A plan is the blocks a read asks for.                    *)
(*                                                                          *)
(* Where the code raises ValueError the operators return Refused.  A block  *)
(* is written <<first, last>> and not (start, count).  Ranges are sets: the *)
(* code sorts them, or checks that they are disjoint, before it looks.      *)
(***************************************************************************)
EXTENDS Integers, FiniteSets, FiniteSetsExt

CONSTANTS
  Spaces,   \* address spaces
  None,     \* no map, no scale register
  Refused   \* the ValueError of a conflict or of a target that cannot be read

-----------------------------------------------------------------------------
\* Addresses and ranges: finitely many, none of them reversed (a slip of the author's
\* that _validate_ranges() rejects, and that no map here makes).
AddressRange == {r \in Nat \X Nat : r[1] <= r[2]}
RangeSets == {rs \in SUBSET (Nat \X Nat) : rs \subseteq AddressRange /\ IsFiniteSet(rs)}

\* SpaceMap and DeviceRanges: what is readable in one space, and in all of them.
SpaceMaps == [ranges : RangeSets, declared : BOOLEAN]
DeviceMaps == [Spaces -> SpaceMaps \cup {None}]

ASSUME PlanningAssumption ==
  /\ None # Refused /\ None \notin Nat
  /\ \A x \in {None, Refused} :
       x \notin SpaceMaps /\ x \notin DeviceMaps /\ x \notin [Spaces -> SUBSET (Nat \X Nat)]

Cells(r) == r[1] .. r[2]
AllCells(ranges) == UNION {Cells(r) : r \in ranges}

\* Overlapping ranges are rejected; touching ones are not.
Valid(ranges) == \A r, s \in ranges : r # s => Cells(r) \cap Cells(s) = {}

RangeOf(a, ranges) == {r \in ranges : a \in Cells(r)}

\* The runs of consecutive cells, no run reaching across a cut, where a cut is
\* the first address of what follows it.
Runs(cells, cuts) ==
  {r \in cells \X cells :
     /\ Cells(r) \subseteq cells /\ r[1] <= r[2]
     /\ r[1] - 1 \notin cells \/ r[1] \in cuts
     /\ r[2] + 1 \notin cells \/ r[2] + 1 \in cuts
     /\ cuts \cap (r[1] + 1 .. r[2]) = {}}

\* Ranges that touch or overlap become one.
Coalesce(ranges) == Runs(AllCells(ranges), {})

\* Each interval is split around what is excluded, and none are joined.
Excluding(ranges, excluded) ==
  UNION {Runs(Cells(r) \ excluded, {}) : r \in ranges}

-----------------------------------------------------------------------------
\* Maps: a map is None or [ranges, declared] per space.
Unconstrained == [s \in Spaces |-> None]

Shifted(map, offset) ==
  [s \in Spaces |->
     IF map[s] = None THEN None
     ELSE [map[s] EXCEPT !.ranges = {<<r[1] + offset, r[2] + offset>> : r \in @}]]

\* The cells at which a declaration begins or has just ended.
Edges(ranges) == UNION {{r[1], r[2] + 1} : r \in ranges}

\* One space of a merge: declarations that overlap must be the same one, and each
\* of their edges cuts the runs that everything together covers.
MergedSpace(parts) ==
  LET declared == {p.ranges : p \in {q \in parts : q.declared}}
      joint == UNION {Coalesce(rs) : rs \in declared}
      claimed == UNION {p.ranges : p \in {q \in parts : ~q.declared}}
      cuts == UNION {Edges(rs) : rs \in declared}
  IN IF parts = {} THEN None
     ELSE IF ~Valid(joint) THEN Refused
     ELSE [ranges |-> Runs(AllCells(joint \cup claimed), cuts),
           declared |-> declared # {}]

\* The map that several maps describe together.  A part that was refused, or a
\* space on which the declarations conflict, makes the merge raise.
Merged(maps) ==
  LET merged == [s \in Spaces |-> MergedSpace({m[s] : m \in maps} \ {None})]
  IN IF Refused \in maps \/ \E s \in Spaces : merged[s] = Refused
     THEN Refused ELSE merged

-----------------------------------------------------------------------------
\* Plans: a span is what one field or scale register occupies.
Width(r) == r[2] - r[1] + 1
In(spans, s) == {x \in spans : x.space = s}

\* A map is from here on that of one space, or None.
\* A span is refused if it is wider than a read may be, or if the map does not
\* hold the whole of it in one range.
Readable(span, map, limit) ==
  /\ Width(span.cells) <= limit
  /\ map # None => \E r \in map.ranges : Cells(span.cells) \subseteq Cells(r)

\* Spans are taken in the order of their addresses, the shorter one first.
Earlier(r, s) == r[1] < s[1] \/ (r[1] = s[1] /\ r[2] < s[2])
First(ranges) == CHOOSE r \in ranges : \A s \in ranges : ~Earlier(s, r)

\* Mutant: the boundaries between ranges do not stop a block.
JoinsByGap(block, cells, map, gap, limit) ==
  /\ cells[1] - block[2] <= gap
  /\ cells[2] - block[1] + 1 <= limit

\* May the block be extended to hold the span that comes next?
Joins(block, cells, map, gap, limit) ==
  /\ IF map = None THEN cells[1] - block[2] <= gap
     ELSE RangeOf(cells[1], map.ranges) = RangeOf(block[1], map.ranges)
  /\ cells[2] - block[1] + 1 <= limit

\* The loop over the spans in order holds those still to come, the blocks that are
\* complete, and the one being built, which the next span extends or follows.
Begun(spans) == [rest |-> spans \ {First(spans)}, done |-> {}, block |-> First(spans)]
NextSpan(loop, map, gap, limit) ==
  LET cells == First(loop.rest)
      joins == Joins(loop.block, cells, map, gap, limit)
  IN [rest  |-> loop.rest \ {cells},
      done  |-> IF joins THEN loop.done ELSE loop.done \cup {loop.block},
      block |-> IF joins THEN <<loop.block[1], Max({loop.block[2], cells[2]})>> ELSE cells]

Loop(spans, map, gap, limit) ==
  LET loop[n \in 1 .. Cardinality(spans)] ==
        IF n = 1 THEN Begun(spans) ELSE NextSpan(loop[n - 1], map, gap, limit)
  IN loop

Blocks(spans, map, gap, limit) ==
  LET end == Loop(spans, map, gap, limit)[Cardinality(spans)]
  IN IF spans = {} THEN {} ELSE end.done \cup {end.block}

Plannable(spans, map, limit) ==
  /\ map # None => Valid(map.ranges)
  /\ \A x \in spans : Readable(x, map, limit)

PlanBlocks(spans, map, gap, limit) ==
  IF Plannable(spans, map, limit) THEN Blocks({x.cells : x \in spans}, map, gap, limit)
  ELSE Refused

\* ReadPlan.build: the blocks of every space that is read.
Plan(spans, map, gap, limit) ==
  LET read == {s \in Spaces : In(spans, s) # {}}
  IN IF map = Refused \/ \E s \in read : ~Plannable(In(spans, s), map[s], limit)
     THEN Refused
     ELSE [s \in Spaces |->
             IF s \in read THEN PlanBlocks(In(spans, s), map[s], gap, limit) ELSE {}]

\* The spans in spaces the map leaves open, and the claim that stands for them:
\* what they read when they are planned alone.
Unmapped(map, spans) == {x \in spans : map[x.space] = None}

Claimed(spans, gap, limit) ==
  LET plan == Plan(spans, Unconstrained, gap, limit)
  IN IF plan = Refused THEN Refused
     ELSE [s \in Spaces |-> IF In(spans, s) = {} THEN None
                            ELSE [ranges |-> plan[s], declared |-> FALSE]]
=============================================================================
