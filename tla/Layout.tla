------------------------------- MODULE Layout -------------------------------
(***************************************************************************)
(* What the components of one unit read: where their fields sit, how a      *)
(* repeating group's instances, restrict_fields(), add() and remove()       *)
(* reshape that, and what a ComponentGroup over several of them reads.      *)
(*                                                                          *)
(* A component is a record of its class (fields, maps, limits, group) and   *)
(* of its placement (index, base, inst).  Plans are what the code would     *)
(* build next; when the cached ones are dropped is the subject of Refresh.  *)
(* A component has at most one repeating group, a sub-component may have    *)
(* its own, MaxDepth deep.  Field decoding, and the values, are left out.   *)
(***************************************************************************)
EXTENDS Planning

CONSTANTS
  Members,     \* the components
  Classes,     \* per depth: the classes whose groups nest so deep, at rest
  MaxDepth,    \* bound: how deep the groups of a class nest
  Layouts(_),  \* the components a member may be, to start with
  Manual,      \* members that are ManualComponents
  Targets,     \* the fields that add() may be given
  Pools,       \* the sets of members a ComponentGroup may be made of
  MaxCount     \* bound: the largest count a device reports

\* A field, with its scale register, at addresses that depend on the component's index.
Field == [space : Spaces, at : Nat, step : Nat, count : Nat \ {0},
          scale : Nat \cup {None}, scaleStep : Nat]

\* A class, or a component: its fields fit into a block, and the instances of its group
\* are some distance apart.
IsComponent(c) ==
  /\ DOMAIN c = {"fields", "map", "index", "base", "inst", "scaleInBlock", "gap", "limit", "group"}
  /\ IsFiniteSet(c.fields) /\ \A f \in c.fields : f \in Field /\ f.count <= c.limit
  /\ c.map \in DeviceMaps
  /\ c.index \in Nat \ {0} /\ c.base \in Nat /\ c.inst \in Nat
  /\ c.gap \in Nat /\ c.limit \in Nat \ {0}
  /\ c.group # None =>
       /\ DOMAIN c.group = {"of", "stride", "size", "register", "countInBlock"}
       /\ c.group.stride \in Nat \ {0} /\ c.group.size \in Nat
       /\ c.group.register # None => c.group.register \in Field

ASSUME LayoutAssumption ==
  /\ IsFiniteSet(Members) /\ Manual \subseteq Members /\ Pools \subseteq SUBSET Members /\ None \notin Pools
  /\ MaxCount \in Nat /\ MaxDepth \in Nat
  /\ \A n \in 0 .. MaxDepth : \A c \in Classes[n] :
       IsComponent(c) /\ (c.group # None => n > 0 /\ c.group.of \in Classes[n - 1])
  \* a member is no instance of a group
  /\ \A m \in Members : \A c \in Layouts(m) : c \in Classes[MaxDepth] /\ c.inst = 0
  \* restrict_fields() is a method of Component, add() and remove() of the other;
  \* a ManualComponent's addresses are absolute
  /\ \A m \in Manual : \A c \in Layouts(m) : c.index = 1 /\ c.base = 0
  /\ \A m \in Manual : \A c \in Layouts(m) : \A f \in Targets : f \in Field /\ f.count <= c.limit

VARIABLES
  comp,     \* per member: the component it is now
  parent,   \* per member: the last ComponentGroup made with it, or None
  poolMap,  \* per ComponentGroup there is: its merged map
  torn,     \* the ComponentGroups whose last re-merge raised
  raised,   \* did the last operation raise?
  dropped,  \* per member: the fields restrict_fields() dropped so far
  excluded  \* per member: the addresses it took away with them

history == <<dropped, excluded>>
vars == <<comp, parent, poolMap, torn, raised, history>>

-----------------------------------------------------------------------------
\* Where things are.
DeclaredAddress(c, f) == f.at + f.step * (c.index - 1)
DeclaredScale(c, f) == f.scale + f.scaleStep * (c.index - 1)
Address(c, f) == DeclaredAddress(c, f) + c.base + c.inst
\* Mutant: a scale register that stays where the class declares it.
ScaleUnmoved(c, f) == DeclaredScale(c, f) + (IF c.scaleInBlock THEN c.inst ELSE 0)

ScaleAddress(c, f) ==
  DeclaredScale(c, f) + c.base + (IF c.scaleInBlock THEN c.inst ELSE 0)

Span(s, address, count) == [space |-> s, cells |-> <<address, address + count - 1>>]

\* The register that counts a group is read with the component's own fields; a
\* count that is not in the block stays put while the instance's fields move.
CountSpans(c) ==
  IF c.group = None \/ c.group.register = None THEN {}
  ELSE LET f == c.group.register
           at == IF c.group.countInBlock THEN Address(c, f) ELSE Address(c, f) - c.inst
       IN {Span(f.space, at, f.count)}

OwnSpans(c) ==
  {Span(f.space, Address(c, f), f.count) : f \in c.fields} \cup
  {Span(f.space, ScaleAddress(c, f), 1) : f \in {g \in c.fields : g.scale # None}} \cup
  CountSpans(c)

\* Instances inherit the base offset and add their own shift.
Instances(c) ==
  IF c.group = None THEN {}
  ELSE {[c.group.of EXCEPT !.base = c.base, !.inst = c.inst + i * c.group.stride] :
          i \in 0 .. c.group.size - 1}

\* The component, its instances, theirs, and so on down.
Levels(c) ==
  LET level[n \in 0 .. MaxDepth] ==
        IF n = 0 THEN {c} ELSE UNION {Instances(i) : i \in level[n - 1]}
  IN level
Parts(c) == UNION {Levels(c)[n] : n \in 0 .. MaxDepth}
Spans(c) == UNION {OwnSpans(i) : i \in Parts(c)}

\* A map is stated for the declared addresses, and moves with the layout.
OwnMap(c) == Shifted(c.map, c.base + c.inst)

\* The readable map, with the instances' (maps) merged in.  Where any part has a map,
\* the parts that have none claim what they read, planned together.
WithInstances(c, maps) ==
  LET own == OwnMap(c)
      parts == {<<own, OwnSpans(c)>>} \cup {<<maps[i], Spans(i)>> : i \in Instances(c)}
      all == {p[1] : p \in parts}
      mapped == {s \in Spaces : \E m \in all : m[s] # None}
      loose == UNION {Unmapped(p[1], p[2]) : p \in parts}
  IN IF Instances(c) = {} THEN own
     ELSE IF Refused \in all THEN Refused
     ELSE Merged(all \cup {Claimed({x \in loose : x.space \in mapped}, c.gap, c.limit)})

\* The deepest instances have no groups; above them, level by level.
Resolved(c) ==
  LET resolved[n \in 0 .. MaxDepth] ==
        [i \in Levels(c)[MaxDepth - n] |->
           IF n = 0 THEN OwnMap(i) ELSE WithInstances(i, resolved[n - 1])]
  IN resolved[MaxDepth][c]

PlanOf(c) == Plan(Spans(c), Resolved(c), c.gap, c.limit)

-----------------------------------------------------------------------------
\* A ComponentGroup: each member's map, or the claim that stands for it.
MemberMaps(c) ==
  LET map == Resolved(c)
  IN IF map = Refused THEN {Refused}
     ELSE {map, Claimed(Unmapped(map, Spans(c)), c.gap, c.limit)}

\* Mutant: what the members read without a map is claimed as one.
PoolMapBridged(S, f) ==
  Merged({Resolved(f[m]) : m \in S} \cup
         {Claimed(UNION {Unmapped(Resolved(f[x]), Spans(f[x])) : x \in S}, f[m].gap, f[m].limit) :
            m \in S})

PoolMap(S, f) == Merged(UNION {MemberMaps(f[m]) : m \in S})
Limits(S) == {comp[m].limit : m \in S}

\* No gap is left to bridge: every space a member reads has a map.
PoolPlan(S) == Plan(UNION {Spans(comp[m]) : m \in S}, poolMap[S], 0, Max(Limits(S)))

Init ==
  /\ comp \in {f \in [Members -> UNION {Layouts(m) : m \in Members}] :
                 \A m \in Members : f[m] \in Layouts(m)}
  /\ parent = [m \in Members |-> None]
  /\ poolMap = <<>> /\ torn = {} /\ raised = FALSE
  /\ dropped = [m \in Members |-> {}] /\ excluded = [m \in Members |-> {}]

\* The members' parent is set before the constructor can raise: they then belong to a
\* ComponentGroup nobody has, and to no other.  An earlier ComponentGroup that a member
\* is taken from hears of no more changes, and is not followed any further.
MakePool(S) ==
  LET merged == PoolMap(S, comp)
      fails == merged = Refused \/ Cardinality(Limits(S)) > 1
  IN /\ parent' = [m \in Members |-> IF m \in S THEN S ELSE parent[m]]
     /\ raised' = fails
     /\ LET others == {P \in DOMAIN poolMap : P \cap S = {}} IN
          /\ poolMap' = [P \in others \cup (IF fails THEN {} ELSE {S}) |->
                           IF P = S THEN merged ELSE poolMap[P]]
          /\ torn' = torn \cap others
     /\ UNCHANGED <<comp, history>>

\* Mutant: the ComponentGroup keeps the map it was made with.
ReshapeAlone(m, c) ==
  /\ comp' = [comp EXCEPT ![m] = c]
  /\ raised' = FALSE
  /\ UNCHANGED <<poolMap, torn, parent>>

\* A change of a member's layout makes its ComponentGroup merge anew, which raises,
\* with the layout changed, if the members have come to conflict.
Reshape(m, c) ==
  LET P == parent[m]
      merged == IF P = None THEN None ELSE PoolMap(P, [comp EXCEPT ![m] = c])
      made == P \in DOMAIN poolMap
  IN /\ comp' = [comp EXCEPT ![m] = c]
     /\ raised' = (merged = Refused)
     /\ poolMap' = IF made /\ ~raised' THEN [poolMap EXCEPT ![P] = merged] ELSE poolMap
     /\ torn' = IF ~made THEN torn ELSE IF raised' THEN torn \cup {P} ELSE torn \ {P}
     /\ UNCHANGED parent

-----------------------------------------------------------------------------
\* restrict_fields(): the dropped fields' addresses, unless a kept field reads them
\* too, are taken out of the map; where there was none, out of a claim of what the
\* kept fields read.
DeclaredSpans(c, fields) ==
  {Span(f.space, DeclaredAddress(c, f), f.count) : f \in fields}
\* Mutant: the scale registers of the kept fields are forgotten.
DeclaredUnscaled(c, fields) == DeclaredSpans(c, fields)

DeclaredReads(c, fields) ==
  DeclaredSpans(c, fields) \cup
  {Span(f.space, DeclaredScale(c, f), 1) : f \in {g \in fields : g.scale # None}}
SpanCells(spans) == AllCells({x.cells : x \in spans})
Excluded(c, s, kept, gone) ==
  SpanCells(In(DeclaredSpans(c, gone), s)) \ SpanCells(In(DeclaredReads(c, kept), s))

\* Mutant: only a map that was declared is narrowed.
ReshapedIfMapped(c, s, kept, gone) ==
  IF c.map[s] = None THEN None
  ELSE [c.map[s] EXCEPT !.ranges = Excluding(@, Excluded(c, s, kept, gone))]

Reshaped(c, s, kept, gone) ==
  LET spans == In(DeclaredReads(c, kept), s)
      out == Excluded(c, s, kept, gone)
  IN IF out = {} THEN c.map[s]
     ELSE IF c.map[s] # None
          THEN [c.map[s] EXCEPT !.ranges = Excluding(@, out)]
     ELSE IF spans = {} THEN None
     ELSE [ranges |-> Excluding(PlanBlocks(spans, None, c.gap, c.limit), out),
           declared |-> FALSE]

Restricted(c, kept) ==
  [c EXCEPT !.fields = kept,
            !.map = [s \in Spaces |-> Reshaped(c, s, kept, c.fields \ kept)]]

RestrictFields(m, kept) ==
  /\ m \notin Manual /\ comp[m].group = None
  /\ Reshape(m, Restricted(comp[m], kept))
  /\ dropped' = [dropped EXCEPT ![m] = @ \cup (comp[m].fields \ kept)]
  /\ excluded' = [excluded EXCEPT ![m] = @ \cup UNION
       {{s} \X Excluded(comp[m], s, kept, comp[m].fields \ kept) : s \in Spaces}]

\* A poll finds another count in the device for a member's own group.  The counts of
\* groups nested in the instances, resized one by one afterwards, stay as they are.
Resize(m, n) ==
  /\ comp[m].group # None /\ comp[m].group.register # None
  /\ n # comp[m].group.size
  /\ Reshape(m, [comp[m] EXCEPT !.group.size = n])
  /\ UNCHANGED history

RemoveTarget(m, f) ==
  /\ m \in Manual /\ f \in comp[m].fields
  /\ Reshape(m, [comp[m] EXCEPT !.fields = @ \ {f}])
  /\ UNCHANGED history

\* add() first removes whatever the key stood for, which is enough to raise if the
\* ComponentGroup cannot be merged as it is; then nothing is added.
AddTarget(m, f) ==
  /\ m \in Manual /\ f \notin comp[m].fields
  /\ LET stuck == parent[m] # None /\ PoolMap(parent[m], comp) = Refused
     IN Reshape(m, [comp[m] EXCEPT !.fields = IF stuck THEN @ ELSE @ \cup {f}])
  /\ UNCHANGED history

Next ==
  \/ \E S \in Pools : MakePool(S)
  \/ \E m \in Members :
       \/ \E kept \in SUBSET comp[m].fields : RestrictFields(m, kept)
       \/ \E n \in 0 .. MaxCount : Resize(m, n)
       \/ \E f \in Targets : AddTarget(m, f) \/ RemoveTarget(m, f)

Spec == Init /\ [][Next]_vars
-----------------------------------------------------------------------------
\* A ComponentGroup that all its members still belong to, and whose last merge went
\* through; and the addresses a plan reads.
Current(S) == S \in DOMAIN poolMap \ torn
Reads(plan, s) == AllCells(plan[s])

\* The maps and claims a member brings along, its instances' included.
Declared(c, s) ==
  UNION {OwnMap(i)[s].ranges : i \in {j \in Parts(c) : OwnMap(j)[s] # None /\ OwnMap(j)[s].declared}}

\* One plan: no field is read in two halves, no block is wider than the device
\* takes, and none reaches across an edge that some declaration drew.
Sound(plan, spans, limit, members) ==
  \A s \in Spaces :
    /\ \A x \in In(spans, s) : \E b \in plan[s] : Cells(x.cells) \subseteq Cells(b)
    /\ \A b \in plan[s] : Width(b) <= limit
    /\ \A c \in members :
         LET edges == Edges(Declared(c, s)) IN
         \A b \in plan[s] : edges \cap (b[1] + 1 .. b[2]) = {}

\* Every target of every plan is read, whole, by blocks that keep to the limit and
\* to the boundaries the authors declared, alone or pooled.
PlansAreSound ==
  /\ \A m \in Members : LET c == comp[m]
                           plan == PlanOf(c) IN
       plan # Refused => Sound(plan, Spans(c), c.limit, {c})
  /\ \A S \in Pools : LET plan == PoolPlan(S) IN
       Current(S) /\ plan # Refused =>
       Sound(plan, UNION {Spans(comp[m]) : m \in S}, Max(Limits(S)),
             {comp[m] : m \in S})

\* Pooling never widens a read: what a ComponentGroup reads, some member's map
\* covers, or that member reads by itself where it has no map.
PoolReadsNothingMore ==
  \A S \in Pools : Current(S) /\ PoolPlan(S) # Refused =>
    \A s \in Spaces : Reads(PoolPlan(S), s) \subseteq
      UNION {LET c == comp[m]
                 map == Resolved(c) IN
             IF map[s] # None THEN AllCells(map[s].ranges)
             ELSE Reads(Plan(Unmapped(map, Spans(c)), Unconstrained, c.gap, c.limit), s) : m \in S}

\* A component never reads an address that restrict_fields() took away from it: a
\* dropped field's, unless a field that was kept read it, scale registers included.
ExcludedIsNotRead ==
  \A m \in Members : LET c == comp[m] IN
    PlanOf(c) # Refused =>
      \A d \in excluded[m] : d[2] + c.base \notin Reads(PlanOf(c), d[1])

\* The whole layout moves with its base offset, maps and restrictions with it.
RelocationMovesPlan ==
  \A m \in Members \ Manual : LET c == comp[m]
                                plan == PlanOf(c)
                                moved == PlanOf([c EXCEPT !.base = @ + 1]) IN
    IF plan = Refused THEN moved = Refused
    ELSE moved = [s \in Spaces |-> {<<b[1] + 1, b[2] + 1>> : b \in plan[s]}]

\* A ComponentGroup merges its members' maps again whenever one is reshaped.
PoolMapIsCurrent ==
  \A S \in Pools : Current(S) => poolMap[S] = PoolMap(S, comp)

\* Narrowing a component whose fields do not overlap never makes it unreadable: its
\* kept fields stay whole in one range of the narrowed map, scale registers too.
RestrictKeepsReadable ==
  [][\A m \in Members : LET c == comp[m] IN
       /\ dropped'[m] # dropped[m] /\ PlanOf(c) # Refused
       /\ \A s \in Spaces : Valid({x.cells : x \in In(Spans(c), s)})
       => PlanOf(comp'[m]) # Refused]_vars

\* restricting-fields.md: a block read can never span an excluded register, be it that
\* a field the component has kept until now reads it.
DroppedIsNotRead ==
  \A m \in Members : LET c == comp[m] IN
    PlanOf(c) # Refused =>
      \A x \in DeclaredSpans(c, dropped[m]) : \A a \in Cells(x.cells) :
        a + c.base \in Reads(PlanOf(c), x.space) =>
          a \in SpanCells(In(DeclaredReads(c, c.fields), x.space))

\* component-group.md: reshaping a member through restrict_fields is supported at
\* any time.
RestrictIsSupported ==
  [][\A m \in Members :
       dropped'[m] # dropped[m] /\ parent[m] # None /\ Current(parent[m]) => ~raised']_vars
=============================================================================
