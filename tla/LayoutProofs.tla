---------------------------- MODULE LayoutProofs ----------------------------
(* Theorems about Layout: what the components of a unit and the             *)
(* ComponentGroups over them read, whatever their classes are.              *)
EXTENDS Layout, PlanningProofs

-----------------------------------------------------------------------------
(* The merged map of a ComponentGroup.                                     *)

LEMMA PoolMapOfMembers ==
  ASSUME NEW S, NEW f, NEW g, \A m \in S : f[m] = g[m]
  PROVE  PoolMap(S, f) = PoolMap(S, g)
<1>1. {MemberMaps(f[m]) : m \in S} = {MemberMaps(g[m]) : m \in S}
  OBVIOUS
<1>2. QED BY <1>1 DEF PoolMap

\* A ComponentGroup there is has all its members, and its map is that of its members as
\* they are, unless its last merge raised.
PoolInv ==
  /\ DOMAIN comp = Members
  /\ parent \in [Members -> Pools \cup {None}]
  /\ DOMAIN poolMap \subseteq Pools
  /\ \A P \in DOMAIN poolMap : \A m \in P : parent[m] = P
  /\ \A P \in DOMAIN poolMap \ torn : poolMap[P] = PoolMap(P, comp)

LEMMA PoolInvInit == Init => PoolInv
BY DEF Init, PoolInv

LEMMA MakePoolKeepsMaps ==
  ASSUME PoolInv, NEW S \in Pools, MakePool(S)
  PROVE  PoolInv'
<1> DEFINE merged == PoolMap(S, comp)
           fails == merged = Refused \/ Cardinality(Limits(S)) > 1
           others == {P \in DOMAIN poolMap : P \cap S = {}}
           made == others \cup (IF fails THEN {} ELSE {S})
<1>1. /\ parent' = [m \in Members |-> IF m \in S THEN S ELSE parent[m]]
      /\ poolMap' = [P \in made |-> IF P = S THEN merged ELSE poolMap[P]]
      /\ torn' = torn \cap others
      /\ comp' = comp
  BY DEF MakePool
<1>2. S \subseteq Members
  BY LayoutAssumption
<1> HIDE DEF merged, fails
<1>3. DOMAIN poolMap' = made /\ made \subseteq Pools
  BY <1>1 DEF PoolInv
<1>4. parent' \in [Members -> Pools \cup {None}]
  BY <1>1 DEF PoolInv
<1>5. ASSUME NEW P \in made, NEW m \in P PROVE parent'[m] = P
  <2>1. m \in Members
    BY <1>3, LayoutAssumption
  <2>2. CASE P = S
    BY <1>1, <2>1, <2>2
  <2>3. CASE P # S
    <3>1. P \in others
      BY <2>3
    <3>2. m \notin S /\ parent[m] = P
      BY <3>1 DEF PoolInv
    <3>3. QED BY <1>1, <2>1, <3>2
  <2>4. QED BY <2>2, <2>3
<1>6. ASSUME NEW P \in made \ torn' PROVE poolMap'[P] = PoolMap(P, comp)
  <2>1. CASE P = S
    BY <1>1, <2>1 DEF merged
  <2>2. CASE P # S
    <3>1. P \in others /\ P \notin torn
      BY <1>1, <2>2
    <3>2. poolMap[P] = PoolMap(P, comp)
      BY <3>1 DEF PoolInv
    <3>3. QED BY <1>1, <2>2, <3>2
  <2>3. QED BY <2>1, <2>2
<1> HIDE DEF made, others
<1>7. PoolMap(S, comp)' = PoolMap(S, comp') /\ \A P : PoolMap(P, comp') = PoolMap(P, comp)
  BY <1>1
<1>8. QED BY <1>1, <1>3, <1>4, <1>5, <1>6, <1>7 DEF PoolInv

LEMMA ReshapeKeepsMaps ==
  ASSUME PoolInv, NEW m \in Members, NEW c, Reshape(m, c)
  PROVE  PoolInv'
<1> DEFINE P == parent[m]
           merged == IF P = None THEN None ELSE PoolMap(P, [comp EXCEPT ![m] = c])
           made == P \in DOMAIN poolMap
<1>1. /\ comp' = [comp EXCEPT ![m] = c]
      /\ raised' = (merged = Refused)
      /\ poolMap' = IF made /\ ~raised' THEN [poolMap EXCEPT ![P] = merged] ELSE poolMap
      /\ torn' = IF ~made THEN torn ELSE IF raised' THEN torn \cup {P} ELSE torn \ {P}
      /\ parent' = parent
  BY DEF Reshape
<1>2. DOMAIN comp' = Members /\ DOMAIN poolMap' = DOMAIN poolMap
  BY <1>1 DEF PoolInv
<1>3. ASSUME NEW Q \in DOMAIN poolMap \ torn' PROVE poolMap'[Q] = PoolMap(Q, comp')
  <2>1. CASE Q = P
    <3>1. made /\ ~raised'
      BY <1>1, <2>1
    <3>2. P \in Pools /\ P # None
      BY <3>1, LayoutAssumption DEF PoolInv
    <3>3. merged = PoolMap(P, comp')
      BY <1>1, <3>2
    <3> HIDE DEF merged
    <3>4. poolMap'[P] = merged
      BY <1>1, <3>1
    <3>5. QED BY <2>1, <3>3, <3>4
  <2>2. CASE Q # P
    <3>1. Q \in DOMAIN poolMap \ torn /\ poolMap'[Q] = poolMap[Q]
      BY <1>1, <2>2
    <3>2. m \notin Q
      BY <2>2, <3>1 DEF PoolInv
    <3>3. Q \subseteq Members
      BY <3>1, LayoutAssumption DEF PoolInv
    <3>4. \A k \in Q : comp'[k] = comp[k]
      BY <1>1, <3>2, <3>3 DEF PoolInv
    <3>5. PoolMap(Q, comp') = PoolMap(Q, comp)
      BY <3>4, PoolMapOfMembers
    <3>6. QED BY <3>1, <3>5 DEF PoolInv
  <2>3. QED BY <2>1, <2>2
<1> HIDE DEF P, merged, made
<1>4. QED BY <1>1, <1>2, <1>3 DEF PoolInv

\* Every change of a component but the merge itself goes through Reshape.
LEMMA ChangesReshape ==
  ASSUME NEW m \in Members,
         \/ \E kept \in SUBSET comp[m].fields : RestrictFields(m, kept)
         \/ \E n \in 0 .. MaxCount : Resize(m, n)
         \/ \E f \in Targets : AddTarget(m, f) \/ RemoveTarget(m, f)
  PROVE  \E c : Reshape(m, c)
BY Zenon DEF RestrictFields, Resize, AddTarget, RemoveTarget

LEMMA PoolInvNext == PoolInv /\ [Next]_vars => PoolInv'
<1> SUFFICES ASSUME PoolInv, [Next]_vars PROVE PoolInv'
  OBVIOUS
<1>1. CASE UNCHANGED vars
  BY <1>1 DEF vars, PoolInv
<1>2. ASSUME NEW S \in Pools, MakePool(S) PROVE PoolInv'
  BY <1>2, MakePoolKeepsMaps
<1>3. ASSUME NEW m \in Members,
             \/ \E kept \in SUBSET comp[m].fields : RestrictFields(m, kept)
             \/ \E n \in 0 .. MaxCount : Resize(m, n)
             \/ \E f \in Targets : AddTarget(m, f) \/ RemoveTarget(m, f)
      PROVE  PoolInv'
  <2>1. PICK c : Reshape(m, c)
    BY <1>3, ChangesReshape
  <2>2. QED BY <2>1, ReshapeKeepsMaps
<1>4. QED BY <1>1, <1>2, <1>3 DEF Next

LEMMA PoolInvAlways == Spec => []PoolInv
BY PoolInvInit, PoolInvNext, PTL DEF Spec

\* PoolMapIsCurrent: a ComponentGroup whose last merge went through has the merged map of
\* its members as they are now (component_group.py, _invalidate_caches).
THEOREM PoolsFollowMembers == Spec => []PoolMapIsCurrent
<1>1. PoolInv => PoolMapIsCurrent
  BY DEF PoolInv, PoolMapIsCurrent, Current
<1>2. QED BY <1>1, PoolInvAlways, PTL

-----------------------------------------------------------------------------
(* What a component occupies.                                              *)

\* A component, or a class, whose groups nest at most n deep.
Nests(c, n) ==
  /\ IsComponent(c)
  /\ c.group # None => n > 0 /\ c.group.of \in Classes[n - 1]

LEMMA FieldType ==
  ASSUME NEW f \in Field
  PROVE  /\ f.space \in Spaces /\ f.at \in Nat /\ f.step \in Nat /\ f.count \in Nat \ {0}
         /\ f.scaleStep \in Nat /\ (f.scale # None => f.scale \in Nat)
BY DEF Field

LEMMA SpanIsSpan ==
  ASSUME NEW s \in Spaces, NEW a \in Nat, NEW n \in Nat \ {0}
  PROVE  Span(s, a, n) \in SpanType
<1>1. a + n - 1 \in Nat /\ a <= a + n - 1
  OBVIOUS
<1>2. <<a, a + n - 1>> \in AddressRange
  BY <1>1, PairIsRange
<1>3. QED BY <1>2 DEF Span, SpanType

LEMMA StepsType ==
  ASSUME NEW at \in Nat, NEW step \in Nat, NEW index \in Nat \ {0}
  PROVE  at + step * (index - 1) \in Nat
<1>1. index - 1 \in Nat
  OBVIOUS
<1>2. step * (index - 1) \in Nat
  BY <1>1
<1>3. QED BY <1>2

LEMMA AddressType ==
  ASSUME NEW c, IsComponent(c), NEW f \in Field
  PROVE  /\ DeclaredAddress(c, f) \in Nat /\ Address(c, f) \in Nat
         /\ Address(c, f) - c.inst \in Nat
         /\ f.scale # None => DeclaredScale(c, f) \in Nat /\ ScaleAddress(c, f) \in Nat
<1>1. c.index \in Nat \ {0} /\ c.base \in Nat /\ c.inst \in Nat
  BY DEF IsComponent
<1>2. f.at \in Nat /\ f.step \in Nat /\ f.scaleStep \in Nat /\ (f.scale # None => f.scale \in Nat)
  BY FieldType
<1>3. DeclaredAddress(c, f) \in Nat /\ (f.scale # None => DeclaredScale(c, f) \in Nat)
  BY <1>1, <1>2, StepsType DEF DeclaredAddress, DeclaredScale
<1>4. Address(c, f) \in Nat /\ Address(c, f) - c.inst \in Nat
  BY <1>1, <1>3 DEF Address
<1>5. f.scale # None => ScaleAddress(c, f) \in Nat
  BY <1>1, <1>3 DEF ScaleAddress
<1>6. QED BY <1>3, <1>4, <1>5

LEMMA OwnSpansType ==
  ASSUME NEW c, IsComponent(c)
  PROVE  IsFiniteSet(OwnSpans(c)) /\ OwnSpans(c) \subseteq SpanType
<1> DEFINE fields == c.fields
           scaled == {g \in fields : g.scale # None}
           a == [f \in fields |-> Span(f.space, Address(c, f), f.count)]
           b == [f \in scaled |-> Span(f.space, ScaleAddress(c, f), 1)]
           A == {Span(f.space, Address(c, f), f.count) : f \in fields}
           B == {Span(f.space, ScaleAddress(c, f), 1) : f \in scaled}
<1>1. IsFiniteSet(fields) /\ \A f \in fields : f \in Field
  BY DEF IsComponent
<1>2. ASSUME NEW f \in fields
      PROVE  /\ Span(f.space, Address(c, f), f.count) \in SpanType
             /\ f.scale # None => Span(f.space, ScaleAddress(c, f), 1) \in SpanType
  BY <1>1, AddressType, FieldType, SpanIsSpan
<1>3. IsFiniteSet(scaled)
  BY <1>1, FS_Subset
<1>4. {a[f] : f \in DOMAIN a} = A /\ {b[f] : f \in DOMAIN b} = B
  OBVIOUS
<1>5. IsFiniteSet({a[f] : f \in DOMAIN a}) /\ IsFiniteSet({b[f] : f \in DOMAIN b})
  BY <1>1, <1>3, ImageIsFinite
<1>6. IsFiniteSet(A) /\ A \subseteq SpanType /\ IsFiniteSet(B) /\ B \subseteq SpanType
  BY <1>2, <1>4, <1>5
<1>7. IsFiniteSet(CountSpans(c)) /\ CountSpans(c) \subseteq SpanType
  <2>1. CASE c.group = None \/ c.group.register = None
    BY <2>1, FS_EmptySet DEF CountSpans
  <2>2. CASE ~(c.group = None \/ c.group.register = None)
    <3> DEFINE f == c.group.register
               at == IF c.group.countInBlock THEN Address(c, f) ELSE Address(c, f) - c.inst
               x == Span(f.space, at, f.count)
    <3>1. f \in Field
      BY <2>2 DEF IsComponent
    <3>2. at \in Nat
      BY <3>1, AddressType
    <3>3. x \in SpanType
      <4> HIDE DEF at, f
      <4>1. QED BY <3>1, <3>2, FieldType, SpanIsSpan
    <3>4. CountSpans(c) = {x}
      BY <2>2 DEF CountSpans
    <3> HIDE DEF x
    <3>5. IsFiniteSet({x})
      BY FS_Singleton
    <3>6. QED BY <3>3, <3>4, <3>5
  <2>3. QED BY <2>1, <2>2
<1>8. OwnSpans(c) = A \cup B \cup CountSpans(c)
  BY DEF OwnSpans
<1> HIDE DEF A, B
<1>9. IsFiniteSet(A \cup B)
  BY <1>6, FS_Union
<1>10. IsFiniteSet((A \cup B) \cup CountSpans(c))
  BY <1>7, <1>9, FS_Union
<1>11. QED BY <1>6, <1>7, <1>8, <1>10

LEMMA InstancesType ==
  ASSUME NEW c, NEW n \in 0 .. MaxDepth, Nests(c, n)
  PROVE  /\ IsFiniteSet(Instances(c))
         /\ n = 0 => Instances(c) = {}
         /\ \A i \in Instances(c) : n > 0 /\ Nests(i, n - 1)
<1>1. CASE c.group = None
  BY <1>1, FS_EmptySet DEF Instances
<1>2. CASE c.group # None
  <2> DEFINE of == c.group.of
             move(k) == [of EXCEPT !.base = c.base, !.inst = c.inst + k * c.group.stride]
             N == 0 .. c.group.size - 1
             f == [k \in N |-> move(k)]
  <2>1. /\ n > 0 /\ of \in Classes[n - 1] /\ n - 1 \in 0 .. MaxDepth
        /\ c.group.stride \in Nat /\ c.group.size \in Nat /\ c.base \in Nat /\ c.inst \in Nat
    BY <1>2, LayoutAssumption DEF Nests, IsComponent
  <2>2. IsComponent(of) /\ (of.group # None => n - 1 > 0 /\ of.group.of \in Classes[n - 1 - 1])
    BY <2>1, LayoutAssumption
  <2>3. Instances(c) = {move(k) : k \in N}
    BY <1>2 DEF Instances
  <2>4. IsFiniteSet(Instances(c))
    <3>1. IsFiniteSet(N)
      <4>1. 0 \in Int /\ c.group.size - 1 \in Int
        BY <2>1
      <4>2. QED BY <4>1, FS_Interval
    <3> HIDE DEF N, move
    <3>2. IsFiniteSet({f[k] : k \in DOMAIN f})
      BY <3>1, ImageIsFinite
    <3>3. {f[k] : k \in DOMAIN f} = {move(k) : k \in N}
      OBVIOUS
    <3>4. QED BY <2>3, <3>2, <3>3
  <2>5. ASSUME NEW k \in N PROVE Nests(move(k), n - 1)
    <3>1. c.inst + k * c.group.stride \in Nat
      BY <2>1
    <3>2. DOMAIN of = {"fields", "map", "index", "base", "inst", "scaleInBlock", "gap", "limit", "group"}
      BY <2>2 DEF IsComponent
    <3> HIDE DEF of
    <3>3. /\ DOMAIN move(k) = DOMAIN of
          /\ move(k).base = c.base /\ move(k).inst = c.inst + k * c.group.stride
          /\ move(k).fields = of.fields /\ move(k).map = of.map /\ move(k).index = of.index
          /\ move(k).gap = of.gap /\ move(k).limit = of.limit /\ move(k).group = of.group
      BY <3>2
    <3> HIDE DEF move
    <3>4. QED BY <2>1, <2>2, <3>1, <3>3 DEF Nests, IsComponent
  <2> HIDE DEF N, move
  <2>6. \A i \in Instances(c) : Nests(i, n - 1)
    BY <2>3, <2>5
  <2>7. QED BY <2>1, <2>4, <2>6
<1>3. QED BY <1>1, <1>2

\* What the recursion behind Levels says, for its first N levels.
Descent(c, N, level) ==
  level = [n \in 0 .. N |-> IF n = 0 THEN {c} ELSE UNION {Instances(i) : i \in level[n - 1]}]

LEMMA DescentsExist ==
  ASSUME NEW c, NEW N \in Nat
  PROVE  \E level : Descent(c, N, level)
<1> DEFINE Below(is) == UNION {Instances(i) : i \in is}
           Sol(n, level) == level = [k \in 0 .. n |-> IF k = 0 THEN {c} ELSE Below(level[k - 1])]
           T == {n \in Nat : \E level : Sol(n, level)}
<1> HIDE DEF Below
<1>1. 0 \in T
  <2>1. Sol(0, [k \in 0 .. 0 |-> {c}])
    OBVIOUS
  <2>2. QED BY <2>1
<1>2. ASSUME NEW n \in 0 .. N - 1, n \in T PROVE n + 1 \in T
  <2>1. PICK level : Sol(n, level)
    BY <1>2
  <2> DEFINE longer == [k \in 0 .. n + 1 |-> IF k = n + 1 THEN Below(level[n]) ELSE level[k]]
  <2>2. \A k \in 0 .. n : longer[k] = level[k]
    OBVIOUS
  <2>3. \A k \in 0 .. n : level[k] = IF k = 0 THEN {c} ELSE Below(level[k - 1])
    BY <2>1
  <2>4. ASSUME NEW k \in 0 .. n + 1
        PROVE  longer[k] = IF k = 0 THEN {c} ELSE Below(longer[k - 1])
    <3>1. CASE k = n + 1
      BY <2>2, <3>1
    <3>2. CASE k # n + 1
      <4>1. k \in 0 .. n /\ (k # 0 => k - 1 \in 0 .. n)
        BY <3>2
      <4>2. longer[k] = level[k] /\ (k # 0 => longer[k - 1] = level[k - 1])
        BY <2>2, <4>1
      <4>3. QED BY <2>3, <4>1, <4>2
    <3>3. QED BY <3>1, <3>2
  <2>5. longer = [k \in 0 .. n + 1 |-> longer[k]]
    OBVIOUS
  <2> HIDE DEF longer
  <2>6. Sol(n + 1, longer)
    BY <2>4, <2>5
  <2>7. QED BY <2>6
<1>3. T \subseteq Nat
  OBVIOUS
<1> HIDE DEF T
<1>4. 0 .. N \subseteq T
  BY <1>1, <1>2, <1>3, FromZero
<1>5. N \in T
  BY <1>4
<1>6. QED BY <1>5 DEF T, Descent, Below

LEMMA LevelsDef ==
  ASSUME NEW c
  PROVE  /\ Levels(c)[0] = {c}
         /\ \A n \in 0 .. MaxDepth - 1 : Levels(c)[n + 1] = UNION {Instances(i) : i \in Levels(c)[n]}
<1> DEFINE level == Levels(c)
<1>1. MaxDepth \in Nat
  BY LayoutAssumption
<1>2. level = CHOOSE l : Descent(c, MaxDepth, l)
  BY DEF Levels, Descent
<1>3. \E l : Descent(c, MaxDepth, l)
  BY <1>1, DescentsExist
<1> HIDE DEF level
<1>4. Descent(c, MaxDepth, level)
  BY <1>2, <1>3, Zenon
<1>5. \A n \in 0 .. MaxDepth :
        level[n] = IF n = 0 THEN {c} ELSE UNION {Instances(i) : i \in level[n - 1]}
  BY <1>4 DEF Descent
<1>6. level[0] = {c}
  <2>1. 0 \in 0 .. MaxDepth
    BY <1>1
  <2>2. QED BY <1>5, <2>1
<1>7. ASSUME NEW n \in 0 .. MaxDepth - 1
      PROVE  level[n + 1] = UNION {Instances(i) : i \in level[n]}
  <2>1. n + 1 \in 0 .. MaxDepth /\ n + 1 # 0 /\ (n + 1) - 1 = n
    BY <1>1
  <2>2. QED BY <1>5, <2>1
<1>8. QED BY <1>6, <1>7 DEF level

\* n levels down there are finitely many parts, whose groups nest n levels less deep.
LEMMA LevelsType ==
  ASSUME NEW c, NEW d \in 0 .. MaxDepth, Nests(c, d)
  PROVE  \A n \in 0 .. MaxDepth :
           /\ IsFiniteSet(Levels(c)[n])
           /\ n > d => Levels(c)[n] = {}
           /\ n <= d => \A i \in Levels(c)[n] : Nests(i, d - n)
<1> DEFINE level == Levels(c)
           P(n) == /\ IsFiniteSet(level[n])
                   /\ n > d => level[n] = {}
                   /\ n <= d => \A i \in level[n] : Nests(i, d - n)
           T == {n \in Nat : n <= MaxDepth => P(n)}
<1>1. MaxDepth \in Nat
  BY LayoutAssumption
<1>2. /\ level[0] = {c}
      /\ \A n \in 0 .. MaxDepth - 1 : level[n + 1] = UNION {Instances(i) : i \in level[n]}
  BY LevelsDef
<1> HIDE DEF level
<1>3. 0 \in T
  <2>1. IsFiniteSet({c})
    BY FS_Singleton
  <2>2. QED BY <1>1, <1>2, <2>1
<1>4. ASSUME NEW n \in 0 .. MaxDepth - 1, n \in T PROVE n + 1 \in T
  <2>1. P(n)
    BY <1>1, <1>4
  <2>2. level[n + 1] = UNION {Instances(i) : i \in level[n]}
    BY <1>2
  <2>3. CASE n > d
    <3>1. level[n + 1] = {}
      BY <2>1, <2>2, <2>3
    <3>2. QED BY <2>3, <3>1, FS_EmptySet
  <2>4. CASE n <= d
    <3> DEFINE f == [i \in level[n] |-> Instances(i)]
    <3>1. d - n \in 0 .. MaxDepth
      BY <2>4, <1>1
    <3>2. \A i \in level[n] : /\ IsFiniteSet(Instances(i))
                              /\ d - n = 0 => Instances(i) = {}
                              /\ \A j \in Instances(i) : d - n > 0 /\ Nests(j, d - n - 1)
      BY <2>1, <2>4, <3>1, InstancesType
    <3>3. IsFiniteSet({f[i] : i \in DOMAIN f}) /\ {f[i] : i \in DOMAIN f} = {Instances(i) : i \in level[n]}
      BY <2>1, ImageIsFinite
    <3>4. IsFiniteSet(level[n + 1])
      <4>1. IsFiniteSet({Instances(i) : i \in level[n]})
        BY <3>3
      <4>2. QED BY <2>2, <3>2, <4>1, FS_UNION
    <3>5. n + 1 > d => level[n + 1] = {}
      BY <2>2, <2>4, <3>2
    <3>6. ASSUME n + 1 <= d, NEW j \in level[n + 1] PROVE Nests(j, d - (n + 1))
      <4>1. PICK i \in level[n] : j \in Instances(i)
        BY <2>2, <3>6
      <4>2. d - n - 1 = d - (n + 1)
        OBVIOUS
      <4>3. QED BY <3>2, <4>1, <4>2
    <3>7. QED BY <3>4, <3>5, <3>6
  <2>5. QED BY <2>3, <2>4
<1>5. T \subseteq Nat
  OBVIOUS
<1> HIDE DEF T
<1>6. 0 .. MaxDepth \subseteq T
  BY <1>1, <1>3, <1>4, <1>5, FromZero
<1>7. ASSUME NEW n \in 0 .. MaxDepth PROVE P(n)
  BY <1>1, <1>6 DEF T
<1>8. QED BY <1>7 DEF level

LEMMA PartsType ==
  ASSUME NEW c, NEW d \in 0 .. MaxDepth, Nests(c, d)
  PROVE  /\ IsFiniteSet(Parts(c)) /\ c \in Parts(c)
         /\ \A i \in Parts(c) : IsComponent(i)
<1> DEFINE level == Levels(c)
           f == [n \in 0 .. MaxDepth |-> level[n]]
<1>1. MaxDepth \in Nat /\ 0 \in 0 .. MaxDepth
  BY LayoutAssumption
<1>2. \A n \in 0 .. MaxDepth : IsFiniteSet(level[n]) /\ \A i \in level[n] : IsComponent(i)
  <2>1. ASSUME NEW n \in 0 .. MaxDepth
        PROVE  IsFiniteSet(level[n]) /\ \A i \in level[n] : IsComponent(i)
    <3>1. CASE n > d
      BY <3>1, LevelsType, FS_EmptySet
    <3>2. CASE n <= d
      BY <3>2, LevelsType DEF Nests
    <3>3. QED BY <1>1, <3>1, <3>2
  <2>2. QED BY <2>1
<1>3. level[0] = {c}
  BY LevelsDef
<1>4. Parts(c) = UNION {level[n] : n \in 0 .. MaxDepth}
  BY DEF Parts
<1> HIDE DEF level
<1>5. IsFiniteSet(0 .. MaxDepth)
  BY <1>1, FS_Interval
<1>6. IsFiniteSet({f[n] : n \in DOMAIN f})
  BY <1>5, ImageIsFinite
<1>7. {f[n] : n \in DOMAIN f} = {level[n] : n \in 0 .. MaxDepth}
  OBVIOUS
<1>8. IsFiniteSet(UNION {level[n] : n \in 0 .. MaxDepth})
  BY <1>2, <1>6, <1>7, FS_UNION
<1>9. QED BY <1>1, <1>2, <1>3, <1>4, <1>8

LEMMA SpansType ==
  ASSUME NEW c, NEW d \in 0 .. MaxDepth, Nests(c, d)
  PROVE  IsFiniteSet(Spans(c)) /\ Spans(c) \subseteq SpanType
<1> DEFINE parts == Parts(c)
           f == [i \in parts |-> OwnSpans(i)]
<1>1. IsFiniteSet(parts) /\ \A i \in parts : IsComponent(i)
  BY PartsType
<1>2. \A i \in parts : IsFiniteSet(OwnSpans(i)) /\ OwnSpans(i) \subseteq SpanType
  BY <1>1, OwnSpansType
<1>3. Spans(c) = UNION {OwnSpans(i) : i \in parts}
  BY DEF Spans
<1> HIDE DEF parts
<1>4. IsFiniteSet({f[i] : i \in DOMAIN f}) /\ {f[i] : i \in DOMAIN f} = {OwnSpans(i) : i \in parts}
  BY <1>1, ImageIsFinite
<1>5. IsFiniteSet(UNION {OwnSpans(i) : i \in parts})
  BY <1>2, <1>4, FS_UNION
<1>6. QED BY <1>2, <1>3, <1>5

-----------------------------------------------------------------------------
(* Readable maps.                                                          *)

LEMMA ShiftedSpace ==
  ASSUME NEW map \in DeviceMaps, NEW offset \in Nat, NEW s \in Spaces, map[s] # None
  PROVE  LET new == Shifted(map, offset) IN
         /\ new[s] \in SpaceMaps /\ new[s] # None
         /\ new[s].ranges = {<<r[1] + offset, r[2] + offset>> : r \in map[s].ranges}
         /\ new[s].declared = map[s].declared
<1> DEFINE R == map[s].ranges
           moved == {<<r[1] + offset, r[2] + offset>> : r \in R}
           f == [r \in R |-> <<r[1] + offset, r[2] + offset>>]
           new == Shifted(map, offset)
<1>1. /\ map[s] = [ranges |-> R, declared |-> map[s].declared]
      /\ map[s].declared \in BOOLEAN /\ R \in RangeSets
  BY DeviceMapType, SpaceMapType
<1>2. \A r \in R : r[1] + offset \in Nat /\ r[2] + offset \in Nat /\ r[1] + offset <= r[2] + offset
  BY <1>1, RangeType DEF RangeSets
<1>3. \A r \in R : f[r] \in AddressRange
  BY <1>2, PairIsRange
<1>4. IsFiniteSet({f[r] : r \in DOMAIN f}) /\ {f[r] : r \in DOMAIN f} = moved
  BY <1>1, ImageIsFinite DEF RangeSets
<1>5. moved \subseteq AddressRange
  BY <1>3, <1>4
<1>6. new[s] = [map[s] EXCEPT !.ranges = moved]
  BY DEF Shifted
<1> HIDE DEF moved, new
<1>7. moved \in RangeSets
  BY <1>4, <1>5 DEF RangeSets, AddressRange
<1>8. new[s] = [ranges |-> moved, declared |-> map[s].declared]
  BY <1>1, <1>6
<1>9. new[s] \in SpaceMaps /\ new[s] # None
  BY <1>1, <1>7, <1>8, IsSpaceMap, PlanningAssumption
<1>10. QED BY <1>8, <1>9 DEF moved, new

LEMMA ShiftedType ==
  ASSUME NEW map \in DeviceMaps, NEW offset \in Nat
  PROVE  Shifted(map, offset) \in DeviceMaps
<1> DEFINE new == Shifted(map, offset)
<1>1. ASSUME NEW s \in Spaces PROVE new[s] \in SpaceMaps \cup {None}
  <2>1. CASE map[s] = None
    BY <2>1 DEF Shifted
  <2>2. CASE map[s] # None
    BY <2>2, ShiftedSpace
  <2>3. QED BY <2>1, <2>2
<1>2. new = [s \in Spaces |-> new[s]]
  BY DEF Shifted
<1> HIDE DEF new
<1>3. new \in DeviceMaps
  BY <1>1, <1>2 DEF DeviceMaps
<1>4. QED BY <1>3 DEF new

LEMMA OwnMapType ==
  ASSUME NEW c, IsComponent(c)
  PROVE  OwnMap(c) \in DeviceMaps
<1>1. c.map \in DeviceMaps /\ c.base + c.inst \in Nat
  BY DEF IsComponent
<1>2. QED BY <1>1, ShiftedType DEF OwnMap

\* No edge that one map declares is lost in the other.
Keeps(map, larger) ==
  \A s \in Spaces : map[s] # None /\ map[s].declared =>
    /\ larger[s] # None /\ larger[s].declared
    /\ Edges(map[s].ranges) \subseteq Edges(larger[s].ranges)

LEMMA KeepsOnward ==
  ASSUME NEW a, NEW b, NEW c, Keeps(a, b), Keeps(b, c)
  PROVE  Keeps(a, c)
<1>1. ASSUME NEW s \in Spaces, a[s] # None, a[s].declared
      PROVE  /\ c[s] # None /\ c[s].declared
             /\ Edges(a[s].ranges) \subseteq Edges(c[s].ranges)
  <2>1. b[s] # None /\ b[s].declared /\ Edges(a[s].ranges) \subseteq Edges(b[s].ranges)
    BY <1>1 DEF Keeps
  <2>2. c[s] # None /\ c[s].declared /\ Edges(b[s].ranges) \subseteq Edges(c[s].ranges)
    BY <2>1 DEF Keeps
  <2>3. QED BY <2>1, <2>2
<1>2. QED BY <1>1 DEF Keeps

LEMMA KeepsItself == ASSUME NEW map PROVE Keeps(map, map)
BY DEF Keeps

LEMMA MergedKeeps ==
  ASSUME NEW maps, IsFiniteSet(maps), maps \subseteq DeviceMaps \cup {Refused}, Merged(maps) # Refused
  PROVE  \A m \in maps : m \in DeviceMaps /\ Keeps(m, Merged(maps))
<1>1. /\ Merged(maps) # Refused => maps \subseteq DeviceMaps
      /\ Merged(maps) # Refused => \A s \in Spaces :
           /\ Merged(maps)[s] = None <=> \A m \in maps : m[s] = None
           /\ \A m \in maps : m[s] # None /\ m[s].declared =>
                /\ Merged(maps)[s].declared
                /\ Edges(m[s].ranges) \subseteq Edges(Merged(maps)[s].ranges)
  BY MergeKeepsDeclarations
<1>2. ASSUME NEW m \in maps, NEW s \in Spaces, m[s] # None, m[s].declared
      PROVE  /\ Merged(maps)[s] # None /\ Merged(maps)[s].declared
             /\ Edges(m[s].ranges) \subseteq Edges(Merged(maps)[s].ranges)
  BY <1>1, <1>2
<1>3. QED BY <1>1, <1>2 DEF Keeps

\* What a component and its instances bring to the merge: a map and some spans each.
Brought(c, maps) ==
  {<<OwnMap(c), OwnSpans(c)>>} \cup {<<maps[i], Spans(i)>> : i \in Instances(c)}
MapsOf(parts) == {p[1] : p \in parts}
LooseOf(parts) == UNION {Unmapped(p[1], p[2]) : p \in parts}

LEMMA PartsBring ==
  ASSUME NEW c, NEW d \in 0 .. MaxDepth, Nests(c, d),
         NEW maps, \A i \in Instances(c) : maps[i] \in DeviceMaps \cup {Refused}
  PROVE  /\ MapsOf(Brought(c, maps)) = {OwnMap(c)} \cup {maps[i] : i \in Instances(c)}
         /\ IsFiniteSet(MapsOf(Brought(c, maps)))
         /\ MapsOf(Brought(c, maps)) \subseteq DeviceMaps \cup {Refused}
         /\ \A p \in Brought(c, maps) : IsFiniteSet(p[2]) /\ p[2] \subseteq SpanType
         /\ IsFiniteSet(LooseOf(Brought(c, maps))) /\ LooseOf(Brought(c, maps)) \subseteq SpanType
<1> DEFINE own == OwnMap(c)
           parts == Brought(c, maps)
           all == MapsOf(parts)
           loose == LooseOf(parts)
<1>0. /\ parts = {<<own, OwnSpans(c)>>} \cup {<<maps[i], Spans(i)>> : i \in Instances(c)}
      /\ all = {p[1] : p \in parts} /\ loose = UNION {Unmapped(p[1], p[2]) : p \in parts}
  BY DEF Brought, MapsOf, LooseOf
<1>1. IsComponent(c) /\ own \in DeviceMaps
  BY OwnMapType DEF Nests
<1> HIDE DEF own, parts, all, loose
<1>2. all = {own} \cup {maps[i] : i \in Instances(c)}
  <2>1. \A p \in parts : p = <<own, OwnSpans(c)>> \/ \E i \in Instances(c) : p = <<maps[i], Spans(i)>>
    BY <1>0
  <2>2. <<own, OwnSpans(c)>> \in parts /\ \A i \in Instances(c) : <<maps[i], Spans(i)>> \in parts
    BY <1>0
  <2>3. <<own, OwnSpans(c)>>[1] = own /\ \A i \in Instances(c) : <<maps[i], Spans(i)>>[1] = maps[i]
    OBVIOUS
  <2>4. ASSUME NEW x \in all PROVE x = own \/ \E i \in Instances(c) : x = maps[i]
    <3>1. PICK p \in parts : x = p[1]
      BY <1>0
    <3>2. QED BY <2>1, <2>3, <3>1
  <2>5. own \in all /\ \A i \in Instances(c) : maps[i] \in all
    <3>1. \A p \in parts : p[1] \in all
      BY <1>0
    <3>2. QED BY <2>2, <2>3, <3>1, Zenon
  <2>6. QED BY <2>4, <2>5
<1>3. IsFiniteSet(Instances(c)) /\ \A i \in Instances(c) : d > 0 /\ Nests(i, d - 1)
  BY InstancesType
<1>4. IsFiniteSet(parts)
  <2> DEFINE f == [i \in Instances(c) |-> <<maps[i], Spans(i)>>]
  <2>1. IsFiniteSet({f[i] : i \in DOMAIN f})
    BY <1>3, ImageIsFinite
  <2>2. {f[i] : i \in DOMAIN f} = {<<maps[i], Spans(i)>> : i \in Instances(c)}
    OBVIOUS
  <2>3. IsFiniteSet({<<own, OwnSpans(c)>>})
    BY FS_Singleton
  <2>4. IsFiniteSet({<<maps[i], Spans(i)>> : i \in Instances(c)})
    BY <2>1, <2>2
  <2>5. QED BY <1>0, <2>3, <2>4, FS_Union
<1>5. \A p \in parts : IsFiniteSet(p[2]) /\ p[2] \subseteq SpanType
  <2>1. IsFiniteSet(OwnSpans(c)) /\ OwnSpans(c) \subseteq SpanType
    BY <1>1, OwnSpansType
  <2>2. ASSUME NEW i \in Instances(c) PROVE IsFiniteSet(Spans(i)) /\ Spans(i) \subseteq SpanType
    <3>1. d - 1 \in 0 .. MaxDepth /\ Nests(i, d - 1)
      BY <1>3, LayoutAssumption
    <3>2. QED BY <3>1, SpansType
  <2>3. QED BY <1>0, <2>1, <2>2
<1>6. IsFiniteSet(loose) /\ loose \subseteq SpanType
  <2> DEFINE f == [p \in parts |-> Unmapped(p[1], p[2])]
  <2>1. \A p \in parts : IsFiniteSet(Unmapped(p[1], p[2])) /\ Unmapped(p[1], p[2]) \subseteq SpanType
    BY <1>5, UnmappedType
  <2>2. IsFiniteSet({f[p] : p \in DOMAIN f})
    BY <1>4, ImageIsFinite
  <2>3. {f[p] : p \in DOMAIN f} = {Unmapped(p[1], p[2]) : p \in parts}
    OBVIOUS
  <2>4. IsFiniteSet({Unmapped(p[1], p[2]) : p \in parts})
    BY <2>2, <2>3
  <2>5. QED BY <1>0, <2>1, <2>4, FS_UNION
<1>7. IsFiniteSet(all) /\ all \subseteq DeviceMaps \cup {Refused}
  <2> DEFINE f == [i \in Instances(c) |-> maps[i]]
  <2>1. IsFiniteSet({f[i] : i \in DOMAIN f})
    BY <1>3, ImageIsFinite
  <2>2. {f[i] : i \in DOMAIN f} = {maps[i] : i \in Instances(c)}
    OBVIOUS
  <2>3. IsFiniteSet({own}) /\ IsFiniteSet({maps[i] : i \in Instances(c)})
    BY <2>1, <2>2, FS_Singleton
  <2>4. IsFiniteSet(all)
    BY <1>2, <2>3, FS_Union
  <2>5. QED BY <1>1, <1>2, <2>4
<1>8. QED BY <1>2, <1>5, <1>6, <1>7 DEF own, parts, all, loose

LEMMA WithInstancesKeeps ==
  ASSUME NEW c, NEW d \in 0 .. MaxDepth, Nests(c, d),
         NEW maps, \A i \in Instances(c) : maps[i] \in DeviceMaps \cup {Refused}
  PROVE  LET map == WithInstances(c, maps) IN
         /\ map \in DeviceMaps \cup {Refused}
         /\ map # Refused =>
              /\ Keeps(OwnMap(c), map)
              /\ \A i \in Instances(c) : maps[i] # Refused /\ Keeps(maps[i], map)
<1> DEFINE own == OwnMap(c)
           parts == {<<own, OwnSpans(c)>>} \cup {<<maps[i], Spans(i)>> : i \in Instances(c)}
           all == {p[1] : p \in parts}
           mapped == {s \in Spaces : \E m \in all : m[s] # None}
           loose == UNION {Unmapped(p[1], p[2]) : p \in parts}
           claim == Claimed({x \in loose : x.space \in mapped}, c.gap, c.limit)
           map == WithInstances(c, maps)
<1>1. IsComponent(c) /\ c.limit \in Nat /\ own \in DeviceMaps
  BY OwnMapType DEF Nests, IsComponent
<1>2. CASE Instances(c) = {}
  <2>1. map = own
    BY <1>2 DEF WithInstances
  <2> HIDE DEF map, own
  <2>2. QED BY <1>1, <1>2, <2>1, KeepsItself DEF own, map
<1>3. CASE Instances(c) # {} /\ Refused \in all
  <2>1. map = Refused
    BY <1>3 DEF WithInstances
  <2>2. QED BY <2>1
<1>4. CASE Instances(c) # {} /\ Refused \notin all
  <2>1. map = Merged(all \cup {claim})
    BY <1>4 DEF WithInstances
  <2>2. /\ all = {own} \cup {maps[i] : i \in Instances(c)}
        /\ IsFiniteSet(all) /\ all \subseteq DeviceMaps \cup {Refused}
        /\ IsFiniteSet(loose) /\ loose \subseteq SpanType
    <3>1. all = MapsOf(Brought(c, maps)) /\ loose = LooseOf(Brought(c, maps))
      BY DEF Brought, MapsOf, LooseOf
    <3> HIDE DEF own, parts, all, loose
    <3>2. QED BY <3>1, PartsBring DEF own
  <2>3. claim \in DeviceMaps \cup {Refused}
    <3> DEFINE X == {x \in loose : x.space \in mapped}
    <3>1. X \subseteq loose
      OBVIOUS
    <3> HIDE DEF X, loose
    <3>2. IsFiniteSet(X) /\ X \subseteq SpanType
      BY <2>2, <3>1, FS_Subset
    <3>3. Claimed(X, c.gap, c.limit) \in DeviceMaps \cup {Refused}
      BY <1>1, <3>2, ClaimedType
    <3>4. QED BY <3>3 DEF X
  <2> HIDE DEF all, claim, map, own, loose
  <2>4. IsFiniteSet(all \cup {claim}) /\ all \cup {claim} \subseteq DeviceMaps \cup {Refused}
    <3>1. IsFiniteSet({claim})
      BY FS_Singleton
    <3>2. QED BY <2>2, <2>3, <3>1, FS_Union
  <2>5. map \in DeviceMaps \cup {Refused}
    BY <2>1, <2>4, MergeKeepsDeclarations
  <2>6. map # Refused => \A m \in all : m \in DeviceMaps /\ Keeps(m, map)
    BY <2>1, <2>4, MergedKeeps
  <2>7. map # Refused => Keeps(own, map) /\ \A i \in Instances(c) : maps[i] # Refused /\ Keeps(maps[i], map)
    <3>1. own \in all /\ \A i \in Instances(c) : maps[i] \in all
      BY <2>2
    <3>2. Refused \notin DeviceMaps
      BY PlanningAssumption
    <3>3. QED BY <2>6, <3>1, <3>2
  <2>8. QED BY <2>5, <2>7 DEF map, own
<1>5. QED BY <1>2, <1>3, <1>4

\* What the recursion behind Resolved says, for its first N levels, counted from the deepest.
Ascent(c, N, resolved) ==
  resolved = [n \in 0 .. N |->
                [i \in Levels(c)[MaxDepth - n] |->
                   IF n = 0 THEN OwnMap(i) ELSE WithInstances(i, resolved[n - 1])]]

LEMMA AscentsExist ==
  ASSUME NEW c, NEW N \in Nat
  PROVE  \E resolved : Ascent(c, N, resolved)
<1> DEFINE Row(n, maps) == [i \in Levels(c)[MaxDepth - n] |->
                              IF n = 0 THEN OwnMap(i) ELSE WithInstances(i, maps)]
           Sol(n, res) == res = [k \in 0 .. n |-> Row(k, res[k - 1])]
           T == {n \in Nat : \E res : Sol(n, res)}
<1>1. \A x, y : Row(0, x) = Row(0, y)
  OBVIOUS
<1> HIDE DEF Row
<1>2. 0 \in T
  <2> DEFINE res == [k \in 0 .. 0 |-> Row(0, 0)]
  <2>1. \A k \in 0 .. 0 : k = 0 /\ Row(k, res[k - 1]) = Row(0, 0)
    BY <1>1
  <2>2. res = [k \in 0 .. 0 |-> Row(k, res[k - 1])]
    BY <2>1
  <2> HIDE DEF res
  <2>3. QED BY <2>2
<1>3. ASSUME NEW n \in 0 .. N - 1, n \in T PROVE n + 1 \in T
  <2>1. PICK res : Sol(n, res)
    BY <1>3
  <2> DEFINE longer == [k \in 0 .. n + 1 |-> IF k = n + 1 THEN Row(n + 1, res[n]) ELSE res[k]]
  <2>2. \A k \in 0 .. n : longer[k] = res[k]
    OBVIOUS
  <2>3. \A k \in 0 .. n : res[k] = Row(k, res[k - 1])
    BY <2>1
  <2>4. ASSUME NEW k \in 0 .. n + 1 PROVE longer[k] = Row(k, longer[k - 1])
    <3>1. CASE k = n + 1
      <4>1. k - 1 = n /\ n \in 0 .. n /\ longer[k] = Row(n + 1, res[n])
        BY <3>1
      <4>2. longer[k - 1] = res[n]
        BY <2>2, <4>1
      <4>3. QED BY <3>1, <4>1, <4>2
    <3>2. CASE k # n + 1 /\ k # 0
      <4>1. k \in 0 .. n /\ k - 1 \in 0 .. n
        BY <3>2
      <4>2. longer[k] = res[k] /\ longer[k - 1] = res[k - 1]
        BY <2>2, <4>1
      <4>3. QED BY <2>3, <4>1, <4>2
    <3>3. CASE k = 0
      <4>1. longer[0] = res[0] /\ res[0] = Row(0, res[0 - 1])
        BY <2>2, <2>3
      <4>2. QED BY <1>1, <3>3, <4>1
    <3>4. QED BY <3>1, <3>2, <3>3
  <2>5. longer = [k \in 0 .. n + 1 |-> longer[k]]
    OBVIOUS
  <2> HIDE DEF longer
  <2>6. Sol(n + 1, longer)
    BY <2>4, <2>5
  <2>7. QED BY <2>6
<1>4. T \subseteq Nat
  OBVIOUS
<1> HIDE DEF T
<1>5. 0 .. N \subseteq T
  BY <1>2, <1>3, <1>4, FromZero
<1>6. N \in T
  BY <1>5
<1>7. PICK res : Sol(N, res)
  BY <1>6 DEF T
<1>8. Ascent(c, N, res)
  BY <1>7 DEF Ascent, Row
<1>9. QED BY <1>8

LEMMA ResolvedDef ==
  ASSUME NEW c
  PROVE  \E resolved :
           /\ Resolved(c) = resolved[MaxDepth][c]
           /\ \A i \in Levels(c)[MaxDepth] : resolved[0][i] = OwnMap(i)
           /\ \A n \in 1 .. MaxDepth : \A i \in Levels(c)[MaxDepth - n] :
                resolved[n][i] = WithInstances(i, resolved[n - 1])
<1> DEFINE resolved == CHOOSE r : Ascent(c, MaxDepth, r)
<1>1. MaxDepth \in Nat /\ 0 \in 0 .. MaxDepth /\ MaxDepth - 0 = MaxDepth
  BY LayoutAssumption
<1>2. Resolved(c) = resolved[MaxDepth][c]
  BY DEF Resolved, Ascent
<1>3. \E r : Ascent(c, MaxDepth, r)
  BY <1>1, AscentsExist
<1> HIDE DEF resolved
<1>4. Ascent(c, MaxDepth, resolved)
  BY <1>3, Zenon DEF resolved
<1>5. \A n \in 0 .. MaxDepth :
        resolved[n] = [i \in Levels(c)[MaxDepth - n] |->
                         IF n = 0 THEN OwnMap(i) ELSE WithInstances(i, resolved[n - 1])]
  BY <1>4 DEF Ascent
<1>6. \A i \in Levels(c)[MaxDepth] : resolved[0][i] = OwnMap(i)
  BY <1>1, <1>5
<1>7. ASSUME NEW n \in 1 .. MaxDepth, NEW i \in Levels(c)[MaxDepth - n]
      PROVE  resolved[n][i] = WithInstances(i, resolved[n - 1])
  <2>1. n \in 0 .. MaxDepth /\ n # 0
    BY <1>1
  <2>2. QED BY <1>5, <2>1
<1>8. QED BY <1>2, <1>6, <1>7

\* Level by level, the maps are maps, and none loses what the component or its instances
\* declare.
LEMMA LevelsKeep ==
  ASSUME NEW c, NEW d \in 0 .. MaxDepth, Nests(c, d),
         NEW resolved,
         \A i \in Levels(c)[MaxDepth] : resolved[0][i] = OwnMap(i),
         \A n \in 1 .. MaxDepth : \A i \in Levels(c)[MaxDepth - n] :
           resolved[n][i] = WithInstances(i, resolved[n - 1])
  PROVE  \A n \in 0 .. MaxDepth : \A i \in Levels(c)[MaxDepth - n] :
           /\ resolved[n][i] \in DeviceMaps \cup {Refused}
           /\ resolved[n][i] # Refused =>
                /\ Keeps(OwnMap(i), resolved[n][i])
                /\ n > 0 => \A j \in Instances(i) :
                     /\ j \in Levels(c)[MaxDepth - (n - 1)]
                     /\ resolved[n - 1][j] # Refused
                     /\ Keeps(resolved[n - 1][j], resolved[n][i])
<1> DEFINE level == Levels(c)
           P(n, i) == /\ resolved[n][i] \in DeviceMaps \cup {Refused}
                      /\ resolved[n][i] # Refused =>
                           /\ Keeps(OwnMap(i), resolved[n][i])
                           /\ n > 0 => \A j \in Instances(i) :
                                /\ j \in level[MaxDepth - (n - 1)]
                                /\ resolved[n - 1][j] # Refused
                                /\ Keeps(resolved[n - 1][j], resolved[n][i])
           T == {n \in Nat : n <= MaxDepth => \A i \in level[MaxDepth - n] : P(n, i)}
<1>1. MaxDepth \in Nat
  BY LayoutAssumption
<1>2. ASSUME NEW k \in 0 .. MaxDepth, NEW i \in level[k]
      PROVE  k <= d /\ Nests(i, d - k) /\ d - k \in 0 .. MaxDepth /\ IsComponent(i)
  <2>1. k <= d /\ Nests(i, d - k)
    BY <1>2, <1>1, LevelsType
  <2>2. QED BY <2>1, <1>1 DEF Nests
<1>3. \A k \in 0 .. MaxDepth - 1 : \A i \in level[k] : Instances(i) \subseteq level[k + 1]
  BY LevelsDef
<1> HIDE DEF level
<1>4. 0 \in T
  <2>1. ASSUME NEW i \in level[MaxDepth] PROVE P(0, i)
    <3>1. resolved[0][i] = OwnMap(i) /\ IsComponent(i)
      BY <1>1, <1>2 DEF level
    <3>2. QED BY <3>1, OwnMapType, KeepsItself
  <2>2. QED BY <1>1, <2>1
<1>5. ASSUME NEW n \in 0 .. MaxDepth - 1, n \in T PROVE n + 1 \in T
  <2>1. \A i \in level[MaxDepth - n] : P(n, i)
    BY <1>1, <1>5
  <2>2. ASSUME NEW i \in level[MaxDepth - (n + 1)] PROVE P(n + 1, i)
    <3> DEFINE k == MaxDepth - (n + 1)
    <3>1. /\ k \in 0 .. MaxDepth - 1 /\ k \in 0 .. MaxDepth /\ k + 1 = MaxDepth - n
          /\ n + 1 \in 1 .. MaxDepth /\ (n + 1) - 1 = n
      BY <1>1
    <3>2. resolved[n + 1][i] = WithInstances(i, resolved[n])
      BY <3>1 DEF level
    <3>3. Nests(i, d - k) /\ d - k \in 0 .. MaxDepth
      BY <1>2, <3>1
    <3>4. Instances(i) \subseteq level[MaxDepth - n]
      BY <1>3, <3>1
    <3>5. \A j \in Instances(i) : resolved[n][j] \in DeviceMaps \cup {Refused}
      BY <2>1, <3>4
    <3>6. /\ resolved[n + 1][i] \in DeviceMaps \cup {Refused}
          /\ resolved[n + 1][i] # Refused =>
               /\ Keeps(OwnMap(i), resolved[n + 1][i])
               /\ \A j \in Instances(i) :
                    resolved[n][j] # Refused /\ Keeps(resolved[n][j], resolved[n + 1][i])
      <4> HIDE DEF k
      <4>1. QED BY <3>2, <3>3, <3>5, WithInstancesKeeps
    <3>7. QED BY <3>1, <3>4, <3>6
  <2>3. QED BY <2>2
<1>6. T \subseteq Nat
  OBVIOUS
<1> HIDE DEF T
<1>7. 0 .. MaxDepth \subseteq T
  BY <1>1, <1>4, <1>5, <1>6, FromZero
<1>8. \A n \in 0 .. MaxDepth : \A i \in level[MaxDepth - n] : P(n, i)
  BY <1>1, <1>7 DEF T
<1>9. QED BY <1>8 DEF level

\* The resolved map of a component keeps every edge that any of its parts declares.
THEOREM ResolvedKeepsDeclarations ==
  ASSUME NEW c, NEW d \in 0 .. MaxDepth, Nests(c, d)
  PROVE  /\ Resolved(c) \in DeviceMaps \cup {Refused}
         /\ Resolved(c) # Refused => \A j \in Parts(c) : Keeps(OwnMap(j), Resolved(c))
<1> DEFINE level == Levels(c)
<1>1. MaxDepth \in Nat /\ MaxDepth - MaxDepth = 0 /\ MaxDepth \in 0 .. MaxDepth
  BY LayoutAssumption
<1>2. PICK resolved :
        /\ Resolved(c) = resolved[MaxDepth][c]
        /\ \A i \in level[MaxDepth] : resolved[0][i] = OwnMap(i)
        /\ \A n \in 1 .. MaxDepth : \A i \in level[MaxDepth - n] :
             resolved[n][i] = WithInstances(i, resolved[n - 1])
  BY ResolvedDef
<1>3. \A n \in 0 .. MaxDepth : \A i \in level[MaxDepth - n] :
        /\ resolved[n][i] \in DeviceMaps \cup {Refused}
        /\ resolved[n][i] # Refused =>
             /\ Keeps(OwnMap(i), resolved[n][i])
             /\ n > 0 => \A j \in Instances(i) :
                  /\ j \in level[MaxDepth - (n - 1)]
                  /\ resolved[n - 1][j] # Refused
                  /\ Keeps(resolved[n - 1][j], resolved[n][i])
  BY <1>2, LevelsKeep
<1>4. level[0] = {c} /\ \A k \in 0 .. MaxDepth - 1 : level[k + 1] = UNION {Instances(i) : i \in level[k]}
  BY LevelsDef
<1>5. Parts(c) = UNION {level[k] : k \in 0 .. MaxDepth}
  BY DEF Parts
<1> HIDE DEF level
<1>6. Resolved(c) \in DeviceMaps \cup {Refused}
  BY <1>1, <1>2, <1>3, <1>4
<1>7. ASSUME Resolved(c) # Refused, NEW k \in 0 .. MaxDepth, NEW j \in level[k]
      PROVE  Keeps(OwnMap(j), Resolved(c))
  <2> DEFINE n0 == MaxDepth - k
             Q(t, a) == resolved[n0 + t][a] # Refused => Keeps(OwnMap(j), resolved[n0 + t][a])
             T == {t \in Nat : t <= k => \E a \in level[k - t] : Q(t, a)}
  <2>1. 0 \in T
    <3>1. n0 \in 0 .. MaxDepth /\ MaxDepth - n0 = k /\ k - 0 = k /\ n0 + 0 = n0
      BY <1>1
    <3>2. resolved[n0][j] # Refused => Keeps(OwnMap(j), resolved[n0][j])
      BY <1>3, <3>1
    <3>3. Q(0, j)
      BY <3>1, <3>2
    <3>4. QED BY <3>1, <3>3
  <2>2. ASSUME NEW t \in 0 .. k - 1, t \in T PROVE t + 1 \in T
    <3>1. PICK a \in level[k - t] : Q(t, a)
      BY <2>2
    <3>2. /\ k - (t + 1) \in 0 .. MaxDepth - 1 /\ (k - (t + 1)) + 1 = k - t
          /\ n0 + (t + 1) \in 0 .. MaxDepth /\ n0 + (t + 1) > 0
          /\ MaxDepth - (n0 + (t + 1)) = k - (t + 1) /\ (n0 + (t + 1)) - 1 = n0 + t
      BY <1>1
    <3>3. PICK b \in level[k - (t + 1)] : a \in Instances(b)
      BY <1>4, <3>1, <3>2
    <3>4. resolved[n0 + (t + 1)][b] # Refused =>
            resolved[n0 + t][a] # Refused /\ Keeps(resolved[n0 + t][a], resolved[n0 + (t + 1)][b])
      BY <1>3, <3>2, <3>3
    <3>5. Q(t + 1, b)
      BY <3>1, <3>4, KeepsOnward
    <3> HIDE DEF Q
    <3>6. QED BY <3>5
  <2>3. T \subseteq Nat
    OBVIOUS
  <2> HIDE DEF T
  <2>4. 0 .. k \subseteq T
    <3>1. k \in Nat
      BY <1>1
    <3>2. QED BY <2>1, <2>2, <2>3, <3>1, FromZero
  <2>5. k \in T
    BY <2>4
  <2>6. PICK a \in level[k - k] : Q(k, a)
    BY <2>5 DEF T
  <2>7. a = c /\ n0 + k = MaxDepth
    BY <1>1, <1>4, <2>6
  <2>8. QED BY <1>2, <1>7, <2>6, <2>7
<1>8. QED BY <1>5, <1>6, <1>7

-----------------------------------------------------------------------------
(* Reshaping.                                                              *)

LEMMA ExcludingKeeps ==
  ASSUME NEW ranges \in RangeSets, NEW out
  PROVE  /\ Excluding(ranges, out) \in RangeSets
         /\ AllCells(Excluding(ranges, out)) = AllCells(ranges) \ out
<1> DEFINE part(r) == Runs(Cells(r) \ out, {})
           f == [r \in ranges |-> part(r)]
<1>1. ranges \subseteq AddressRange /\ IsFiniteSet(ranges)
  BY DEF RangeSets
<1>2. ASSUME NEW r \in ranges
      PROVE  part(r) \in RangeSets /\ AllCells(part(r)) = Cells(r) \ out
  <2> DEFINE cells == Cells(r) \ out
  <2>1. Cells(r) \subseteq Nat /\ IsFiniteSet(Cells(r))
    <3>1. r[1] \in Nat /\ r[2] \in Nat
      BY <1>1, RangeType
    <3>2. IsFiniteSet(r[1] .. r[2])
      BY <3>1, FS_Interval
    <3>3. QED BY <3>1, <3>2 DEF Cells
  <2>2. cells \subseteq Nat /\ IsFiniteSet(cells)
    BY <2>1, FS_Subset
  <2> HIDE DEF cells
  <2>3. Runs(cells, {}) \in RangeSets /\ AllCells(Runs(cells, {})) = cells
    BY <2>2, RunsType, RunsKeepCells
  <2>4. QED BY <2>3 DEF cells
<1>3. Excluding(ranges, out) = UNION {part(r) : r \in ranges}
  BY DEF Excluding
<1> HIDE DEF part
<1>4. IsFiniteSet({f[r] : r \in DOMAIN f}) /\ {f[r] : r \in DOMAIN f} = {part(r) : r \in ranges}
  BY <1>1, ImageIsFinite
<1>5. \A r \in ranges : IsFiniteSet(part(r)) /\ part(r) \subseteq AddressRange /\ part(r) \subseteq Nat \X Nat
  BY <1>2 DEF RangeSets
<1>6. IsFiniteSet(UNION {part(r) : r \in ranges})
  <2>1. IsFiniteSet({part(r) : r \in ranges})
    BY <1>4
  <2>2. QED BY <1>5, <2>1, FS_UNION
<1>7. Excluding(ranges, out) \in RangeSets
  BY <1>3, <1>5, <1>6 DEF RangeSets
<1>8. AllCells(UNION {part(r) : r \in ranges}) = AllCells(ranges) \ out
  <2>1. \A r \in ranges : UNION {Cells(q) : q \in part(r)} = Cells(r) \ out
    BY <1>2 DEF AllCells
  <2>2. QED BY <2>1 DEF AllCells
<1>9. QED BY <1>3, <1>7, <1>8

LEMMA SpanWidth ==
  ASSUME NEW s, NEW a \in Nat, NEW n \in Nat
  PROVE  Width(Span(s, a, n).cells) = n /\ Span(s, a, n).space = s
         /\ Span(s, a, n).cells = <<a, a + n - 1>>
BY DEF Span, Width

\* The spans the fields are declared at, with or without their scale registers.
LEMMA DeclaredReadsType ==
  ASSUME NEW c, IsComponent(c), NEW fields \in SUBSET c.fields
  PROVE  /\ IsFiniteSet(DeclaredReads(c, fields)) /\ DeclaredReads(c, fields) \subseteq SpanType
         /\ \A x \in DeclaredReads(c, fields) : Width(x.cells) <= c.limit
<1> DEFINE scaled == {g \in fields : g.scale # None}
           a == [f \in fields |-> Span(f.space, DeclaredAddress(c, f), f.count)]
           b == [f \in scaled |-> Span(f.space, DeclaredScale(c, f), 1)]
           A == {Span(f.space, DeclaredAddress(c, f), f.count) : f \in fields}
           B == {Span(f.space, DeclaredScale(c, f), 1) : f \in scaled}
<1>1. /\ IsFiniteSet(fields) /\ \A f \in fields : f \in Field /\ f.count <= c.limit
      /\ c.limit \in Nat \ {0}
  BY FS_Subset DEF IsComponent
<1>2. ASSUME NEW f \in fields
      PROVE  /\ Span(f.space, DeclaredAddress(c, f), f.count) \in SpanType
             /\ Width(Span(f.space, DeclaredAddress(c, f), f.count).cells) <= c.limit
             /\ f.scale # None =>
                  /\ Span(f.space, DeclaredScale(c, f), 1) \in SpanType
                  /\ Width(Span(f.space, DeclaredScale(c, f), 1).cells) <= c.limit
  <2>1. /\ f.space \in Spaces /\ DeclaredAddress(c, f) \in Nat /\ f.count \in Nat \ {0}
        /\ f.scale # None => DeclaredScale(c, f) \in Nat
    BY <1>1, AddressType, FieldType
  <2>2. Width(Span(f.space, DeclaredAddress(c, f), f.count).cells) = f.count
    BY <2>1, SpanWidth
  <2>3. f.scale # None => Width(Span(f.space, DeclaredScale(c, f), 1).cells) = 1
    BY <2>1 DEF Span, Width
  <2>4. QED BY <1>1, <2>1, <2>2, <2>3, SpanIsSpan
<1>3. IsFiniteSet(scaled)
  BY <1>1, FS_Subset
<1>4. {a[f] : f \in DOMAIN a} = A /\ {b[f] : f \in DOMAIN b} = B
  OBVIOUS
<1>5. IsFiniteSet({a[f] : f \in DOMAIN a}) /\ IsFiniteSet({b[f] : f \in DOMAIN b})
  BY <1>1, <1>3, ImageIsFinite
<1>6. DeclaredReads(c, fields) = A \cup B
  BY DEF DeclaredReads, DeclaredSpans
<1>7. \A x \in A \cup B : x \in SpanType /\ Width(x.cells) <= c.limit
  BY <1>2
<1>8. IsFiniteSet(A \cup B)
  BY <1>4, <1>5, FS_Union
<1> HIDE DEF A, B
<1>9. QED BY <1>6, <1>7, <1>8

\* The claim that restrict_fields() starts from where there is no map: it holds the kept fields.
LEMMA KeptBlocks ==
  ASSUME NEW c, IsComponent(c), NEW kept \in SUBSET c.fields, NEW s \in Spaces
  PROVE  LET spans == In(DeclaredReads(c, kept), s)
             blocks == PlanBlocks(spans, None, c.gap, c.limit) IN
         /\ blocks = Blocks({x.cells : x \in spans}, None, c.gap, c.limit)
         /\ blocks \in RangeSets
         /\ {x.cells : x \in spans} \subseteq AddressRange /\ IsFiniteSet({x.cells : x \in spans})
         /\ \A x \in spans : \E b \in blocks : Cells(x.cells) \subseteq Cells(b)
<1> DEFINE spans == In(DeclaredReads(c, kept), s)
           cells == {x.cells : x \in spans}
           f == [x \in spans |-> x.cells]
           blocks == PlanBlocks(spans, None, c.gap, c.limit)
<1>1. /\ IsFiniteSet(spans) /\ spans \subseteq SpanType
      /\ \A x \in spans : Width(x.cells) <= c.limit
  BY DeclaredReadsType, FS_Subset DEF In
<1>2. c.limit \in Nat
  BY DEF IsComponent
<1> HIDE DEF spans
<1>3. Plannable(spans, None, c.limit)
  BY <1>1 DEF Plannable, Readable
<1>4. blocks = Blocks(cells, None, c.gap, c.limit)
  BY <1>3 DEF PlanBlocks
<1>5. IsFiniteSet({f[x] : x \in DOMAIN f}) /\ {f[x] : x \in DOMAIN f} = cells
  BY <1>1, ImageIsFinite
<1>6. IsFiniteSet(cells) /\ cells \subseteq AddressRange
  BY <1>1, <1>5 DEF SpanType
<1>7. \A r \in cells : Fits(r, None, c.limit)
  BY <1>1 DEF Fits
<1> HIDE DEF cells
<1>8. /\ Blocks(cells, None, c.gap, c.limit) \in RangeSets
      /\ \A r \in cells : \E b \in Blocks(cells, None, c.gap, c.limit) : Cells(r) \subseteq Cells(b)
  BY <1>2, <1>6, <1>7, BlocksReadSpans
<1>9. \A x \in spans : x.cells \in cells
  BY DEF cells
<1> HIDE DEF blocks
<1>10. QED BY <1>4, <1>6, <1>8, <1>9 DEF spans, cells, blocks

LEMMA ReshapedType ==
  ASSUME NEW c, IsComponent(c), NEW kept \in SUBSET c.fields, NEW s \in Spaces, NEW gone
  PROVE  Reshaped(c, s, kept, gone) \in SpaceMaps \cup {None}
<1> DEFINE spans == In(DeclaredReads(c, kept), s)
           out == Excluded(c, s, kept, gone)
           blocks == PlanBlocks(spans, None, c.gap, c.limit)
<1>1. c.map[s] \in SpaceMaps \cup {None}
  BY DeviceMapType DEF IsComponent
<1>2. CASE c.map[s] # None
  <2> DEFINE old == c.map[s]
  <2>1. /\ old = [ranges |-> old.ranges, declared |-> old.declared]
        /\ old.ranges \in RangeSets /\ old.declared \in BOOLEAN
    BY <1>1, <1>2, SpaceMapType
  <2> HIDE DEF old
  <2>2. [old EXCEPT !.ranges = Excluding(@, out)] =
          [ranges |-> Excluding(old.ranges, out), declared |-> old.declared]
    BY <2>1
  <2>3. Excluding(old.ranges, out) \in RangeSets
    BY <2>1, ExcludingKeeps
  <2>4. [old EXCEPT !.ranges = Excluding(@, out)] \in SpaceMaps
    BY <2>1, <2>2, <2>3, IsSpaceMap
  <2>5. QED BY <1>1, <1>2, <2>4 DEF Reshaped, old
<1>3. CASE c.map[s] = None
  <2>1. blocks \in RangeSets
    BY KeptBlocks
  <2>2. Excluding(blocks, out) \in RangeSets
    BY <2>1, ExcludingKeeps
  <2>3. [ranges |-> Excluding(blocks, out), declared |-> FALSE] \in SpaceMaps
    BY <2>2, IsSpaceMap
  <2>4. QED BY <1>3, <2>3 DEF Reshaped
<1>4. QED BY <1>2, <1>3

LEMMA RestrictedType ==
  ASSUME NEW c, NEW d, Nests(c, d), NEW kept \in SUBSET c.fields
  PROVE  /\ Nests(Restricted(c, kept), d)
         /\ Restricted(c, kept).fields = kept
         /\ \A x \in {"index", "base", "inst", "gap", "limit", "group", "scaleInBlock"} :
              Restricted(c, kept)[x] = c[x]
         /\ Restricted(c, kept).map = [s \in Spaces |-> Reshaped(c, s, kept, c.fields \ kept)]
<1> DEFINE map == [s \in Spaces |-> Reshaped(c, s, kept, c.fields \ kept)]
           narrowed == [c EXCEPT !.fields = kept, !.map = map]
<1>1. map \in DeviceMaps
  BY ReshapedType DEF DeviceMaps, Nests
<1>2. /\ DOMAIN c = {"fields", "map", "index", "base", "inst", "scaleInBlock", "gap", "limit", "group"}
      /\ IsFiniteSet(c.fields) /\ IsFiniteSet(kept)
  BY FS_Subset DEF Nests, IsComponent
<1>3. Restricted(c, kept) = narrowed
  BY DEF Restricted
<1> HIDE DEF map
<1>4. /\ DOMAIN narrowed = DOMAIN c /\ narrowed.fields = kept /\ narrowed.map = map
      /\ narrowed.index = c.index /\ narrowed.base = c.base /\ narrowed.inst = c.inst
      /\ narrowed.gap = c.gap /\ narrowed.limit = c.limit /\ narrowed.group = c.group
      /\ narrowed.scaleInBlock = c.scaleInBlock
  BY <1>2
<1> HIDE DEF narrowed
<1>5. Nests(narrowed, d)
  BY <1>1, <1>2, <1>4 DEF Nests, IsComponent
<1>6. QED BY <1>3, <1>4, <1>5 DEF map

-----------------------------------------------------------------------------
(* What holds of every component in every state.                           *)

\* Components stay components, and what add() may be given fits into a manual one.
MembersInv ==
  /\ DOMAIN comp = Members
  /\ \A m \in Members : Nests(comp[m], MaxDepth) /\ comp[m].inst = 0
  /\ \A m \in Manual : \A f \in Targets : f \in Field /\ f.count <= comp[m].limit

\* What was taken away is in no map; where there is no map, nothing of that space is read.
TakenAway(c, d) ==
  /\ c.group = None /\ d[1] \in Spaces /\ d[2] \in Nat
  /\ c.map[d[1]] # None => d[2] \notin AllCells(c.map[d[1]].ranges)
  /\ c.map[d[1]] = None => In(DeclaredReads(c, c.fields), d[1]) = {}
ExcludedInv ==
  /\ DOMAIN excluded = Members
  /\ \A m \in Members : \A d \in excluded[m] : m \notin Manual /\ TakenAway(comp[m], d)

LEMMA MembersInvInit == Init => MembersInv /\ ExcludedInv
<1> SUFFICES ASSUME Init PROVE MembersInv /\ ExcludedInv
  OBVIOUS
<1>1. DOMAIN comp = Members /\ \A m \in Members : comp[m] \in Layouts(m)
  BY DEF Init
<1>2. MaxDepth \in Nat /\ MaxDepth \in 0 .. MaxDepth
  BY LayoutAssumption
<1>3. \A m \in Members : Nests(comp[m], MaxDepth) /\ comp[m].inst = 0
  BY <1>1, <1>2, LayoutAssumption DEF Nests
<1>4. \A m \in Manual : \A f \in Targets : f \in Field /\ f.count <= comp[m].limit
  BY <1>1, LayoutAssumption
<1>5. DOMAIN excluded = Members /\ \A m \in Members : excluded[m] = {}
  BY DEF Init
<1>6. QED BY <1>1, <1>3, <1>4, <1>5 DEF MembersInv, ExcludedInv

LEMMA ReshapeMember ==
  ASSUME MembersInv, NEW m \in Members, NEW c, Reshape(m, c),
         Nests(c, MaxDepth), c.inst = 0, c.limit = comp[m].limit
  PROVE  /\ MembersInv'
         /\ comp'[m] = c /\ \A k \in Members : k # m => comp'[k] = comp[k]
<1>1. comp' = [comp EXCEPT ![m] = c]
  BY DEF Reshape
<1>2. DOMAIN comp' = Members /\ comp'[m] = c /\ \A k \in Members : k # m => comp'[k] = comp[k]
  BY <1>1 DEF MembersInv
<1>3. \A k \in Members : Nests(comp'[k], MaxDepth) /\ comp'[k].inst = 0 /\ comp'[k].limit = comp[k].limit
  BY <1>2 DEF MembersInv
<1>4. \A k \in Manual : k \in Members
  BY LayoutAssumption
<1>5. QED BY <1>2, <1>3, <1>4 DEF MembersInv, Nests

\* Changing what is read, or how many instances there are, makes another component.
LEMMA FieldsChanged ==
  ASSUME NEW c, NEW d, Nests(c, d), NEW fields, IsFiniteSet(fields),
         \A f \in fields : f \in Field /\ f.count <= c.limit
  PROVE  LET new == [c EXCEPT !.fields = fields] IN
         Nests(new, d) /\ new.inst = c.inst /\ new.limit = c.limit
<1> DEFINE new == [c EXCEPT !.fields = fields]
<1>1. DOMAIN c = {"fields", "map", "index", "base", "inst", "scaleInBlock", "gap", "limit", "group"}
  BY DEF Nests, IsComponent
<1>2. /\ DOMAIN new = DOMAIN c /\ new.fields = fields /\ new.map = c.map
      /\ new.index = c.index /\ new.base = c.base /\ new.inst = c.inst
      /\ new.gap = c.gap /\ new.limit = c.limit /\ new.group = c.group
  BY <1>1
<1> HIDE DEF new
<1>3. Nests(new, d)
  BY <1>1, <1>2 DEF Nests, IsComponent
<1>4. QED BY <1>2, <1>3 DEF new

LEMMA SizeChanged ==
  ASSUME NEW c, NEW d, Nests(c, d), c.group # None, NEW n \in Nat
  PROVE  LET new == [c EXCEPT !.group.size = n] IN
         Nests(new, d) /\ new.inst = c.inst /\ new.limit = c.limit
<1> DEFINE group == [c.group EXCEPT !.size = n]
           new == [c EXCEPT !.group.size = n]
<1>1. /\ DOMAIN c = {"fields", "map", "index", "base", "inst", "scaleInBlock", "gap", "limit", "group"}
      /\ DOMAIN c.group = {"of", "stride", "size", "register", "countInBlock"}
  BY DEF Nests, IsComponent
<1>2. /\ DOMAIN group = DOMAIN c.group /\ group.of = c.group.of /\ group.stride = c.group.stride
      /\ group.size = n /\ group.register = c.group.register
  BY <1>1
<1>3. new = [c EXCEPT !.group = group]
  OBVIOUS
<1> HIDE DEF group
<1>4. /\ DOMAIN new = DOMAIN c /\ new.fields = c.fields /\ new.map = c.map
      /\ new.index = c.index /\ new.base = c.base /\ new.inst = c.inst
      /\ new.gap = c.gap /\ new.limit = c.limit /\ new.group = group
  BY <1>1, <1>3
<1> HIDE DEF new
<1>5. Nests(new, d)
  BY <1>1, <1>2, <1>4 DEF Nests, IsComponent
<1>6. QED BY <1>4, <1>5 DEF new

LEMMA ResizeKeepsMembers ==
  ASSUME MembersInv, NEW m \in Members, NEW n \in 0 .. MaxCount, Resize(m, n)
  PROVE  MembersInv' /\ comp[m].group # None
                     /\ \A k \in Members : k # m => comp'[k] = comp[k]
<1> DEFINE new == [comp[m] EXCEPT !.group.size = n]
<1>1. comp[m].group # None /\ Reshape(m, new)
  BY DEF Resize
<1>2. Nests(comp[m], MaxDepth) /\ comp[m].inst = 0 /\ n \in Nat
  BY DEF MembersInv
<1>3. Nests(new, MaxDepth) /\ new.inst = comp[m].inst /\ new.limit = comp[m].limit
  BY <1>1, <1>2, SizeChanged
<1> HIDE DEF new
<1>4. QED BY <1>1, <1>2, <1>3, ReshapeMember

LEMMA RestrictKeepsMembers ==
  ASSUME MembersInv, NEW m \in Members, NEW kept \in SUBSET comp[m].fields, RestrictFields(m, kept)
  PROVE  MembersInv' /\ comp'[m] = Restricted(comp[m], kept)
                     /\ \A k \in Members : k # m => comp'[k] = comp[k]
<1> DEFINE new == Restricted(comp[m], kept)
<1>1. Reshape(m, new)
  BY DEF RestrictFields
<1>2. Nests(comp[m], MaxDepth) /\ comp[m].inst = 0
  BY DEF MembersInv
<1>3. Nests(new, MaxDepth) /\ new.inst = comp[m].inst /\ new.limit = comp[m].limit
  BY <1>2, RestrictedType
<1> HIDE DEF new
<1>4. QED BY <1>1, <1>2, <1>3, ReshapeMember DEF new

LEMMA TargetKeepsMembers ==
  ASSUME MembersInv, NEW m \in Members, NEW f \in Targets, AddTarget(m, f) \/ RemoveTarget(m, f)
  PROVE  MembersInv' /\ m \in Manual
                     /\ \A k \in Members : k # m => comp'[k] = comp[k]
<1>1. Nests(comp[m], MaxDepth) /\ comp[m].inst = 0
  BY DEF MembersInv
<1>2. IsFiniteSet(comp[m].fields) /\ \A g \in comp[m].fields : g \in Field /\ g.count <= comp[m].limit
  BY <1>1 DEF Nests, IsComponent
<1>3. PICK fields :
        /\ m \in Manual /\ Reshape(m, [comp[m] EXCEPT !.fields = fields])
        /\ fields \in {comp[m].fields, comp[m].fields \cup {f}, comp[m].fields \ {f}}
  <2>1. CASE AddTarget(m, f)
    <3> DEFINE stuck == parent[m] # None /\ PoolMap(parent[m], comp) = Refused
               F == IF stuck THEN comp[m].fields ELSE comp[m].fields \cup {f}
    <3>1. m \in Manual /\ Reshape(m, [comp[m] EXCEPT !.fields = F])
      BY <2>1 DEF AddTarget
    <3>2. F \in {comp[m].fields, comp[m].fields \cup {f}, comp[m].fields \ {f}}
      OBVIOUS
    <3> HIDE DEF F
    <3>3. QED BY <3>1, <3>2
  <2>2. CASE RemoveTarget(m, f)
    BY <2>2 DEF RemoveTarget
  <2>3. QED BY <2>1, <2>2
<1>4. f \in Field /\ f.count <= comp[m].limit
  BY <1>3 DEF MembersInv
<1>5. IsFiniteSet(fields) /\ \A g \in fields : g \in Field /\ g.count <= comp[m].limit
  <2>1. fields \subseteq comp[m].fields \cup {f}
    BY <1>3
  <2>2. IsFiniteSet(fields)
    BY <1>2, <2>1, FS_AddElement, FS_Subset
  <2>3. QED BY <1>2, <1>4, <2>1, <2>2
<1> DEFINE new == [comp[m] EXCEPT !.fields = fields]
<1>6. Nests(new, MaxDepth) /\ new.inst = comp[m].inst /\ new.limit = comp[m].limit
  BY <1>1, <1>5, FieldsChanged
<1> HIDE DEF new
<1>7. Reshape(m, new)
  BY <1>3 DEF new
<1>8. QED BY <1>1, <1>3, <1>6, <1>7, ReshapeMember

\* restrict_fields() takes the addresses out of the map that there is, or of the claim.
LEMMA RestrictedMap ==
  ASSUME NEW c, NEW d, Nests(c, d), NEW kept \in SUBSET c.fields, NEW s \in Spaces
  PROVE  LET new == Restricted(c, kept)
             out == Excluded(c, s, kept, c.fields \ kept) IN
         /\ c.map[s] # None =>
              new.map[s] # None /\ AllCells(new.map[s].ranges) = AllCells(c.map[s].ranges) \ out
         /\ c.map[s] = None /\ new.map[s] # None =>
              AllCells(new.map[s].ranges) \cap out = {} /\ out # {}
         /\ c.map[s] = None /\ new.map[s] = None =>
              out = {} \/ In(DeclaredReads(c, kept), s) = {}
<1> DEFINE new == Restricted(c, kept)
           out == Excluded(c, s, kept, c.fields \ kept)
           spans == In(DeclaredReads(c, kept), s)
           blocks == PlanBlocks(spans, None, c.gap, c.limit)
           old == c.map[s]
<1>1. new.map[s] = Reshaped(c, s, kept, c.fields \ kept)
  <2>1. new.map = [t \in Spaces |-> Reshaped(c, t, kept, c.fields \ kept)]
    BY RestrictedType
  <2> HIDE DEF new
  <2>2. QED BY <2>1
<1>2. new.map[s] = IF out = {} THEN old
                   ELSE IF old # None THEN [old EXCEPT !.ranges = Excluding(@, out)]
                   ELSE IF spans = {} THEN None
                   ELSE [ranges |-> Excluding(blocks, out), declared |-> FALSE]
  BY <1>1 DEF Reshaped
<1>3. IsComponent(c) /\ (old # None => old \in SpaceMaps)
  BY DeviceMapType DEF Nests, IsComponent
<1>4. CASE old # None
  <2>1. /\ old = [ranges |-> old.ranges, declared |-> old.declared]
        /\ old.ranges \in RangeSets /\ old.declared \in BOOLEAN
    BY <1>3, <1>4, SpaceMapType
  <2> DEFINE cut == [old EXCEPT !.ranges = Excluding(@, out)]
  <2> HIDE DEF old, new, out, spans, blocks
  <2>2. cut = [ranges |-> Excluding(old.ranges, out), declared |-> old.declared]
    BY <2>1
  <2>3. Excluding(old.ranges, out) \in RangeSets /\ AllCells(Excluding(old.ranges, out)) = AllCells(old.ranges) \ out
    BY <2>1, ExcludingKeeps
  <2>4. cut \in SpaceMaps /\ cut.ranges = Excluding(old.ranges, out)
    BY <2>1, <2>2, <2>3, IsSpaceMap
  <2>5. cut # None
    BY <2>4, PlanningAssumption
  <2>6. new.map[s] = IF out = {} THEN old ELSE cut
    BY <1>2, <1>4
  <2> HIDE DEF cut
  <2>7. new.map[s] # None /\ AllCells(new.map[s].ranges) = AllCells(old.ranges) \ out
    BY <1>4, <2>3, <2>4, <2>5, <2>6
  <2>8. QED BY <1>4, <2>7 DEF old, new, out
<1>5. CASE old = None
  <2>1. blocks \in RangeSets
    BY <1>3, KeptBlocks
  <2> DEFINE claim == [ranges |-> Excluding(blocks, out), declared |-> FALSE]
  <2> HIDE DEF old, new, out, spans, blocks
  <2>2. Excluding(blocks, out) \in RangeSets /\ AllCells(Excluding(blocks, out)) = AllCells(blocks) \ out
    BY <2>1, ExcludingKeeps
  <2>3. new.map[s] = IF out = {} \/ spans = {} THEN None ELSE claim
    BY <1>2, <1>5
  <2>4. claim.ranges = Excluding(blocks, out)
    OBVIOUS
  <2> HIDE DEF claim
  <2>5. new.map[s] # None => AllCells(new.map[s].ranges) \cap out = {} /\ out # {}
    BY <2>2, <2>3, <2>4
  <2>6. claim # None
    BY <2>2, IsSpaceMap, PlanningAssumption DEF claim
  <2>7. new.map[s] = None => out = {} \/ spans = {}
    BY <2>3, <2>6
  <2>8. QED BY <1>5, <2>5, <2>7 DEF old, new, out, spans
<1>6. QED BY <1>4, <1>5

LEMMA DeclaredMoreReads ==
  ASSUME NEW c, NEW fields, NEW kept \in SUBSET fields
  PROVE  /\ DeclaredReads(c, kept) \subseteq DeclaredReads(c, fields)
         /\ DeclaredSpans(c, fields \ kept) \subseteq DeclaredReads(c, fields)
BY DEF DeclaredReads, DeclaredSpans

LEMMA ExcludedType ==
  ASSUME NEW c, IsComponent(c), NEW kept, NEW s, NEW a \in Excluded(c, s, kept, c.fields \ kept)
  PROVE  a \in Nat
<1>1. PICK x \in DeclaredSpans(c, c.fields \ kept) : a \in Cells(x.cells)
  BY DEF Excluded, SpanCells, AllCells, In
<1>2. x \in SpanType
  <2>1. DeclaredReads(c, c.fields) \subseteq SpanType
    BY DeclaredReadsType
  <2>2. x \in DeclaredReads(c, c.fields)
    BY <1>1 DEF DeclaredReads, DeclaredSpans
  <2>3. QED BY <2>1, <2>2
<1>3. x.cells[1] \in Nat /\ x.cells[2] \in Nat
  BY <1>2, RangeType DEF SpanType
<1>4. QED BY <1>1, <1>3 DEF Cells

LEMMA RestrictKeepsExcluded ==
  ASSUME MembersInv, ExcludedInv,
         NEW m \in Members, NEW kept \in SUBSET comp[m].fields, RestrictFields(m, kept)
  PROVE  ExcludedInv'
<1> DEFINE c == comp[m]
           gone == c.fields \ kept
           new == Restricted(c, kept)
           more == UNION {{s} \X Excluded(c, s, kept, gone) : s \in Spaces}
<1>1. /\ m \notin Manual /\ c.group = None
      /\ excluded' = [excluded EXCEPT ![m] = @ \cup more]
  BY DEF RestrictFields
<1>2. comp'[m] = new /\ \A k \in Members : k # m => comp'[k] = comp[k]
  BY RestrictKeepsMembers
<1>3. Nests(c, MaxDepth)
  BY DEF MembersInv
<1>4. new.group = c.group /\ new.fields = kept /\ new.index = c.index
  <2> HIDE DEF gone, more
  <2>1. QED BY <1>3, RestrictedType
<1>5. DeclaredReads(new, kept) = DeclaredReads(c, kept)
  BY <1>4 DEF DeclaredReads, DeclaredSpans, DeclaredAddress, DeclaredScale
<1>6. \A s \in Spaces : LET out == Excluded(c, s, kept, gone) IN
         /\ c.map[s] # None =>
              new.map[s] # None /\ AllCells(new.map[s].ranges) = AllCells(c.map[s].ranges) \ out
         /\ c.map[s] = None /\ new.map[s] # None =>
              AllCells(new.map[s].ranges) \cap out = {} /\ out # {}
         /\ c.map[s] = None /\ new.map[s] = None =>
              out = {} \/ In(DeclaredReads(c, kept), s) = {}
  BY <1>3, RestrictedMap
<1>7. ASSUME NEW d \in more PROVE TakenAway(new, d)
  <2>1. PICK s \in Spaces : d \in {s} \X Excluded(c, s, kept, gone)
    OBVIOUS
  <2>2. d[1] = s /\ d[2] \in Excluded(c, s, kept, gone)
    BY <2>1
  <2>6. d[2] \in Nat
    BY <1>3, <2>2, ExcludedType DEF Nests
  <2> HIDE DEF new, gone, c, more
  <2>3. new.map[s] # None => d[2] \notin AllCells(new.map[s].ranges)
    BY <1>6, <2>2
  <2>4. new.map[s] = None => In(DeclaredReads(c, kept), s) = {}
    BY <1>6, <2>2
  <2>5. QED BY <1>1, <1>4, <1>5, <2>2, <2>3, <2>4, <2>6 DEF TakenAway
<1>8. ASSUME NEW d \in excluded[m] PROVE TakenAway(new, d)
  <2> DEFINE s == d[1]
             out == Excluded(c, s, kept, gone)
  <2>1. /\ s \in Spaces /\ d[2] \in Nat
        /\ c.map[s] # None => d[2] \notin AllCells(c.map[s].ranges)
        /\ c.map[s] = None => In(DeclaredReads(c, c.fields), s) = {}
    BY <1>1 DEF ExcludedInv, TakenAway
  <2>2. CASE c.map[s] # None
    <3> HIDE DEF new, gone, c
    <3>1. new.map[s] # None /\ d[2] \notin AllCells(new.map[s].ranges)
      BY <1>6, <2>1, <2>2
    <3>2. QED BY <1>1, <1>4, <2>1, <3>1 DEF TakenAway
  <2>3. CASE c.map[s] = None
    <3>1. In(DeclaredReads(c, kept), s) = {} /\ In(DeclaredSpans(c, gone), s) = {}
      BY <2>1, <2>3, DeclaredMoreReads DEF In
    <3>2. out = {}
      BY <3>1 DEF Excluded, SpanCells, AllCells
    <3> HIDE DEF new, gone, c
    <3>3. new.map[s] = None
      BY <1>6, <2>1, <2>3, <3>2
    <3>4. QED BY <1>1, <1>4, <1>5, <2>1, <3>1, <3>3 DEF TakenAway
  <2>4. QED BY <2>2, <2>3
<1> HIDE DEF more, new, c
<1>9. ASSUME NEW k \in Members, NEW d \in excluded'[k] PROVE k \notin Manual /\ TakenAway(comp'[k], d)
  <2>1. CASE k = m
    <3>1. d \in excluded[m] \/ d \in more
      BY <1>1, <2>1 DEF ExcludedInv
    <3>2. QED BY <1>1, <1>2, <1>7, <1>8, <2>1, <3>1
  <2>2. CASE k # m
    <3>1. d \in excluded[k] /\ comp'[k] = comp[k]
      BY <1>1, <1>2, <2>2 DEF ExcludedInv
    <3>2. QED BY <3>1 DEF ExcludedInv
  <2>3. QED BY <2>1, <2>2
<1>10. DOMAIN excluded' = Members
  BY <1>1 DEF ExcludedInv
<1>11. \A k, d : TakenAway(comp[k], d)' <=> TakenAway(comp'[k], d')
  OBVIOUS
<1>12. QED BY <1>9, <1>10 DEF ExcludedInv, TakenAway

LEMMA OthersKeepExcluded ==
  ASSUME ExcludedInv, excluded' = excluded, NEW m,
         \A k \in Members : k # m => comp'[k] = comp[k],
         m \in Members => excluded[m] = {}
  PROVE  ExcludedInv'
<1>1. ASSUME NEW k \in Members, NEW d \in excluded[k] PROVE k \notin Manual /\ TakenAway(comp'[k], d)
  BY <1>1 DEF ExcludedInv
<1>2. QED BY <1>1 DEF ExcludedInv, TakenAway

LEMMA MembersInvNext == MembersInv /\ ExcludedInv /\ [Next]_vars => MembersInv' /\ ExcludedInv'
<1> SUFFICES ASSUME MembersInv, ExcludedInv, [Next]_vars PROVE MembersInv' /\ ExcludedInv'
  OBVIOUS
<1>1. ASSUME comp' = comp, excluded' = excluded PROVE MembersInv' /\ ExcludedInv'
  BY <1>1 DEF MembersInv, ExcludedInv, Nests, TakenAway
<1>2. CASE UNCHANGED vars
  BY <1>1, <1>2 DEF vars, history
<1>3. ASSUME NEW S \in Pools, MakePool(S) PROVE MembersInv' /\ ExcludedInv'
  BY <1>1, <1>3 DEF MakePool, history
<1>4. ASSUME NEW m \in Members, NEW kept \in SUBSET comp[m].fields, RestrictFields(m, kept)
      PROVE  MembersInv' /\ ExcludedInv'
  BY <1>4, RestrictKeepsMembers, RestrictKeepsExcluded
<1>5. ASSUME NEW m \in Members, NEW n \in 0 .. MaxCount, Resize(m, n)
      PROVE  MembersInv' /\ ExcludedInv'
  <2>1. MembersInv' /\ comp[m].group # None /\ \A k \in Members : k # m => comp'[k] = comp[k]
    BY <1>5, ResizeKeepsMembers
  <2>2. excluded' = excluded /\ excluded[m] = {}
    BY <1>5, <2>1 DEF Resize, history, ExcludedInv, TakenAway
  <2>3. QED BY <2>1, <2>2, OthersKeepExcluded
<1>6. ASSUME NEW m \in Members, NEW f \in Targets, AddTarget(m, f) \/ RemoveTarget(m, f)
      PROVE  MembersInv' /\ ExcludedInv'
  <2>1. MembersInv' /\ m \in Manual /\ \A k \in Members : k # m => comp'[k] = comp[k]
    BY <1>6, TargetKeepsMembers
  <2>2. excluded' = excluded /\ excluded[m] = {}
    BY <1>6, <2>1 DEF AddTarget, RemoveTarget, history, ExcludedInv
  <2>3. QED BY <2>1, <2>2, OthersKeepExcluded
<1>7. QED BY <1>2, <1>3, <1>4, <1>5, <1>6 DEF Next

LEMMA MembersInvAlways == Spec => [](MembersInv /\ ExcludedInv)
BY MembersInvInit, MembersInvNext, PTL DEF Spec

-----------------------------------------------------------------------------
(* What the plans read.                                                    *)

\* A block that fits into a map that keeps what a component declares crosses none of it.
LEMMA CrossesNoDeclaration ==
  ASSUME NEW c, NEW d \in 0 .. MaxDepth, Nests(c, d), Resolved(c) # Refused,
         NEW map \in DeviceMaps, Keeps(Resolved(c), map),
         NEW s \in Spaces, map[s] # None => Valid(map[s].ranges),
         NEW b \in AddressRange, NEW limit, Fits(b, map[s], limit)
  PROVE  Edges(Declared(c, s)) \cap (b[1] + 1 .. b[2]) = {}
<1> SUFFICES ASSUME NEW e \in Edges(Declared(c, s)), e \in b[1] + 1 .. b[2] PROVE FALSE
  OBVIOUS
<1>1. PICK r \in Declared(c, s) : e \in {r[1], r[2] + 1}
  BY DEF Edges
<1>2. PICK j \in Parts(c) : OwnMap(j)[s] # None /\ OwnMap(j)[s].declared /\ r \in OwnMap(j)[s].ranges
  BY DEF Declared
<1>3. e \in Edges(OwnMap(j)[s].ranges)
  BY <1>1, <1>2 DEF Edges
<1>4. Keeps(OwnMap(j), Resolved(c))
  BY ResolvedKeepsDeclarations
<1>5. Keeps(OwnMap(j), map)
  BY <1>4, KeepsOnward
<1>6. map[s] # None /\ e \in Edges(map[s].ranges)
  BY <1>2, <1>3, <1>5 DEF Keeps
<1>7. map[s].ranges \subseteq AddressRange /\ Valid(map[s].ranges)
  BY <1>6, DeviceMapType DEF RangeSets
<1>8. PICK q \in map[s].ranges : Cells(b) \subseteq Cells(q)
  BY <1>6 DEF Fits
<1>9. Edges(map[s].ranges) \cap (b[1] + 1 .. b[2]) = {}
  BY <1>7, <1>8, FitsCrossesNoEdge
<1>10. QED BY <1>6, <1>9

LEMMA PlanIsSound ==
  ASSUME NEW c, NEW d \in 0 .. MaxDepth, Nests(c, d), PlanOf(c) # Refused
  PROVE  Sound(PlanOf(c), Spans(c), c.limit, {c})
<1> DEFINE plan == PlanOf(c)
           map == Resolved(c)
<1>1. IsFiniteSet(Spans(c)) /\ Spans(c) \subseteq SpanType
  BY SpansType
<1>2. map \in DeviceMaps \cup {Refused} /\ c.limit \in Nat
  BY ResolvedKeepsDeclarations DEF Nests, IsComponent
<1>3. plan = Plan(Spans(c), map, c.gap, c.limit) /\ plan # Refused
  BY DEF PlanOf
<1> HIDE DEF plan, map
<1>4. Serves(plan, Spans(c), map, c.limit)
  BY <1>1, <1>2, <1>3, PlansReadSpans
<1>5. map # Refused
  BY <1>4, DeviceMapType DEF Serves
<1>6. ASSUME NEW s \in Spaces, NEW b \in plan[s]
      PROVE  Width(b) <= c.limit /\ Edges(Declared(c, s)) \cap (b[1] + 1 .. b[2]) = {}
  <2>1. b \in AddressRange /\ Fits(b, map[s], c.limit)
    BY <1>4 DEF RangeSets, Serves
  <2>2. map[s] # None => Valid(map[s].ranges)
    BY <1>4 DEF Serves
  <2>3. Keeps(Resolved(c), map)
    BY KeepsItself DEF map
  <2>4. Edges(Declared(c, s)) \cap (b[1] + 1 .. b[2]) = {}
    BY <1>4, <1>5, <2>1, <2>2, <2>3, CrossesNoDeclaration DEF map, Serves
  <2>5. QED BY <2>1, <2>4 DEF Fits
<1>7. Sound(plan, Spans(c), c.limit, {c})
  BY <1>4, <1>6 DEF Sound, Serves
<1>8. QED BY <1>7 DEF plan

LEMMA MemberMapsType ==
  ASSUME NEW c, NEW d \in 0 .. MaxDepth, Nests(c, d)
  PROVE  /\ IsFiniteSet(MemberMaps(c)) /\ MemberMaps(c) \subseteq DeviceMaps \cup {Refused}
         /\ Resolved(c) \in MemberMaps(c)
<1> DEFINE map == Resolved(c)
           claim == Claimed(Unmapped(map, Spans(c)), c.gap, c.limit)
<1>1. IsFiniteSet(Spans(c)) /\ Spans(c) \subseteq SpanType
  BY SpansType
<1>2. map \in DeviceMaps \cup {Refused} /\ c.limit \in Nat
  BY ResolvedKeepsDeclarations DEF Nests, IsComponent
<1>3. MemberMaps(c) = IF map = Refused THEN {Refused} ELSE {map, claim}
  BY DEF MemberMaps
<1> HIDE DEF map
<1>4. IsFiniteSet(Unmapped(map, Spans(c))) /\ Unmapped(map, Spans(c)) \subseteq SpanType
  BY <1>1, UnmappedType
<1>5. claim \in DeviceMaps \cup {Refused}
  BY <1>2, <1>4, ClaimedType
<1> HIDE DEF claim
<1>6. IsFiniteSet({Refused}) /\ IsFiniteSet({map, claim})
  <2>1. IsFiniteSet({Refused}) /\ IsFiniteSet({map}) /\ IsFiniteSet({claim})
    BY FS_Singleton
  <2>2. {map, claim} = {map} \cup {claim}
    OBVIOUS
  <2>3. QED BY <2>1, <2>2, FS_Union
<1>7. QED BY <1>2, <1>3, <1>5, <1>6 DEF map

LEMMA PoolMapsType ==
  ASSUME MembersInv, NEW S \in Pools
  PROVE  LET maps == UNION {MemberMaps(comp[m]) : m \in S} IN
         /\ IsFiniteSet(maps) /\ maps \subseteq DeviceMaps \cup {Refused}
         /\ \A m \in S : Resolved(comp[m]) \in maps
<1> DEFINE f == [m \in S |-> MemberMaps(comp[m])]
<1>1. IsFiniteSet(S) /\ S \subseteq Members /\ MaxDepth \in 0 .. MaxDepth
  BY LayoutAssumption, FS_Subset
<1>2. ASSUME NEW m \in S
      PROVE  /\ IsFiniteSet(MemberMaps(comp[m])) /\ MemberMaps(comp[m]) \subseteq DeviceMaps \cup {Refused}
             /\ Resolved(comp[m]) \in MemberMaps(comp[m])
  <2>1. Nests(comp[m], MaxDepth)
    BY <1>1 DEF MembersInv
  <2>2. QED BY <1>1, <2>1, MemberMapsType
<1>3. IsFiniteSet({f[m] : m \in DOMAIN f}) /\ {f[m] : m \in DOMAIN f} = {MemberMaps(comp[m]) : m \in S}
  BY <1>1, ImageIsFinite
<1>4. IsFiniteSet(UNION {MemberMaps(comp[m]) : m \in S})
  <2>1. IsFiniteSet({MemberMaps(comp[m]) : m \in S})
    BY <1>3
  <2>2. QED BY <1>2, <2>1, FS_UNION
<1>5. QED BY <1>2, <1>4

LEMMA PoolSpansType ==
  ASSUME MembersInv, NEW S \in Pools
  PROVE  LET spans == UNION {Spans(comp[m]) : m \in S} IN
         IsFiniteSet(spans) /\ spans \subseteq SpanType
<1> DEFINE f == [m \in S |-> Spans(comp[m])]
<1>1. IsFiniteSet(S) /\ S \subseteq Members /\ MaxDepth \in 0 .. MaxDepth
  BY LayoutAssumption, FS_Subset
<1>2. \A m \in S : IsFiniteSet(Spans(comp[m])) /\ Spans(comp[m]) \subseteq SpanType
  BY <1>1, SpansType DEF MembersInv
<1>3. IsFiniteSet({f[m] : m \in DOMAIN f}) /\ {f[m] : m \in DOMAIN f} = {Spans(comp[m]) : m \in S}
  BY <1>1, ImageIsFinite
<1>4. IsFiniteSet(UNION {Spans(comp[m]) : m \in S})
  <2>1. IsFiniteSet({Spans(comp[m]) : m \in S})
    BY <1>3
  <2>2. QED BY <1>2, <2>1, FS_UNION
<1>5. QED BY <1>2, <1>4

LEMMA PoolLimit ==
  ASSUME MembersInv, NEW S \in Pools, S # {}
  PROVE  Max(Limits(S)) \in Nat
<1> DEFINE f == [m \in S |-> comp[m].limit]
<1>1. IsFiniteSet(S) /\ S \subseteq Members
  BY LayoutAssumption, FS_Subset
<1>2. \A m \in S : comp[m].limit \in Nat
  BY <1>1 DEF MembersInv, Nests, IsComponent
<1>3. IsFiniteSet({f[m] : m \in DOMAIN f}) /\ {f[m] : m \in DOMAIN f} = Limits(S)
  BY <1>1, ImageIsFinite DEF Limits
<1>4. IsFiniteSet(Limits(S)) /\ Limits(S) \subseteq Nat /\ Limits(S) # {}
  BY <1>2, <1>3 DEF Limits
<1>5. \E x \in Limits(S) : \A y \in Limits(S) : x >= y
  BY <1>4, FiniteHasMax
<1>6. Max(Limits(S)) \in Limits(S)
  BY <1>5 DEF Max
<1>7. QED BY <1>4, <1>6

\* A ComponentGroup whose plan can be made has the map its members make together.
LEMMA PoolHasMap ==
  ASSUME MembersInv, PoolInv, NEW S \in Pools, Current(S), PoolPlan(S) # Refused, S # {}
  PROVE  LET plan == PoolPlan(S)
             map == poolMap[S]
             spans == UNION {Spans(comp[m]) : m \in S} IN
         /\ map = PoolMap(S, comp) /\ map \in DeviceMaps /\ map # Refused
         /\ Serves(plan, spans, map, Max(Limits(S)))
<1> DEFINE plan == PoolPlan(S)
           map == poolMap[S]
           spans == UNION {Spans(comp[m]) : m \in S}
           maps == UNION {MemberMaps(comp[m]) : m \in S}
<1>1. map = PoolMap(S, comp)
  BY DEF Current, PoolInv
<1>2. IsFiniteSet(maps) /\ maps \subseteq DeviceMaps \cup {Refused}
  BY PoolMapsType
<1>3. Max(Limits(S)) \in Nat
  BY PoolLimit
<1>4. IsFiniteSet(spans) /\ spans \subseteq SpanType
  BY PoolSpansType
<1>5. map = Merged(maps)
  BY <1>1 DEF PoolMap
<1>6. plan = Plan(spans, map, 0, Max(Limits(S))) /\ plan # Refused
  BY DEF PoolPlan
<1> HIDE DEF map, maps, spans, plan
<1>7. map \in DeviceMaps \cup {Refused}
  BY <1>2, <1>5, MergeKeepsDeclarations
<1>8. Serves(plan, spans, map, Max(Limits(S)))
  BY <1>3, <1>4, <1>6, <1>7, PlansReadSpans
<1>9. map \in DeviceMaps /\ map # Refused
  BY <1>8, DeviceMapType DEF Serves
<1>10. QED BY <1>9, <1>1, <1>8, <1>9 DEF map, plan, spans

LEMMA PoolIsSound ==
  ASSUME MembersInv, PoolInv, NEW S \in Pools, Current(S), PoolPlan(S) # Refused
  PROVE  Sound(PoolPlan(S), UNION {Spans(comp[m]) : m \in S}, Max(Limits(S)), {comp[m] : m \in S})
<1> DEFINE plan == PoolPlan(S)
           map == poolMap[S]
           spans == UNION {Spans(comp[m]) : m \in S}
           maps == UNION {MemberMaps(comp[m]) : m \in S}
<1>1. CASE S = {}
  <2>1. spans = {}
    BY <1>1
  <2>2. \A s \in Spaces : In(spans, s) = {}
    BY <2>1 DEF In
  <2>3. \A s \in Spaces : plan[s] = {}
    BY <2>2 DEF PoolPlan, Plan
  <2> HIDE DEF plan, spans
  <2>4. Sound(plan, spans, Max(Limits(S)), {comp[m] : m \in S})
    BY <2>2, <2>3 DEF Sound
  <2>5. QED BY <2>4 DEF plan, spans
<1>2. CASE S # {}
  <2>1. /\ map = PoolMap(S, comp) /\ map \in DeviceMaps /\ map # Refused
        /\ Serves(plan, spans, map, Max(Limits(S)))
    BY <1>2, PoolHasMap
  <2>2. /\ IsFiniteSet(maps) /\ maps \subseteq DeviceMaps \cup {Refused}
        /\ \A m \in S : Resolved(comp[m]) \in maps
    BY PoolMapsType
  <2>3. map = Merged(maps)
    BY <2>1 DEF PoolMap
  <2> HIDE DEF plan, spans, map, maps
  <2>4. \A m \in maps : m \in DeviceMaps /\ Keeps(m, map)
    BY <2>1, <2>2, <2>3, MergedKeeps
  <2>5. ASSUME NEW s \in Spaces, NEW b \in plan[s]
        PROVE  /\ Width(b) <= Max(Limits(S))
               /\ \A m \in S : Edges(Declared(comp[m], s)) \cap (b[1] + 1 .. b[2]) = {}
    <3>1. b \in AddressRange /\ Fits(b, map[s], Max(Limits(S)))
      BY <2>1 DEF RangeSets, Serves
    <3>2. map[s] # None => Valid(map[s].ranges)
      BY <2>1 DEF Serves
    <3>3. ASSUME NEW m \in S PROVE Edges(Declared(comp[m], s)) \cap (b[1] + 1 .. b[2]) = {}
      <4>1. Nests(comp[m], MaxDepth) /\ MaxDepth \in 0 .. MaxDepth
        BY LayoutAssumption DEF MembersInv
      <4>2. Resolved(comp[m]) # Refused /\ Keeps(Resolved(comp[m]), map)
        BY <2>2, <2>4, DeviceMapType
      <4>3. QED BY <2>1, <3>1, <3>2, <4>1, <4>2, CrossesNoDeclaration
    <3>4. QED BY <3>1, <3>3 DEF Fits
  <2>6. Sound(plan, spans, Max(Limits(S)), {comp[m] : m \in S})
    BY <2>1, <2>5 DEF Sound, Serves
  <2>7. QED BY <2>6 DEF plan, spans
<1>3. QED BY <1>1, <1>2

\* PlansAreSound: every plan, alone or pooled, reads each field whole, within the limit, and
\* across no boundary that an author declared (_planning.py, _ranges.py, component_group.py).
THEOREM SoundPlans == Spec => []PlansAreSound
<1>1. MembersInv /\ PoolInv => PlansAreSound
  <2> SUFFICES ASSUME MembersInv, PoolInv PROVE PlansAreSound
    OBVIOUS
  <2>1. \A m \in Members : PlanOf(comp[m]) # Refused =>
          Sound(PlanOf(comp[m]), Spans(comp[m]), comp[m].limit, {comp[m]})
    <3>1. MaxDepth \in 0 .. MaxDepth /\ \A m \in Members : Nests(comp[m], MaxDepth)
      BY LayoutAssumption DEF MembersInv
    <3>2. QED BY <3>1, PlanIsSound
  <2>2. QED BY <2>1, PoolIsSound DEF PlansAreSound
<1>2. QED BY <1>1, PoolInvAlways, MembersInvAlways, PTL

LEMMA MergedCells ==
  ASSUME NEW maps, IsFiniteSet(maps), maps \subseteq DeviceMaps \cup {Refused},
         NEW merged, merged = Merged(maps), merged # Refused, NEW s \in Spaces
  PROVE  /\ merged[s] = None <=> \A m \in maps : m[s] = None
         /\ merged[s] # None =>
              \A a \in AllCells(merged[s].ranges) :
                \E m \in maps : m[s] # None /\ a \in AllCells(m[s].ranges)
<1>1. /\ merged[s] = None <=> \A m \in maps : m[s] = None
      /\ merged[s] # None =>
           AllCells(merged[s].ranges) = UNION {AllCells(m[s].ranges) : m \in {n \in maps : n[s] # None}}
  BY MergeKeepsDeclarations
<1>2. QED BY <1>1

\* What a member brings to the merge is its map, or what it reads by itself where it has none.
LEMMA MemberBrings ==
  ASSUME NEW c, NEW d \in 0 .. MaxDepth, Nests(c, d), Resolved(c) # Refused,
         Refused \notin MemberMaps(c), NEW s \in Spaces
  PROVE  LET map == Resolved(c)
             alone == Plan(Unmapped(map, Spans(c)), Unconstrained, c.gap, c.limit) IN
         /\ In(Spans(c), s) # {} => \E n \in MemberMaps(c) : n[s] # None
         /\ \A n \in MemberMaps(c) : n[s] # None =>
              n[s] = map[s] \/ (map[s] = None /\ n[s].ranges = alone[s])
<1> DEFINE map == Resolved(c)
           loose == Unmapped(map, Spans(c))
           alone == Plan(loose, Unconstrained, c.gap, c.limit)
           claim == Claimed(loose, c.gap, c.limit)
<1>1. IsFiniteSet(Spans(c)) /\ Spans(c) \subseteq SpanType
  BY SpansType
<1>2. MemberMaps(c) = {map, claim}
  BY DEF MemberMaps
<1>3. c.limit \in Nat
  BY DEF Nests, IsComponent
<1> HIDE DEF map
<1>4. IsFiniteSet(loose) /\ loose \subseteq SpanType
  BY <1>1, UnmappedType
<1>5. claim # Refused
  BY <1>2
<1>6. \A x \in loose : map[x.space] = None
  BY DEF Unmapped
<1>7. \A x \in Spans(c) : map[x.space] = None => x \in loose
  BY DEF Unmapped
<1> HIDE DEF loose
<1>8. /\ claim[s] = None <=> In(loose, s) = {}
      /\ claim[s] # None => claim[s].ranges = alone[s]
  BY <1>3, <1>4, <1>5, ClaimedType
<1> HIDE DEF claim, alone
<1>9. claim[s] # None => map[s] = None
  BY <1>6, <1>8 DEF In
<1>10. In(Spans(c), s) # {} => map[s] # None \/ claim[s] # None
  BY <1>7, <1>8 DEF In
<1>11. QED BY <1>2, <1>8, <1>9, <1>10 DEF map, alone, loose

LEMMA PoolReads ==
  ASSUME MembersInv, PoolInv, NEW S \in Pools, Current(S), PoolPlan(S) # Refused,
         NEW s \in Spaces, NEW a \in Reads(PoolPlan(S), s)
  PROVE  \E m \in S : LET c == comp[m]
                          map == Resolved(c) IN
           IF map[s] # None THEN a \in AllCells(map[s].ranges)
           ELSE a \in Reads(Plan(Unmapped(map, Spans(c)), Unconstrained, c.gap, c.limit), s)
<1> DEFINE plan == PoolPlan(S)
           map == poolMap[S]
           spans == UNION {Spans(comp[m]) : m \in S}
           maps == UNION {MemberMaps(comp[m]) : m \in S}
<1>1. PICK b \in plan[s] : a \in Cells(b)
  BY DEF Reads, AllCells
<1>2. S # {}
  <2> SUFFICES ASSUME S = {} PROVE FALSE
    OBVIOUS
  <2>1. In(UNION {Spans(comp[m]) : m \in S}, s) = {}
    BY DEF In
  <2>2. PoolPlan(S)[s] = {}
    BY <2>1 DEF PoolPlan, Plan
  <2>3. QED BY <1>1, <2>2
<1>3. /\ map = PoolMap(S, comp) /\ map \in DeviceMaps /\ map # Refused
      /\ Serves(plan, spans, map, Max(Limits(S)))
  BY <1>2, PoolHasMap
<1>4. /\ IsFiniteSet(maps) /\ maps \subseteq DeviceMaps \cup {Refused}
      /\ \A m \in S : Resolved(comp[m]) \in maps
  BY PoolMapsType
<1>5. map = Merged(maps)
  BY <1>3 DEF PoolMap
<1>6. \A m \in S : MemberMaps(comp[m]) \subseteq maps
  OBVIOUS
<1>7. \A n \in maps : \E m \in S : n \in MemberMaps(comp[m])
  OBVIOUS
<1>8. \A x \in spans : \E m \in S : x \in Spans(comp[m])
  OBVIOUS
<1> HIDE DEF plan, map, spans, maps
<1>9. \A n \in maps : n \in DeviceMaps /\ n # Refused
  BY <1>3, <1>4, <1>5, MergedKeeps, DeviceMapType
<1>10. ASSUME NEW m \in S
       PROVE  LET R == Resolved(comp[m])
                  alone == Plan(Unmapped(R, Spans(comp[m])), Unconstrained, comp[m].gap, comp[m].limit) IN
              /\ In(Spans(comp[m]), s) # {} => \E n \in MemberMaps(comp[m]) : n[s] # None
              /\ \A n \in MemberMaps(comp[m]) : n[s] # None =>
                   n[s] = R[s] \/ (R[s] = None /\ n[s].ranges = alone[s])
  <2>1. Nests(comp[m], MaxDepth) /\ MaxDepth \in 0 .. MaxDepth
    BY LayoutAssumption DEF MembersInv
  <2>2. Resolved(comp[m]) # Refused /\ Refused \notin MemberMaps(comp[m])
    BY <1>4, <1>6, <1>9
  <2>3. QED BY <2>1, <2>2, MemberBrings
<1>11. map[s] # None
  <2>1. In(spans, s) # {}
    BY <1>1, <1>3 DEF Serves
  <2>2. PICK m \in S : In(Spans(comp[m]), s) # {}
    BY <1>8, <2>1 DEF In
  <2>3. PICK n \in MemberMaps(comp[m]) : n[s] # None
    BY <1>10, <2>2
  <2>4. n \in maps
    BY <1>6
  <2>5. QED BY <1>3, <1>4, <1>5, <2>3, <2>4, MergedCells
<1>12. PICK q \in map[s].ranges : Cells(b) \subseteq Cells(q)
  BY <1>1, <1>3, <1>11 DEF Serves, Fits
<1>13. a \in AllCells(map[s].ranges)
  BY <1>1, <1>12 DEF AllCells
<1>14. PICK n \in maps : n[s] # None /\ a \in AllCells(n[s].ranges)
  BY <1>3, <1>4, <1>5, <1>11, <1>13, MergedCells
<1>15. PICK m \in S : n \in MemberMaps(comp[m])
  BY <1>7
<1> DEFINE R == Resolved(comp[m])
           alone == Plan(Unmapped(R, Spans(comp[m])), Unconstrained, comp[m].gap, comp[m].limit)
<1>16. n[s] = R[s] \/ (R[s] = None /\ n[s].ranges = alone[s])
  BY <1>10, <1>14, <1>15
<1>17. IF R[s] # None THEN a \in AllCells(R[s].ranges) ELSE a \in Reads(alone, s)
  <2> HIDE DEF R, alone
  <2>1. QED BY <1>14, <1>16 DEF Reads
<1>18. QED BY <1>17

\* PoolReadsNothingMore: an address a ComponentGroup reads is in some member's map, or that
\* member reads it by itself where it has no map (component_group.py, _ranges_by_space).
THEOREM PoolingWidensNothing == Spec => []PoolReadsNothingMore
<1>1. MembersInv /\ PoolInv => PoolReadsNothingMore
  <2> SUFFICES ASSUME MembersInv, PoolInv,
                      NEW S \in Pools, Current(S), PoolPlan(S) # Refused, NEW s \in Spaces,
                      NEW a \in Reads(PoolPlan(S), s)
               PROVE  a \in UNION {LET c == comp[m]
                                       map == Resolved(c) IN
                                   IF map[s] # None THEN AllCells(map[s].ranges)
                                   ELSE Reads(Plan(Unmapped(map, Spans(c)), Unconstrained, c.gap, c.limit), s) :
                                     m \in S}
    BY DEF PoolReadsNothingMore
  <2>1. PICK m \in S : LET c == comp[m]
                           map == Resolved(c) IN
          IF map[s] # None THEN a \in AllCells(map[s].ranges)
          ELSE a \in Reads(Plan(Unmapped(map, Spans(c)), Unconstrained, c.gap, c.limit), s)
    BY PoolReads
  <2>2. QED BY <2>1
<1>2. QED BY <1>1, PoolInvAlways, MembersInvAlways, PTL

\* A component without a group is its only part.
LEMMA NoGroupNoInstances ==
  ASSUME NEW c, NEW d, Nests(c, d), c.group = None
  PROVE  Parts(c) = {c} /\ Spans(c) = OwnSpans(c) /\ Resolved(c) = OwnMap(c)
         /\ OwnMap(c) \in DeviceMaps
<1>1. MaxDepth \in Nat /\ 0 \in 0 .. MaxDepth /\ MaxDepth - MaxDepth = 0
  BY LayoutAssumption
<1>2. Nests(c, 0) /\ IsComponent(c)
  BY DEF Nests
<1>3. Levels(c)[0] = {c} /\ \A n \in 0 .. MaxDepth : n > 0 => Levels(c)[n] = {}
  BY <1>1, <1>2, LevelsDef, LevelsType
<1>4. Parts(c) = {c}
  <2>1. \A n \in 0 .. MaxDepth : n = 0 \/ n > 0
    BY <1>1
  <2>2. QED BY <1>1, <1>3, <2>1 DEF Parts
<1>5. Spans(c) = OwnSpans(c)
  BY <1>4 DEF Spans
<1>6. PICK resolved :
        /\ Resolved(c) = resolved[MaxDepth][c]
        /\ \A i \in Levels(c)[MaxDepth] : resolved[0][i] = OwnMap(i)
        /\ \A n \in 1 .. MaxDepth : \A i \in Levels(c)[MaxDepth - n] :
             resolved[n][i] = WithInstances(i, resolved[n - 1])
  BY ResolvedDef
<1>7. CASE MaxDepth = 0
  BY <1>3, <1>6, <1>7, <1>2, OwnMapType, <1>4, <1>5
<1>8. CASE MaxDepth # 0
  <2>1. MaxDepth \in 1 .. MaxDepth /\ c \in Levels(c)[MaxDepth - MaxDepth]
    BY <1>1, <1>3, <1>8
  <2>2. Resolved(c) = WithInstances(c, resolved[MaxDepth - 1])
    BY <1>6, <2>1
  <2>3. Instances(c) = {}
    BY DEF Instances
  <2>4. QED BY <1>2, <1>4, <1>5, <2>2, <2>3, OwnMapType DEF WithInstances
<1>9. QED BY <1>7, <1>8

\* A component's plan reads nothing that was taken away from it.
LEMMA TakenAwayIsNotRead ==
  ASSUME NEW c, NEW n \in 0 .. MaxDepth, Nests(c, n), c.inst = 0, NEW d, TakenAway(c, d),
         PlanOf(c) # Refused, d[2] + c.base \in Reads(PlanOf(c), d[1])
  PROVE  FALSE
<1> DEFINE s == d[1]
           plan == PlanOf(c)
           map == Resolved(c)
           at == d[2] + c.base
<1>1. Spans(c) = OwnSpans(c) /\ map = OwnMap(c) /\ map \in DeviceMaps
  BY NoGroupNoInstances DEF TakenAway
<1>2. /\ IsComponent(c) /\ c.map \in DeviceMaps /\ c.base \in Nat /\ c.base + c.inst = c.base
      /\ c.limit \in Nat
  BY DEF Nests, IsComponent
<1>3. IsFiniteSet(Spans(c)) /\ Spans(c) \subseteq SpanType
  BY SpansType
<1>4. plan = Plan(Spans(c), map, c.gap, c.limit) /\ plan # Refused
  BY DEF PlanOf
<1>5. s \in Spaces
  BY DEF TakenAway
<1>6. PICK b \in plan[s] : at \in Cells(b)
  BY DEF Reads, AllCells
<1>7. map = Shifted(c.map, c.base)
  BY <1>1, <1>2 DEF OwnMap
<1> HIDE DEF plan, map, at
<1>8. Serves(plan, Spans(c), map, c.limit)
  BY <1>1, <1>2, <1>3, <1>4, PlansReadSpans
<1>9. CASE c.map[s] # None
  <2>1. /\ map[s] # None
        /\ map[s].ranges = {<<r[1] + c.base, r[2] + c.base>> : r \in c.map[s].ranges}
    BY <1>2, <1>5, <1>7, <1>9, ShiftedSpace
  <2>2. PICK q \in map[s].ranges : Cells(b) \subseteq Cells(q)
    BY <1>5, <1>6, <1>8, <2>1 DEF Serves, Fits
  <2>3. PICK r \in c.map[s].ranges : q = <<r[1] + c.base, r[2] + c.base>>
    BY <2>1
  <2>4. r[1] \in Nat /\ r[2] \in Nat
    BY <1>2, <1>5, <1>9, DeviceMapType, RangeType DEF RangeSets
  <2>5. at \in Cells(q)
    BY <1>6, <2>2
  <2>6. at \in r[1] + c.base .. r[2] + c.base
    BY <2>3, <2>5 DEF Cells
  <2>7. d[2] \in Cells(r)
    <3>1. d[2] \in Nat
      BY DEF TakenAway
    <3>2. d[2] + c.base \in r[1] + c.base .. r[2] + c.base
      BY <2>6 DEF at
    <3>3. d[2] \in r[1] .. r[2]
      BY <1>2, <2>4, <3>1, <3>2
    <3>4. QED BY <3>3 DEF Cells
  <2>8. QED BY <1>9, <2>7 DEF TakenAway, AllCells
<1>10. CASE c.map[s] = None
  <2>1. In(DeclaredReads(c, c.fields), s) = {}
    BY <1>10 DEF TakenAway
  <2>2. ASSUME NEW f \in c.fields PROVE f.space # s
    <3>1. Span(f.space, DeclaredAddress(c, f), f.count) \in DeclaredReads(c, c.fields)
      BY DEF DeclaredReads, DeclaredSpans
    <3>2. Span(f.space, DeclaredAddress(c, f), f.count).space = f.space
      BY DEF Span
    <3>3. QED BY <2>1, <3>1, <3>2 DEF In
  <2>3. CountSpans(c) = {}
    BY DEF CountSpans, TakenAway
  <2>4. In(OwnSpans(c), s) = {}
    BY <2>2, <2>3 DEF OwnSpans, In, Span
  <2>5. QED BY <1>1, <1>5, <1>6, <1>8, <2>4 DEF Serves
<1>11. QED BY <1>9, <1>10

\* ExcludedIsNotRead: what restrict_fields() took away from a component is in none of its
\* reads, whatever is done to it later (component.py, _reshaped_ranges).
THEOREM ExcludedStaysOut == Spec => []ExcludedIsNotRead
<1>1. MembersInv /\ ExcludedInv => ExcludedIsNotRead
  <2> SUFFICES ASSUME MembersInv, ExcludedInv, NEW m \in Members, PlanOf(comp[m]) # Refused,
                      NEW d \in excluded[m], d[2] + comp[m].base \in Reads(PlanOf(comp[m]), d[1])
               PROVE  FALSE
    BY DEF ExcludedIsNotRead
  <2>1. Nests(comp[m], MaxDepth) /\ comp[m].inst = 0 /\ MaxDepth \in 0 .. MaxDepth
    BY LayoutAssumption DEF MembersInv
  <2>2. TakenAway(comp[m], d)
    BY DEF ExcludedInv
  <2>3. QED BY <2>1, <2>2, TakenAwayIsNotRead
<1>2. QED BY <1>1, MembersInvAlways, PTL

-----------------------------------------------------------------------------
(* A component one address further on.                                     *)

Moved(c) == [c EXCEPT !.base = @ + 1]
AllMoved(cs) == {Moved(i) : i \in cs}

LEMMA MovedType ==
  ASSUME NEW c, NEW d, Nests(c, d)
  PROVE  /\ Nests(Moved(c), d)
         /\ Moved(c).base = c.base + 1 /\ c.base \in Nat /\ c.inst \in Nat
         /\ \A x \in {"fields", "map", "index", "inst", "scaleInBlock", "gap", "limit", "group"} :
              Moved(c)[x] = c[x]
<1>1. DOMAIN c = {"fields", "map", "index", "base", "inst", "scaleInBlock", "gap", "limit", "group"}
      /\ c.base \in Nat /\ c.inst \in Nat
  BY DEF Nests, IsComponent
<1>2. DOMAIN Moved(c) = DOMAIN c /\ Moved(c).base = c.base + 1
  BY <1>1 DEF Moved
<1>3. \A x \in {"fields", "map", "index", "inst", "scaleInBlock", "gap", "limit", "group"} :
        Moved(c)[x] = c[x]
  BY <1>1 DEF Moved
<1>4. Moved(c).base \in Nat
  BY <1>1, <1>2
<1>5. /\ Moved(c).fields = c.fields /\ Moved(c).map = c.map /\ Moved(c).index = c.index
      /\ Moved(c).inst = c.inst /\ Moved(c).gap = c.gap /\ Moved(c).limit = c.limit
      /\ Moved(c).group = c.group
  BY <1>3
<1>6. Nests(Moved(c), d)
  BY <1>1, <1>2, <1>4, <1>5 DEF Nests, IsComponent
<1>7. QED BY <1>1, <1>2, <1>3, <1>6

LEMMA SpanMoves ==
  ASSUME NEW s, NEW a \in Nat, NEW n \in Nat
  PROVE  Span(s, a + 1, n) = UpSpan(Span(s, a, n))
<1>1. <<a, a + n - 1>>[1] + 1 = a + 1 /\ <<a, a + n - 1>>[2] + 1 = (a + 1) + n - 1
  OBVIOUS
<1>2. Span(s, a, n) = [space |-> s, cells |-> <<a, a + n - 1>>]
  BY DEF Span
<1>3. UpSpan(Span(s, a, n)) = [space |-> s, cells |-> Up(<<a, a + n - 1>>)]
  BY <1>2 DEF UpSpan
<1>4. Up(<<a, a + n - 1>>) = <<a + 1, (a + 1) + n - 1>>
  BY <1>1 DEF Up
<1>5. QED BY <1>3, <1>4 DEF Span

LEMMA AddressMoves ==
  ASSUME NEW c, NEW d, Nests(c, d), NEW f \in Field
  PROVE  /\ Address(Moved(c), f) = Address(c, f) + 1 /\ Address(c, f) \in Nat
         /\ Address(Moved(c), f) - Moved(c).inst = (Address(c, f) - c.inst) + 1
         /\ Address(c, f) - c.inst \in Nat
         /\ f.scale # None => /\ ScaleAddress(Moved(c), f) = ScaleAddress(c, f) + 1
                              /\ ScaleAddress(c, f) \in Nat
<1>1. /\ DeclaredAddress(c, f) \in Nat /\ Address(c, f) \in Nat /\ Address(c, f) - c.inst \in Nat
      /\ f.scale # None => DeclaredScale(c, f) \in Nat /\ ScaleAddress(c, f) \in Nat
  BY AddressType DEF Nests
<1>2. /\ Moved(c).base = c.base + 1 /\ c.base \in Nat /\ c.inst \in Nat
      /\ Moved(c).index = c.index /\ Moved(c).inst = c.inst /\ Moved(c).scaleInBlock = c.scaleInBlock
  BY MovedType
<1>3. DeclaredAddress(Moved(c), f) = DeclaredAddress(c, f) /\ DeclaredScale(Moved(c), f) = DeclaredScale(c, f)
  BY <1>2 DEF DeclaredAddress, DeclaredScale
<1>4. Address(Moved(c), f) = Address(c, f) + 1
  BY <1>1, <1>2, <1>3 DEF Address
<1>5. ASSUME f.scale # None PROVE ScaleAddress(Moved(c), f) = ScaleAddress(c, f) + 1
  <2> DEFINE inst == IF c.scaleInBlock THEN c.inst ELSE 0
  <2>1. inst \in Nat
    BY <1>2
  <2>2. /\ ScaleAddress(c, f) = DeclaredScale(c, f) + c.base + inst
        /\ ScaleAddress(Moved(c), f) = DeclaredScale(c, f) + (c.base + 1) + inst
    BY <1>2, <1>3 DEF ScaleAddress
  <2> HIDE DEF inst
  <2>3. QED BY <1>1, <1>2, <1>5, <2>1, <2>2
<1>6. QED BY <1>1, <1>2, <1>4, <1>5

LEMMA CountMoves ==
  ASSUME NEW c, NEW d, Nests(c, d)
  PROVE  CountSpans(Moved(c)) = UpSpans(CountSpans(c))
<1>1. Moved(c).group = c.group
  BY MovedType
<1>2. CASE c.group = None \/ c.group.register = None
  BY <1>1, <1>2 DEF CountSpans, UpSpans
<1>3. CASE ~(c.group = None \/ c.group.register = None)
  <2> DEFINE f == c.group.register
             at(x) == IF c.group.countInBlock THEN Address(x, f) ELSE Address(x, f) - x.inst
  <2>1. f \in Field /\ f.count \in Nat
    BY <1>3, FieldType DEF Nests, IsComponent
  <2>2. CountSpans(c) = {Span(f.space, at(c), f.count)}
    BY <1>3 DEF CountSpans
  <2>3. CountSpans(Moved(c)) = {Span(f.space, at(Moved(c)), f.count)}
    BY <1>1, <1>3 DEF CountSpans
  <2>4. at(Moved(c)) = at(c) + 1 /\ at(c) \in Nat
    <3> HIDE DEF f
    <3>1. /\ Address(Moved(c), f) = Address(c, f) + 1 /\ Address(c, f) \in Nat
          /\ Address(Moved(c), f) - Moved(c).inst = (Address(c, f) - c.inst) + 1
          /\ Address(c, f) - c.inst \in Nat
      BY <2>1, AddressMoves
    <3>2. QED BY <3>1
  <2> HIDE DEF f, at
  <2>5. Span(f.space, at(Moved(c)), f.count) = UpSpan(Span(f.space, at(c), f.count))
    BY <2>1, <2>4, SpanMoves
  <2>6. QED BY <2>2, <2>3, <2>5 DEF UpSpans
<1>4. QED BY <1>2, <1>3

LEMMA OwnSpansMove ==
  ASSUME NEW c, NEW d, Nests(c, d)
  PROVE  OwnSpans(Moved(c)) = UpSpans(OwnSpans(c))
<1> DEFINE A(x) == {Span(f.space, Address(x, f), f.count) : f \in c.fields}
           scaled == {g \in c.fields : g.scale # None}
           B(x) == {Span(f.space, ScaleAddress(x, f), 1) : f \in scaled}
<1>1. Moved(c).fields = c.fields /\ \A f \in c.fields : f \in Field /\ f.count \in Nat
  BY MovedType, FieldType DEF Nests, IsComponent
<1>2. OwnSpans(c) = A(c) \cup B(c) \cup CountSpans(c)
  BY DEF OwnSpans
<1>3. OwnSpans(Moved(c)) = A(Moved(c)) \cup B(Moved(c)) \cup CountSpans(Moved(c))
  BY <1>1 DEF OwnSpans
<1>4. ASSUME NEW f \in c.fields
      PROVE  Span(f.space, Address(Moved(c), f), f.count) = UpSpan(Span(f.space, Address(c, f), f.count))
  <2>1. Address(Moved(c), f) = Address(c, f) + 1 /\ Address(c, f) \in Nat
    BY <1>1, AddressMoves
  <2>2. QED BY <1>1, <2>1, SpanMoves
<1>5. ASSUME NEW f \in scaled
      PROVE  Span(f.space, ScaleAddress(Moved(c), f), 1) = UpSpan(Span(f.space, ScaleAddress(c, f), 1))
  <2>1. ScaleAddress(Moved(c), f) = ScaleAddress(c, f) + 1 /\ ScaleAddress(c, f) \in Nat
    BY <1>1, AddressMoves
  <2>2. QED BY <2>1, SpanMoves
<1> HIDE DEF scaled
<1>6. A(Moved(c)) = UpSpans(A(c))
  BY <1>4 DEF UpSpans
<1>7. B(Moved(c)) = UpSpans(B(c))
  BY <1>5 DEF UpSpans
<1>8. CountSpans(Moved(c)) = UpSpans(CountSpans(c))
  BY CountMoves
<1> HIDE DEF A, B
<1>9. UpSpans(A(c) \cup B(c) \cup CountSpans(c)) = UpSpans(A(c)) \cup UpSpans(B(c)) \cup UpSpans(CountSpans(c))
  BY DEF UpSpans
<1>10. QED BY <1>2, <1>3, <1>6, <1>7, <1>8, <1>9

LEMMA InstancesMove ==
  ASSUME NEW c, NEW d \in 0 .. MaxDepth, Nests(c, d)
  PROVE  Instances(Moved(c)) = AllMoved(Instances(c))
<1>1. Moved(c).group = c.group /\ Moved(c).base = c.base + 1 /\ Moved(c).inst = c.inst
  BY MovedType
<1>2. CASE c.group = None
  BY <1>1, <1>2 DEF Instances, AllMoved
<1>3. CASE c.group # None
  <2> DEFINE of == c.group.of
             at(i) == c.inst + i * c.group.stride
             N == 0 .. c.group.size - 1
             old(i) == [of EXCEPT !.base = c.base, !.inst = at(i)]
             new(i) == [of EXCEPT !.base = c.base + 1, !.inst = at(i)]
  <2>1. Instances(c) = {old(i) : i \in N}
    BY <1>3 DEF Instances
  <2>2. Instances(Moved(c)) = {new(i) : i \in N}
    BY <1>1, <1>3 DEF Instances
  <2>3. "base" \in DOMAIN of
    <3>1. d > 0 /\ of \in Classes[d - 1] /\ d - 1 \in 0 .. MaxDepth
      BY <1>3, LayoutAssumption DEF Nests
    <3>2. IsComponent(of)
      BY <3>1, LayoutAssumption
    <3> HIDE DEF of
    <3>3. QED BY <3>2 DEF IsComponent
  <2> HIDE DEF of, at, N
  <2>4. ASSUME NEW i PROVE Moved(old(i)) = new(i)
    BY <2>3 DEF Moved
  <2> HIDE DEF old, new
  <2>5. QED BY <2>1, <2>2, <2>4 DEF AllMoved
<1>4. QED BY <1>2, <1>3

LEMMA LevelsMove ==
  ASSUME NEW c, NEW d \in 0 .. MaxDepth, Nests(c, d)
  PROVE  \A n \in 0 .. MaxDepth : Levels(Moved(c))[n] = AllMoved(Levels(c)[n])
<1> DEFINE level == Levels(c)
           up == Levels(Moved(c))
           T == {n \in Nat : n <= MaxDepth => up[n] = AllMoved(level[n])}
<1>1. MaxDepth \in Nat
  BY LayoutAssumption
<1>2. /\ level[0] = {c} /\ up[0] = {Moved(c)}
      /\ \A n \in 0 .. MaxDepth - 1 : level[n + 1] = UNION {Instances(i) : i \in level[n]}
      /\ \A n \in 0 .. MaxDepth - 1 : up[n + 1] = UNION {Instances(i) : i \in up[n]}
  BY LevelsDef
<1>3. \A n \in 0 .. MaxDepth : \A i \in level[n] : d - n \in 0 .. MaxDepth /\ Nests(i, d - n)
  <2>1. ASSUME NEW n \in 0 .. MaxDepth, NEW i \in level[n]
        PROVE  d - n \in 0 .. MaxDepth /\ Nests(i, d - n)
    <3>1. n <= d /\ Nests(i, d - n)
      BY <1>1, <2>1, LevelsType
    <3>2. QED BY <1>1, <3>1
  <2>2. QED BY <2>1
<1> HIDE DEF level, up
<1>4. 0 \in T
  BY <1>2 DEF AllMoved
<1>5. ASSUME NEW n \in 0 .. MaxDepth - 1, n \in T PROVE n + 1 \in T
  <2>1. up[n] = AllMoved(level[n]) /\ n \in 0 .. MaxDepth
    BY <1>1, <1>5
  <2>2. \A i \in level[n] : Instances(Moved(i)) = AllMoved(Instances(i))
    BY <1>3, <2>1, InstancesMove
  <2>3. up[n + 1] = UNION {Instances(Moved(i)) : i \in level[n]}
    BY <1>2, <2>1 DEF AllMoved
  <2>4. up[n + 1] = UNION {AllMoved(Instances(i)) : i \in level[n]}
    BY <2>2, <2>3
  <2>5. UNION {AllMoved(Instances(i)) : i \in level[n]} = AllMoved(UNION {Instances(i) : i \in level[n]})
    BY DEF AllMoved
  <2>6. up[n + 1] = AllMoved(level[n + 1])
    BY <1>2, <2>4, <2>5
  <2>7. QED BY <2>6
<1>6. T \subseteq Nat
  OBVIOUS
<1> HIDE DEF T
<1>7. 0 .. MaxDepth \subseteq T
  BY <1>1, <1>4, <1>5, <1>6, FromZero
<1>8. QED BY <1>1, <1>7 DEF T, level, up

LEMMA SpansMove ==
  ASSUME NEW c, NEW d \in 0 .. MaxDepth, Nests(c, d)
  PROVE  Spans(Moved(c)) = UpSpans(Spans(c))
<1>1. Parts(Moved(c)) = AllMoved(Parts(c))
  <2> DEFINE level == Levels(c)
             up == Levels(Moved(c))
  <2>1. Parts(c) = UNION {level[n] : n \in 0 .. MaxDepth} /\ Parts(Moved(c)) = UNION {up[n] : n \in 0 .. MaxDepth}
    BY DEF Parts
  <2>2. \A n \in 0 .. MaxDepth : up[n] = AllMoved(level[n])
    BY LevelsMove
  <2> HIDE DEF level, up
  <2>3. UNION {up[n] : n \in 0 .. MaxDepth} = UNION {AllMoved(level[n]) : n \in 0 .. MaxDepth}
    BY <2>2
  <2>4. QED BY <2>1, <2>3 DEF AllMoved
<1>2. ASSUME NEW i \in Parts(c) PROVE OwnSpans(Moved(i)) = UpSpans(OwnSpans(i))
  <2>1. PICK n \in 0 .. MaxDepth : i \in Levels(c)[n]
    BY DEF Parts
  <2>2. Nests(i, d - n)
    BY <2>1, LevelsType, LayoutAssumption
  <2>3. QED BY <2>2, OwnSpansMove
<1>3. Spans(c) = UNION {OwnSpans(i) : i \in Parts(c)}
  BY DEF Spans
<1>4. Spans(Moved(c)) = UNION {OwnSpans(Moved(i)) : i \in Parts(c)}
  BY <1>1 DEF Spans, AllMoved
<1>5. Spans(Moved(c)) = UNION {UpSpans(OwnSpans(i)) : i \in Parts(c)}
  BY <1>2, <1>4
<1>6. QED BY <1>3, <1>5 DEF UpSpans

LEMMA OwnMapMoves ==
  ASSUME NEW c, NEW d, Nests(c, d)
  PROVE  OwnMap(Moved(c)) = UpMaps(OwnMap(c)) /\ OwnMap(c) \in DeviceMaps
<1>1. OwnMap(c) \in DeviceMaps
  BY OwnMapType DEF Nests
<1>2. /\ Moved(c).map = c.map /\ Moved(c).base = c.base + 1 /\ Moved(c).inst = c.inst
      /\ c.base \in Nat /\ c.inst \in Nat /\ c.map \in DeviceMaps
  BY MovedType DEF Nests, IsComponent
<1> DEFINE x == c.base + c.inst
           map == c.map
           once == Shifted(map, x)
<1>3. x \in Nat /\ Moved(c).base + Moved(c).inst = x + 1
  BY <1>2
<1>4. OwnMap(c) = once /\ OwnMap(Moved(c)) = Shifted(map, x + 1)
  BY <1>2, <1>3 DEF OwnMap
<1>5. UpMaps(OwnMap(c)) = Shifted(OwnMap(c), 1)
  BY <1>1, UpMapsType
<1>6. map \in DeviceMaps
  BY <1>2
<1> HIDE DEF x, map
<1>7. ASSUME NEW s \in Spaces
      PROVE  Shifted(once, 1)[s] = Shifted(map, x + 1)[s]
  <2>1. CASE map[s] = None
    BY <2>1 DEF Shifted
  <2>2. CASE map[s] # None
    <3> DEFINE R == map[s].ranges
               more == {<<r[1] + x, r[2] + x>> : r \in R}
    <3>1. R \in RangeSets /\ map[s] = [ranges |-> R, declared |-> map[s].declared]
      BY <1>6, <2>2, DeviceMapType, SpaceMapType
    <3>2. /\ once[s].ranges = more
          /\ once[s] # None
          /\ once[s] = [ranges |-> more, declared |-> map[s].declared]
      <4>1. /\ once[s] \in SpaceMaps /\ once[s] # None /\ once[s].ranges = more
            /\ once[s].declared = map[s].declared
        BY <1>3, <1>6, <2>2, ShiftedSpace
      <4> HIDE DEF once, more
      <4>2. QED BY <4>1, SpaceMapType
    <3>3. Shifted(once, 1)[s] = [ranges |-> {<<r[1] + 1, r[2] + 1>> : r \in more}, declared |-> map[s].declared]
      <4>1. Shifted(once, 1)[s] = [once[s] EXCEPT !.ranges = {<<r[1] + 1, r[2] + 1>> : r \in @}]
        BY <3>2 DEF Shifted
      <4> HIDE DEF once, more
      <4>2. {<<r[1] + 1, r[2] + 1>> : r \in once[s].ranges} = {<<r[1] + 1, r[2] + 1>> : r \in more}
        BY <3>2
      <4>3. \A rs : [once[s] EXCEPT !.ranges = rs] = [ranges |-> rs, declared |-> map[s].declared]
        BY <3>2
      <4>4. QED BY <4>1, <4>2, <4>3
    <3>4. Shifted(map, x + 1)[s] =
            [ranges |-> {<<r[1] + (x + 1), r[2] + (x + 1)>> : r \in R}, declared |-> map[s].declared]
      <4>1. Shifted(map, x + 1)[s] =
              [map[s] EXCEPT !.ranges = {<<r[1] + (x + 1), r[2] + (x + 1)>> : r \in @}]
        BY <2>2 DEF Shifted
      <4>2. QED BY <3>1, <4>1
    <3>5. \A r \in R : r[1] \in Nat /\ r[2] \in Nat
      BY <3>1, RangeType DEF RangeSets
    <3>6. {<<r[1] + 1, r[2] + 1>> : r \in more} = {<<r[1] + (x + 1), r[2] + (x + 1)>> : r \in R}
      <4>1. \A r \in R : <<<<r[1] + x, r[2] + x>>[1] + 1, <<r[1] + x, r[2] + x>>[2] + 1>>
                           = <<r[1] + (x + 1), r[2] + (x + 1)>>
        BY <1>3, <3>5
      <4> HIDE DEF R
      <4>2. {<<r[1] + 1, r[2] + 1>> : r \in more} =
              {<<<<r[1] + x, r[2] + x>>[1] + 1, <<r[1] + x, r[2] + x>>[2] + 1>> : r \in R}
        OBVIOUS
      <4>3. QED BY <4>1, <4>2
    <3>7. QED BY <3>3, <3>4, <3>6
  <2>3. QED BY <2>1, <2>2
<1>8. Shifted(once, 1) = Shifted(map, x + 1)
  <2>1. Shifted(once, 1) = [s \in Spaces |-> Shifted(once, 1)[s]]
        /\ Shifted(map, x + 1) = [s \in Spaces |-> Shifted(map, x + 1)[s]]
    BY DEF Shifted
  <2> HIDE DEF once
  <2>2. QED BY <1>7, <2>1
<1>9. QED BY <1>1, <1>4, <1>5, <1>8

LEMMA WithInstancesMoves ==
  ASSUME NEW c, NEW d \in 0 .. MaxDepth, Nests(c, d),
         NEW maps, \A i \in Instances(c) : maps[i] \in DeviceMaps \cup {Refused},
         NEW ups, \A i \in Instances(c) : ups[Moved(i)] = UpMaps(maps[i])
  PROVE  WithInstances(Moved(c), ups) = UpMaps(WithInstances(c, maps))
<1> DEFINE new == Moved(c)
           parts == Brought(c, maps)
           upParts == Brought(new, ups)
           all == MapsOf(parts)
           upAll == MapsOf(upParts)
           mapped == {s \in Spaces : \E m \in all : m[s] # None}
           upMapped == {s \in Spaces : \E m \in upAll : m[s] # None}
           loose == LooseOf(parts)
           upLoose == LooseOf(upParts)
           X == {x \in loose : x.space \in mapped}
           claim == Claimed(X, c.gap, c.limit)
           Y == {x \in upLoose : x.space \in upMapped}
           upClaim == Claimed(Y, c.gap, c.limit)
<1>1. Instances(new) = AllMoved(Instances(c))
  BY InstancesMove
<1>2. OwnMap(new) = UpMaps(OwnMap(c)) /\ OwnMap(c) \in DeviceMaps /\ OwnSpans(new) = UpSpans(OwnSpans(c))
  BY OwnMapMoves, OwnSpansMove
<1>3. ASSUME NEW i \in Instances(c)
      PROVE  ups[Moved(i)] = UpMaps(maps[i]) /\ Spans(Moved(i)) = UpSpans(Spans(i))
  <2>1. d - 1 \in 0 .. MaxDepth /\ Nests(i, d - 1)
    BY InstancesType, LayoutAssumption
  <2>2. QED BY <2>1, SpansMove
<1>4. new.gap = c.gap /\ new.limit = c.limit /\ c.limit \in Nat
  BY MovedType DEF Nests, IsComponent
<1>5. upParts = {<<UpMaps(p[1]), UpSpans(p[2])>> : p \in parts}
  <2> DEFINE up(p) == <<UpMaps(p[1]), UpSpans(p[2])>>
             own == <<OwnMap(c), OwnSpans(c)>>
             part(i) == <<maps[i], Spans(i)>>
  <2>1. up(own) = <<OwnMap(new), OwnSpans(new)>>
    BY <1>2
  <2>2. \A i \in Instances(c) : up(part(i)) = <<ups[Moved(i)], Spans(Moved(i))>>
    BY <1>3
  <2>3. parts = {own} \cup {part(i) : i \in Instances(c)}
    BY DEF Brought
  <2>4. upParts = {<<OwnMap(new), OwnSpans(new)>>} \cup {<<ups[Moved(i)], Spans(Moved(i))>> : i \in Instances(c)}
    BY <1>1 DEF Brought, AllMoved
  <2> HIDE DEF up, own, part, parts, upParts, new
  <2>5. upParts = {up(own)} \cup {up(part(i)) : i \in Instances(c)}
    BY <2>1, <2>2, <2>4
  <2>6. {up(own)} \cup {up(part(i)) : i \in Instances(c)} = {up(p) : p \in parts}
    BY <2>3
  <2>7. QED BY <2>5, <2>6 DEF up
<1>6. /\ IsFiniteSet(all) /\ all \subseteq DeviceMaps \cup {Refused}
      /\ \A p \in parts : IsFiniteSet(p[2]) /\ p[2] \subseteq SpanType
      /\ IsFiniteSet(loose) /\ loose \subseteq SpanType
  BY PartsBring
<1>7. upAll = {UpMaps(m) : m \in all}
  <2> HIDE DEF parts, upParts
  <2>1. \A p : <<UpMaps(p[1]), UpSpans(p[2])>>[1] = UpMaps(p[1])
    OBVIOUS
  <2>2. ASSUME NEW x \in upAll PROVE \E p \in parts : x = UpMaps(p[1])
    <3>1. PICK q \in upParts : x = q[1]
      BY DEF MapsOf
    <3>2. PICK p \in parts : q = <<UpMaps(p[1]), UpSpans(p[2])>>
      BY <1>5
    <3>3. QED BY <2>1, <3>1, <3>2
  <2>3. ASSUME NEW p \in parts PROVE UpMaps(p[1]) \in upAll
    <3>1. <<UpMaps(p[1]), UpSpans(p[2])>> \in upParts
      BY <1>5
    <3>2. \A q \in upParts : q[1] \in upAll
      BY DEF MapsOf
    <3>3. QED BY <2>1, <3>1, <3>2, Zenon
  <2>4. upAll = {UpMaps(p[1]) : p \in parts}
    <3> HIDE DEF upAll
    <3>1. QED BY <2>2, <2>3
  <2>5. QED BY <2>4 DEF MapsOf
<1>8. Refused \in upAll <=> Refused \in all
  <2> HIDE DEF all, upAll
  <2>1. QED BY <1>6, <1>7, UpMapsType, UpMapsRefused
<1>9. CASE Instances(c) = {}
  <2>1. Instances(new) = {}
    BY <1>1, <1>9 DEF AllMoved
  <2>2. WithInstances(c, maps) = OwnMap(c)
    BY <1>9 DEF WithInstances
  <2>3. WithInstances(new, ups) = OwnMap(new)
    BY <2>1 DEF WithInstances
  <2>4. QED BY <1>2, <2>2, <2>3
<1>10. CASE Instances(c) # {}
  <2>1. Instances(new) # {}
    BY <1>1, <1>10 DEF AllMoved
  <2>2. WithInstances(c, maps) = IF Refused \in all THEN Refused ELSE Merged(all \cup {claim})
    BY <1>10 DEF WithInstances, Brought, MapsOf, LooseOf
  <2>3. WithInstances(new, ups) = IF Refused \in upAll THEN Refused ELSE Merged(upAll \cup {upClaim})
    <3>1. new.gap = c.gap /\ new.limit = c.limit
      BY <1>4
    <3> HIDE DEF new
    <3>2. QED BY <2>1, <3>1 DEF WithInstances, Brought, MapsOf, LooseOf
  <2>4. CASE Refused \in all
    BY <1>8, <2>2, <2>3, <2>4, UpMapsRefused
  <2>5. CASE Refused \notin all
    <3>1. all \subseteq DeviceMaps
      BY <1>6, <2>5
    <3>2. upMapped = mapped
      <4> HIDE DEF all, upAll
      <4>1. \A m \in all : \A s \in Spaces : UpMaps(m)[s] = None <=> m[s] = None
        BY <3>1, UpMapsType, UpMapType, DeviceMapType
      <4>2. QED BY <1>7, <4>1
    <3>3. upLoose = UpSpans(loose)
      <4>1. \A p \in parts : p[1] \in all
        BY DEF MapsOf
      <4> HIDE DEF parts, upParts, all
      <4>2. \A p \in parts : Unmapped(UpMaps(p[1]), UpSpans(p[2])) = UpSpans(Unmapped(p[1], p[2]))
        BY <1>6, <3>1, <4>1, UpUnmapped
      <4>3. upLoose = UNION {Unmapped(<<UpMaps(p[1]), UpSpans(p[2])>>[1], <<UpMaps(p[1]), UpSpans(p[2])>>[2]) : p \in parts}
        BY <1>5 DEF LooseOf
      <4>4. upLoose = UNION {Unmapped(UpMaps(p[1]), UpSpans(p[2])) : p \in parts}
        BY <4>3
      <4>5. upLoose = UNION {UpSpans(Unmapped(p[1], p[2])) : p \in parts}
        BY <4>2, <4>4
      <4>6. QED BY <4>5 DEF LooseOf, UpSpans
    <3> HIDE DEF mapped, upMapped, loose, upLoose, all, upAll, parts, upParts
    <3>4. Y = UpSpans(X)
      <4>1. \A x \in loose : UpSpan(x).space = x.space
        BY <1>6, UpSpanType
      <4>2. QED BY <3>2, <3>3, <4>1 DEF UpSpans
    <3>5. IsFiniteSet(X) /\ X \subseteq SpanType
      <4>1. X \subseteq loose
        OBVIOUS
      <4>2. QED BY <1>6, <4>1, FS_Subset
    <3> HIDE DEF X, Y
    <3>6. upClaim = UpMaps(claim) /\ claim \in DeviceMaps \cup {Refused}
      BY <1>4, <3>4, <3>5, ClaimsMove, ClaimedType
    <3> HIDE DEF claim, upClaim
    <3> DEFINE both == all \cup {claim}
    <3>7. IsFiniteSet(both) /\ both \subseteq DeviceMaps \cup {Refused}
      BY <1>6, <3>6, FS_Singleton, FS_Union
    <3>8. upAll \cup {upClaim} = {UpMaps(m) : m \in both}
      BY <1>7, <3>6
    <3> HIDE DEF both
    <3>9. Merged(upAll \cup {upClaim}) = UpMaps(Merged(both))
      BY <3>7, <3>8, UpMerged
    <3>10. QED BY <1>8, <2>2, <2>3, <2>5, <3>9 DEF both
  <2>6. QED BY <2>4, <2>5
<1>11. QED BY <1>9, <1>10

LEMMA ResolvedMoves ==
  ASSUME NEW c, NEW d \in 0 .. MaxDepth, Nests(c, d)
  PROVE  Resolved(Moved(c)) = UpMaps(Resolved(c))
<1> DEFINE level == Levels(c)
           upLevel == Levels(Moved(c))
<1>1. MaxDepth \in Nat
  BY LayoutAssumption
<1>2. PICK res :
        /\ Resolved(c) = res[MaxDepth][c]
        /\ \A i \in level[MaxDepth] : res[0][i] = OwnMap(i)
        /\ \A n \in 1 .. MaxDepth : \A i \in level[MaxDepth - n] : res[n][i] = WithInstances(i, res[n - 1])
  BY ResolvedDef
<1>3. PICK ups :
        /\ Resolved(Moved(c)) = ups[MaxDepth][Moved(c)]
        /\ \A i \in upLevel[MaxDepth] : ups[0][i] = OwnMap(i)
        /\ \A n \in 1 .. MaxDepth : \A i \in upLevel[MaxDepth - n] : ups[n][i] = WithInstances(i, ups[n - 1])
  BY ResolvedDef
<1>4. \A n \in 0 .. MaxDepth : \A i \in level[MaxDepth - n] : res[n][i] \in DeviceMaps \cup {Refused}
  BY <1>2, LevelsKeep
<1>5. \A k \in 0 .. MaxDepth : upLevel[k] = AllMoved(level[k])
  BY LevelsMove
<1>6. /\ level[0] = {c}
      /\ \A k \in 0 .. MaxDepth - 1 : \A i \in level[k] : Instances(i) \subseteq level[k + 1]
  BY LevelsDef
<1>7. \A k \in 0 .. MaxDepth : \A i \in level[k] : d - k \in 0 .. MaxDepth /\ Nests(i, d - k)
  <2>1. ASSUME NEW k \in 0 .. MaxDepth, NEW i \in level[k]
        PROVE  d - k \in 0 .. MaxDepth /\ Nests(i, d - k)
    <3>1. k <= d /\ Nests(i, d - k)
      BY <1>1, <2>1, LevelsType
    <3>2. QED BY <1>1, <3>1
  <2>2. QED BY <2>1
<1> DEFINE P(n) == \A i \in level[MaxDepth - n] : ups[n][Moved(i)] = UpMaps(res[n][i])
           T == {n \in Nat : n <= MaxDepth => P(n)}
<1> HIDE DEF level, upLevel
<1>8. 0 \in T
  <2>1. ASSUME NEW i \in level[MaxDepth] PROVE ups[0][Moved(i)] = UpMaps(res[0][i])
    <3>1. Moved(i) \in upLevel[MaxDepth]
      BY <1>1, <1>5 DEF AllMoved
    <3>2. Nests(i, d - MaxDepth)
      BY <1>1, <1>7
    <3>3. QED BY <1>2, <1>3, <3>1, <3>2, OwnMapMoves
  <2>2. QED BY <1>1, <2>1
<1>9. ASSUME NEW n \in 0 .. MaxDepth - 1, n \in T PROVE n + 1 \in T
  <2> DEFINE k == MaxDepth - (n + 1)
  <2>1. /\ k \in 0 .. MaxDepth - 1 /\ k \in 0 .. MaxDepth /\ k + 1 = MaxDepth - n
        /\ n + 1 \in 1 .. MaxDepth /\ (n + 1) - 1 = n /\ n \in 0 .. MaxDepth /\ n + 1 \in Nat
    BY <1>1
  <2>2. ASSUME NEW i \in level[k] PROVE ups[n + 1][Moved(i)] = UpMaps(res[n + 1][i])
    <3>1. d - k \in 0 .. MaxDepth /\ Nests(i, d - k)
      BY <1>7, <2>1
    <3>2. \A j \in Instances(i) : j \in level[MaxDepth - n]
      BY <1>6, <2>1
    <3>3. \A j \in Instances(i) : res[n][j] \in DeviceMaps \cup {Refused}
      BY <1>4, <2>1, <3>2
    <3>4. \A j \in Instances(i) : ups[n][Moved(j)] = UpMaps(res[n][j])
      BY <1>1, <1>9, <2>1, <3>2
    <3>5. WithInstances(Moved(i), ups[n]) = UpMaps(WithInstances(i, res[n]))
      BY <3>1, <3>3, <3>4, WithInstancesMoves
    <3>6. Moved(i) \in upLevel[k]
      BY <1>5, <2>1 DEF AllMoved
    <3>7. ups[n + 1][Moved(i)] = WithInstances(Moved(i), ups[n]) /\ res[n + 1][i] = WithInstances(i, res[n])
      <4>1. /\ \A j \in upLevel[MaxDepth - (n + 1)] : ups[n + 1][j] = WithInstances(j, ups[(n + 1) - 1])
            /\ \A j \in level[MaxDepth - (n + 1)] : res[n + 1][j] = WithInstances(j, res[(n + 1) - 1])
        BY <1>2, <1>3, <2>1
      <4>2. QED BY <2>1, <3>6, <4>1
    <3>8. QED BY <3>5, <3>7
  <2>3. P(n + 1)
    BY <2>2
  <2> HIDE DEF P, k
  <2>4. QED BY <2>1, <2>3
<1>10. T \subseteq Nat
  OBVIOUS
<1>11. P(MaxDepth)
  <2>1. 0 .. MaxDepth \subseteq T
    <3> HIDE DEF T
    <3>1. QED BY <1>1, <1>8, <1>9, <1>10, FromZero
  <2>2. QED BY <1>1, <2>1
<1>12. c \in level[MaxDepth - MaxDepth]
  BY <1>1, <1>6
<1>13. QED BY <1>2, <1>3, <1>11, <1>12

LEMMA PlanMoves ==
  ASSUME NEW c, NEW d \in 0 .. MaxDepth, Nests(c, d)
  PROVE  PlanOf(Moved(c)) = UpPlan(PlanOf(c))
<1>1. Spans(Moved(c)) = UpSpans(Spans(c)) /\ IsFiniteSet(Spans(c)) /\ Spans(c) \subseteq SpanType
  BY SpansMove, SpansType
<1>2. Resolved(Moved(c)) = UpMaps(Resolved(c)) /\ Resolved(c) \in DeviceMaps \cup {Refused}
  BY ResolvedMoves, ResolvedKeepsDeclarations
<1>3. Moved(c).gap = c.gap /\ Moved(c).limit = c.limit /\ c.limit \in Nat
  BY MovedType DEF Nests, IsComponent
<1>4. QED BY <1>1, <1>2, <1>3, PlansMove DEF PlanOf

\* A component whose base offset is one larger reads what it read, one address further on:
\* its fields, scale registers, counts, instances and theirs, and every map and claim.
THEOREM LayoutsMove == Spec => []RelocationMovesPlan
<1>1. ASSUME MembersInv PROVE RelocationMovesPlan
  <2>1. ASSUME NEW m \in Members
        PROVE  LET c == comp[m]
                   plan == PlanOf(c)
                   moved == PlanOf([c EXCEPT !.base = @ + 1]) IN
               IF plan = Refused THEN moved = Refused
               ELSE moved = [s \in Spaces |-> {<<b[1] + 1, b[2] + 1>> : b \in plan[s]}]
    <3> DEFINE c == comp[m]
    <3>1. Nests(c, MaxDepth) /\ MaxDepth \in 0 .. MaxDepth
      BY <1>1, LayoutAssumption DEF MembersInv
    <3> HIDE DEF c
    <3>2. PlanOf(Moved(c)) = UpPlan(PlanOf(c))
      BY <3>1, PlanMoves
    <3>3. QED BY <3>2 DEF Moved, UpPlan, UpAll, Up, c
  <2>2. QED BY <2>1 DEF RelocationMovesPlan
<1>2. QED BY <1>1, MembersInvAlways, PTL

-----------------------------------------------------------------------------
(* Narrowing keeps a component readable.                                   *)

Offset(r, k) == <<r[1] + k, r[2] + k>>
AtOffset(x, k) == [space |-> x.space, cells |-> Offset(x.cells, k)]

LEMMA InsideOrApart ==
  ASSUME NEW r \in AddressRange, NEW q \in AddressRange
  PROVE  /\ Cells(r) \subseteq Cells(q) <=> q[1] <= r[1] /\ r[2] <= q[2]
         /\ Cells(r) \cap Cells(q) = {} <=> r[2] < q[1] \/ q[2] < r[1]
<1>1. /\ r[1] \in Nat /\ r[2] \in Nat /\ r[1] <= r[2] /\ r[1] \in Cells(r) /\ r[2] \in Cells(r)
      /\ q[1] \in Nat /\ q[2] \in Nat /\ q[1] <= q[2] /\ q[1] \in Cells(q) /\ q[2] \in Cells(q)
  BY RangeType
<1>2. \A a : a \in Cells(r) <=> a \in Int /\ r[1] <= a /\ a <= r[2]
  BY <1>1 DEF Cells
<1>3. \A a : a \in Cells(q) <=> a \in Int /\ q[1] <= a /\ a <= q[2]
  BY <1>1 DEF Cells
<1>4. Cells(r) \subseteq Cells(q) <=> q[1] <= r[1] /\ r[2] <= q[2]
  <2>1. Cells(r) \subseteq Cells(q) => q[1] <= r[1] /\ r[2] <= q[2]
    BY <1>1, <1>3
  <2>2. ASSUME q[1] <= r[1], r[2] <= q[2], NEW a \in Cells(r) PROVE a \in Cells(q)
    BY <1>1, <1>2, <1>3, <2>2
  <2>3. QED BY <2>1, <2>2
<1>5. Cells(r) \cap Cells(q) = {} <=> r[2] < q[1] \/ q[2] < r[1]
  <2>1. ASSUME r[2] < q[1] \/ q[2] < r[1], NEW a \in Cells(r) \cap Cells(q) PROVE FALSE
    BY <1>1, <1>2, <1>3, <2>1
  <2>2. ASSUME ~(r[2] < q[1] \/ q[2] < r[1]) PROVE \E a : a \in Cells(r) \cap Cells(q)
    <3>1. CASE r[1] <= q[1]
      <4>1. q[1] \in Cells(r)
        BY <1>1, <1>2, <2>2, <3>1
      <4>2. QED BY <1>1, <4>1
    <3>2. CASE q[1] < r[1]
      <4>1. r[1] \in Cells(q)
        BY <1>1, <1>3, <2>2, <3>2
      <4>2. QED BY <1>1, <4>1
    <3>3. QED BY <1>1, <3>1, <3>2
  <2>3. QED BY <2>1, <2>2
<1>6. QED BY <1>4, <1>5

LEMMA OffsetType ==
  ASSUME NEW r \in AddressRange, NEW k \in Nat
  PROVE  /\ Offset(r, k) \in AddressRange /\ Width(Offset(r, k)) = Width(r)
         /\ Offset(r, k)[1] = r[1] + k /\ Offset(r, k)[2] = r[2] + k
         /\ r[1] \in Nat /\ r[2] \in Nat
<1>1. r[1] \in Nat /\ r[2] \in Nat /\ r[1] <= r[2]
  BY RangeType
<1>2. r[1] + k \in Nat /\ r[2] + k \in Nat /\ r[1] + k <= r[2] + k
  BY <1>1
<1>3. Offset(r, k) \in AddressRange
  BY <1>2, PairIsRange DEF Offset
<1>4. Offset(r, k)[1] = r[1] + k /\ Offset(r, k)[2] = r[2] + k
  BY DEF Offset
<1>5. (r[2] + k) - (r[1] + k) + 1 = r[2] - r[1] + 1
  BY <1>1
<1>6. QED BY <1>1, <1>3, <1>4, <1>5 DEF Width

LEMMA OffsetKeeps ==
  ASSUME NEW r \in AddressRange, NEW q \in AddressRange, NEW k \in Nat
  PROVE  /\ Cells(Offset(r, k)) \subseteq Cells(Offset(q, k)) <=> Cells(r) \subseteq Cells(q)
         /\ Cells(Offset(r, k)) \cap Cells(Offset(q, k)) = {} <=> Cells(r) \cap Cells(q) = {}
         /\ Offset(r, k) = Offset(q, k) <=> r = q
<1> DEFINE rk == Offset(r, k)
           qk == Offset(q, k)
<1>1. /\ rk \in AddressRange /\ qk \in AddressRange
      /\ rk[1] = r[1] + k /\ rk[2] = r[2] + k /\ qk[1] = q[1] + k /\ qk[2] = q[2] + k
      /\ r[1] \in Nat /\ r[2] \in Nat /\ q[1] \in Nat /\ q[2] \in Nat
  BY OffsetType
<1> HIDE DEF rk, qk
<1>2. Cells(rk) \subseteq Cells(qk) <=> q[1] + k <= r[1] + k /\ r[2] + k <= q[2] + k
  BY <1>1, InsideOrApart
<1>3. Cells(rk) \cap Cells(qk) = {} <=> r[2] + k < q[1] + k \/ q[2] + k < r[1] + k
  BY <1>1, InsideOrApart
<1>4. rk = qk => r = q
  <2>1. rk = qk => r[1] = q[1] /\ r[2] = q[2]
    BY <1>1
  <2>2. r = <<r[1], r[2]>> /\ q = <<q[1], q[2]>>
    BY RangeType
  <2>3. QED BY <2>1, <2>2
<1>5. Cells(rk) \subseteq Cells(qk) <=> Cells(r) \subseteq Cells(q)
  BY <1>1, <1>2, InsideOrApart
<1>6. Cells(rk) \cap Cells(qk) = {} <=> Cells(r) \cap Cells(q) = {}
  BY <1>1, <1>3, InsideOrApart
<1>7. QED BY <1>4, <1>5, <1>6 DEF rk, qk

LEMMA OffsetValid ==
  ASSUME NEW ranges, ranges \subseteq AddressRange, NEW k \in Nat
  PROVE  Valid({Offset(r, k) : r \in ranges}) <=> Valid(ranges)
<1>1. \A r, s \in ranges : /\ Offset(r, k) # Offset(s, k) <=> r # s
                           /\ Cells(Offset(r, k)) \cap Cells(Offset(s, k)) = {} <=> Cells(r) \cap Cells(s) = {}
  BY OffsetKeeps
<1>2. QED BY <1>1 DEF Valid

LEMMA SpanAtOffset ==
  ASSUME NEW s, NEW a \in Nat, NEW n \in Nat, NEW k \in Nat
  PROVE  Span(s, a + k, n) = AtOffset(Span(s, a, n), k)
<1>1. <<a, a + n - 1>>[1] + k = a + k /\ <<a, a + n - 1>>[2] + k = (a + k) + n - 1
  OBVIOUS
<1>2. Span(s, a, n).space = s /\ Span(s, a, n).cells = <<a, a + n - 1>>
  BY DEF Span
<1>3. Offset(<<a, a + n - 1>>, k) = <<a + k, (a + k) + n - 1>>
  BY <1>1 DEF Offset
<1>4. QED BY <1>2, <1>3 DEF AtOffset, Span

\* A component without instances sits where its class declares it, its base offset further on.
LEMMA OwnSpansAtBase ==
  ASSUME NEW c, NEW d, Nests(c, d), c.group = None, c.inst = 0
  PROVE  OwnSpans(c) = {AtOffset(x, c.base) : x \in DeclaredReads(c, c.fields)}
<1> DEFINE scaled == {g \in c.fields : g.scale # None}
           own == {Span(f.space, Address(c, f), f.count) : f \in c.fields}
           scales == {Span(f.space, ScaleAddress(c, f), 1) : f \in scaled}
           dOwn == {Span(f.space, DeclaredAddress(c, f), f.count) : f \in c.fields}
           dScales == {Span(f.space, DeclaredScale(c, f), 1) : f \in scaled}
<1>1. c.base \in Nat /\ c.inst = 0 /\ IsComponent(c) /\ \A f \in c.fields : f \in Field /\ f.count \in Nat
  BY FieldType DEF Nests, IsComponent
<1>2. ASSUME NEW f \in c.fields
      PROVE  Span(f.space, Address(c, f), f.count) = AtOffset(Span(f.space, DeclaredAddress(c, f), f.count), c.base)
  <2>1. DeclaredAddress(c, f) \in Nat
    BY <1>1, AddressType
  <2>2. Address(c, f) = DeclaredAddress(c, f) + c.base
    BY <1>1, <2>1 DEF Address
  <2>3. QED BY <1>1, <2>1, <2>2, SpanAtOffset
<1>3. ASSUME NEW f \in scaled
      PROVE  Span(f.space, ScaleAddress(c, f), 1) = AtOffset(Span(f.space, DeclaredScale(c, f), 1), c.base)
  <2>1. DeclaredScale(c, f) \in Nat
    BY <1>1, AddressType
  <2>2. ScaleAddress(c, f) = DeclaredScale(c, f) + c.base
    BY <1>1, <2>1 DEF ScaleAddress
  <2>3. QED BY <1>1, <2>1, <2>2, SpanAtOffset
<1>4. OwnSpans(c) = own \cup scales
  BY DEF OwnSpans, CountSpans
<1>5. DeclaredReads(c, c.fields) = dOwn \cup dScales
  BY DEF DeclaredReads, DeclaredSpans
<1> HIDE DEF scaled
<1>6. own = {AtOffset(x, c.base) : x \in dOwn}
  BY <1>2
<1>7. scales = {AtOffset(x, c.base) : x \in dScales}
  BY <1>3
<1> HIDE DEF own, scales, dOwn, dScales
<1>8. QED BY <1>4, <1>5, <1>6, <1>7

\* Whether a space can be planned does not depend on the base offset.
LEMMA PlannableAtBase ==
  ASSUME NEW c, NEW d, Nests(c, d), c.group = None, c.inst = 0, NEW s \in Spaces
  PROVE  /\ Plannable(In(OwnSpans(c), s), OwnMap(c)[s], c.limit) <=>
              Plannable(In(DeclaredReads(c, c.fields), s), c.map[s], c.limit)
         /\ Valid({x.cells : x \in In(OwnSpans(c), s)}) <=>
              Valid({x.cells : x \in In(DeclaredReads(c, c.fields), s)})
         /\ In(OwnSpans(c), s) = {} <=> In(DeclaredReads(c, c.fields), s) = {}
<1> DEFINE k == c.base
           X == In(DeclaredReads(c, c.fields), s)
           up == In(OwnSpans(c), s)
           map == c.map[s]
           new == OwnMap(c)[s]
<1>1. k \in Nat /\ c.map \in DeviceMaps /\ IsComponent(c) /\ c.base + c.inst = k
  BY DEF Nests, IsComponent
<1>2. X \subseteq SpanType
  BY <1>1, DeclaredReadsType DEF In
<1>3. up = {AtOffset(x, k) : x \in X}
  <2>1. \A x : AtOffset(x, k).space = x.space
    BY DEF AtOffset
  <2>2. QED BY <2>1, OwnSpansAtBase DEF In
<1>4. \A x \in X : x.cells \in AddressRange /\ AtOffset(x, k).cells = Offset(x.cells, k)
  BY <1>2 DEF SpanType, AtOffset
<1>5. OwnMap(c) = Shifted(c.map, k)
  BY <1>1 DEF OwnMap
<1>6. map = None => new = None
  BY <1>5 DEF Shifted
<1>7. map # None => /\ new # None /\ new.ranges = {Offset(r, k) : r \in map.ranges}
                    /\ map.ranges \subseteq AddressRange
  <2>1. map # None => map.ranges \subseteq AddressRange
    BY <1>1, DeviceMapType DEF RangeSets
  <2>2. map # None => new # None /\ new.ranges = {<<r[1] + k, r[2] + k>> : r \in map.ranges}
    BY <1>1, <1>5, ShiftedSpace
  <2>3. QED BY <2>1, <2>2 DEF Offset
<1> HIDE DEF k, X, up, map, new
<1>8. ASSUME NEW x \in X
      PROVE  Readable(AtOffset(x, k), new, c.limit) <=> Readable(x, map, c.limit)
  <2>1. Width(AtOffset(x, k).cells) = Width(x.cells)
    BY <1>1, <1>4, OffsetType
  <2>2. CASE map = None
    BY <1>6, <2>1, <2>2 DEF Readable
  <2>3. CASE map # None
    <3>1. \A q \in map.ranges : Cells(AtOffset(x, k).cells) \subseteq Cells(Offset(q, k)) <=>
                                Cells(x.cells) \subseteq Cells(q)
      BY <1>1, <1>4, <1>7, <2>3, OffsetKeeps
    <3>2. (\E r \in new.ranges : Cells(AtOffset(x, k).cells) \subseteq Cells(r)) <=>
          (\E q \in map.ranges : Cells(x.cells) \subseteq Cells(q))
      BY <1>7, <2>3, <3>1
    <3>3. QED BY <1>7, <2>1, <2>3, <3>2 DEF Readable
  <2>4. QED BY <2>2, <2>3
<1>9. map # None => (Valid(new.ranges) <=> Valid(map.ranges))
  <2> DEFINE rs == map.ranges
  <2>1. map # None => rs \subseteq AddressRange /\ new.ranges = {Offset(r, k) : r \in rs}
    BY <1>7
  <2> HIDE DEF rs
  <2>2. map # None => (Valid(new.ranges) <=> Valid(rs))
    BY <1>1, <2>1, OffsetValid
  <2>3. QED BY <2>2 DEF rs
<1>10. Plannable(up, new, c.limit) <=> Plannable(X, map, c.limit)
  BY <1>3, <1>6, <1>7, <1>8, <1>9 DEF Plannable
<1>11. Valid({x.cells : x \in up}) <=> Valid({x.cells : x \in X})
  <2> DEFINE cells == {x.cells : x \in X}
             ups == {x.cells : x \in up}
  <2>1. ups = {Offset(r, k) : r \in cells}
    BY <1>3, <1>4
  <2>2. cells \subseteq AddressRange
    BY <1>4
  <2> HIDE DEF cells, ups
  <2>3. Valid(ups) <=> Valid(cells)
    BY <1>1, <2>1, <2>2, OffsetValid
  <2>4. QED BY <2>3 DEF cells, ups
<1>12. up = {} <=> X = {}
  BY <1>3
<1>13. QED BY <1>10, <1>11, <1>12 DEF k, X, up, map, new

\* What restrict_fields() leaves of a space can be planned if the space could: the
\* addresses it takes out are in no span that is kept.
LEMMA ReshapedPlannable ==
  ASSUME NEW c, NEW d, Nests(c, d), NEW kept \in SUBSET c.fields, NEW s \in Spaces,
         Plannable(In(DeclaredReads(c, c.fields), s), c.map[s], c.limit),
         Valid({x.cells : x \in In(DeclaredReads(c, c.fields), s)}),
         In(DeclaredReads(c, kept), s) # {}
  PROVE  Plannable(In(DeclaredReads(c, kept), s), Reshaped(c, s, kept, c.fields \ kept), c.limit)
<1> DEFINE all == In(DeclaredReads(c, c.fields), s)
           spans == In(DeclaredReads(c, kept), s)
           out == Excluded(c, s, kept, c.fields \ kept)
           map == c.map[s]
           new == Reshaped(c, s, kept, c.fields \ kept)
           cells == {x.cells : x \in spans}
           blocks == PlanBlocks(spans, None, c.gap, c.limit)
<1>1. IsComponent(c) /\ c.map \in DeviceMaps /\ c.limit \in Nat
  BY DEF Nests, IsComponent
<1>2. spans \subseteq all
  BY DeclaredMoreReads DEF In
<1>3. \A x \in spans : Readable(x, map, c.limit) /\ x.cells \in AddressRange
  <2>1. \A x \in all : Readable(x, map, c.limit)
    BY DEF Plannable
  <2>2. \A x \in spans : x \in SpanType
    BY <1>1, DeclaredReadsType DEF In
  <2>3. QED BY <1>2, <2>1, <2>2 DEF SpanType
<1>4. \A x \in spans : Cells(x.cells) \cap out = {}
  BY DEF Excluded, SpanCells, AllCells
<1>5. map # None => map.ranges \in RangeSets /\ Valid(map.ranges)
                    /\ map = [ranges |-> map.ranges, declared |-> map.declared]
  BY <1>1, DeviceMapType, SpaceMapType DEF Plannable
<1>6. CASE out = {}
  <2>1. new = map
    BY <1>6 DEF Reshaped
  <2>2. QED BY <1>3, <1>5, <2>1 DEF Plannable
<1>7. CASE out # {} /\ map # None
  <2>1. new = [map EXCEPT !.ranges = Excluding(@, out)]
    BY <1>7 DEF Reshaped
  <2>2. new.ranges = Excluding(map.ranges, out)
    <3> HIDE DEF map, out, new
    <3>1. QED BY <1>5, <1>7, <2>1
  <2>3. Valid(new.ranges)
    BY <1>5, <1>7, <2>2, ExcludingSpares
  <2>4. ASSUME NEW x \in spans PROVE \E r \in new.ranges : Cells(x.cells) \subseteq Cells(r)
    <3>1. PICK q \in map.ranges : Cells(x.cells) \subseteq Cells(q)
      BY <1>3, <1>7 DEF Readable
    <3> DEFINE ranges == map.ranges
               cell == x.cells
    <3>2. cell \in AddressRange /\ Cells(cell) \cap out = {} /\ Cells(cell) \subseteq Cells(q)
          /\ ranges \in RangeSets /\ Valid(ranges) /\ q \in ranges /\ new.ranges = Excluding(ranges, out)
      BY <1>3, <1>4, <1>5, <1>7, <2>2, <3>1
    <3> HIDE DEF map, out, new, ranges, cell
    <3>3. \E y \in Excluding(ranges, out) : Cells(cell) \subseteq Cells(y)
      BY <3>2, ExcludingSpares
    <3>4. QED BY <3>2, <3>3 DEF cell
  <2>5. QED BY <1>3, <2>3, <2>4 DEF Plannable, Readable
<1>8. CASE out # {} /\ map = None
  <2>1. new = [ranges |-> Excluding(blocks, out), declared |-> FALSE]
    BY <1>8 DEF Reshaped
  <2>2. new.ranges = Excluding(blocks, out)
    BY <2>1
  <2>3. /\ blocks = Blocks(cells, None, c.gap, c.limit) /\ blocks \in RangeSets
        /\ cells \subseteq AddressRange /\ IsFiniteSet(cells)
        /\ \A x \in spans : \E b \in blocks : Cells(x.cells) \subseteq Cells(b)
    BY <1>1, KeptBlocks
  <2>4. Valid(cells)
    BY <1>2 DEF Valid
  <2>5. \A r \in cells : Fits(r, None, c.limit)
    BY <1>3 DEF Readable, Fits
  <2> HIDE DEF cells, blocks
  <2>6. Valid(blocks)
    BY <1>1, <2>3, <2>4, <2>5, BlocksAreApart
  <2>7. Valid(new.ranges)
    BY <2>2, <2>3, <2>6, ExcludingSpares
  <2>8. ASSUME NEW x \in spans PROVE \E r \in new.ranges : Cells(x.cells) \subseteq Cells(r)
    <3>1. PICK b \in blocks : Cells(x.cells) \subseteq Cells(b)
      BY <2>3
    <3> DEFINE cell == x.cells
    <3>2. cell \in AddressRange /\ Cells(cell) \cap out = {}
      BY <1>3, <1>4
    <3> HIDE DEF out, new, cell
    <3>3. \E y \in Excluding(blocks, out) : Cells(cell) \subseteq Cells(y)
      <4>1. Cells(cell) \subseteq Cells(b)
        BY <3>1 DEF cell
      <4>2. QED BY <2>3, <2>6, <3>1, <3>2, <4>1, ExcludingSpares
    <3>4. QED BY <2>2, <3>3 DEF cell
  <2>9. QED BY <1>3, <2>7, <2>8 DEF Plannable, Readable
<1>9. QED BY <1>6, <1>7, <1>8

LEMMA RestrictedPlans ==
  ASSUME NEW c, NEW d \in 0 .. MaxDepth, Nests(c, d), c.group = None, c.inst = 0,
         NEW kept \in SUBSET c.fields, PlanOf(c) # Refused,
         \A s \in Spaces : Valid({x.cells : x \in In(Spans(c), s)})
  PROVE  PlanOf(Restricted(c, kept)) # Refused
<1> DEFINE new == Restricted(c, kept)
<1>1. /\ Nests(new, d) /\ new.fields = kept /\ new.index = c.index /\ new.inst = 0
      /\ new.gap = c.gap /\ new.limit = c.limit /\ new.group = None
      /\ new.map = [s \in Spaces |-> Reshaped(c, s, kept, c.fields \ kept)]
      /\ c.limit \in Nat
  BY RestrictedType DEF Nests, IsComponent
<1> HIDE DEF new
<1>2. DeclaredReads(new, new.fields) = DeclaredReads(c, kept)
  BY <1>1 DEF DeclaredReads, DeclaredSpans, DeclaredAddress, DeclaredScale
<1>3. /\ Spans(c) = OwnSpans(c) /\ Resolved(c) = OwnMap(c) /\ OwnMap(c) \in DeviceMaps
      /\ Spans(new) = OwnSpans(new) /\ Resolved(new) = OwnMap(new) /\ OwnMap(new) \in DeviceMaps
      /\ IsFiniteSet(Spans(c)) /\ Spans(c) \subseteq SpanType
      /\ IsFiniteSet(Spans(new)) /\ Spans(new) \subseteq SpanType
  BY <1>1, NoGroupNoInstances, SpansType
<1>4. \A s \in Spaces : In(Spans(c), s) # {} => Plannable(In(Spans(c), s), OwnMap(c)[s], c.limit)
  <2>1. Plan(Spans(c), OwnMap(c), c.gap, c.limit) # Refused
    BY <1>3 DEF PlanOf
  <2>2. QED BY <1>1, <1>3, <2>1, PlanIsMade
<1>5. ASSUME NEW s \in Spaces, In(Spans(new), s) # {}
      PROVE  Plannable(In(Spans(new), s), OwnMap(new)[s], new.limit)
  <2>1. In(DeclaredReads(c, kept), s) # {}
    BY <1>1, <1>2, <1>3, <1>5, PlannableAtBase
  <2>2. In(DeclaredReads(c, kept), s) \subseteq In(DeclaredReads(c, c.fields), s)
    BY DeclaredMoreReads DEF In
  <2>3. In(Spans(c), s) # {}
    BY <1>3, <2>1, <2>2, PlannableAtBase
  <2>4. /\ Plannable(In(DeclaredReads(c, c.fields), s), c.map[s], c.limit)
        /\ Valid({x.cells : x \in In(DeclaredReads(c, c.fields), s)})
    BY <1>3, <1>4, <2>3, PlannableAtBase
  <2>5. Plannable(In(DeclaredReads(c, kept), s), new.map[s], c.limit)
    BY <1>1, <2>1, <2>4, ReshapedPlannable
  <2>6. QED BY <1>1, <1>2, <1>3, <2>5, PlannableAtBase
<1>6. Plan(Spans(new), OwnMap(new), new.gap, new.limit) # Refused
  BY <1>1, <1>3, <1>5, PlanIsMade
<1>7. QED BY <1>3, <1>6 DEF PlanOf, new

\* RestrictKeepsReadable: restrict_fields() on a component that can be read, and whose
\* fields and scale registers do not overlap, leaves one that can be read.
THEOREM RestrictSpares == Spec => RestrictKeepsReadable
<1> DEFINE Goal == \A m \in Members : LET c == comp[m] IN
                     /\ dropped'[m] # dropped[m] /\ PlanOf(c) # Refused
                     /\ \A s \in Spaces : Valid({x.cells : x \in In(Spans(c), s)})
                     => PlanOf(comp'[m]) # Refused
<1>1. MembersInv /\ MembersInv' /\ [Next]_vars => [Goal]_vars
  <2> SUFFICES ASSUME MembersInv, Next, NEW m \in Members,
                      dropped'[m] # dropped[m], PlanOf(comp[m]) # Refused,
                      \A s \in Spaces : Valid({x.cells : x \in In(Spans(comp[m]), s)})
               PROVE  PlanOf(comp'[m]) # Refused
    OBVIOUS
  <2>1. CASE \E S \in Pools : MakePool(S)
    BY <2>1 DEF MakePool, history
  <2>2. CASE \E k \in Members : \E n \in 0 .. MaxCount : Resize(k, n)
    BY <2>2 DEF Resize, history
  <2>3. CASE \E k \in Members : \E f \in Targets : AddTarget(k, f) \/ RemoveTarget(k, f)
    BY <2>3 DEF AddTarget, RemoveTarget, history
  <2>4. ASSUME NEW k \in Members, NEW kept \in SUBSET comp[k].fields, RestrictFields(k, kept)
        PROVE  PlanOf(comp'[m]) # Refused
    <3>1. k = m /\ comp[m].group = None
      BY <2>4 DEF RestrictFields
    <3>2. comp'[m] = Restricted(comp[m], kept)
      BY <2>4, <3>1, RestrictKeepsMembers
    <3>3. Nests(comp[m], MaxDepth) /\ comp[m].inst = 0 /\ MaxDepth \in 0 .. MaxDepth
      BY LayoutAssumption DEF MembersInv
    <3> DEFINE c == comp[m]
    <3>4. kept \in SUBSET c.fields /\ Nests(c, MaxDepth) /\ c.inst = 0 /\ c.group = None
          /\ PlanOf(c) # Refused /\ \A s \in Spaces : Valid({x.cells : x \in In(Spans(c), s)})
      BY <2>4, <3>1, <3>3
    <3> HIDE DEF c
    <3>5. PlanOf(Restricted(c, kept)) # Refused
      BY <3>3, <3>4, RestrictedPlans
    <3>6. QED BY <3>2, <3>5 DEF c
  <2>5. QED BY <2>1, <2>2, <2>3, <2>4 DEF Next
<1>2. QED BY <1>1, MembersInvAlways, PTL DEF RestrictKeepsReadable, Spec
=============================================================================
