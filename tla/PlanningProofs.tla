--------------------------- MODULE PlanningProofs ---------------------------
(* Theorems about Planning: what a plan reads, and what a merge of maps     *)
(* keeps, for any spans, maps, gaps and limits.                             *)
EXTENDS Planning, FiniteSetTheorems, WellFoundedInduction, TLAPS

-----------------------------------------------------------------------------
(* Numbers and finite sets.                                                *)

\* A nonempty set of natural numbers has a least one.
LEMMA LeastNatural ==
  ASSUME NEW T, T \subseteq Nat, T # {}
  PROVE  \E m \in T : \A n \in T : m <= n
<1> DEFINE Below == OpToRel(<, Nat)
<1>1. IsWellFoundedOn(Below, Nat)
  BY NatLessThanWellFounded, Zenon
<1>2. \A m, n \in Nat : n < m => <<n, m>> \in Below
  BY Zenon DEF OpToRel
<1> HIDE DEF Below
<1>3. PICK m \in T : \A n \in T : ~ (<<n, m>> \in Below)
  BY <1>1, WFMin, Zenon
<1>4. \A n \in T : m \in Nat /\ n \in Nat /\ ~ (n < m)
  BY <1>2, <1>3
<1>5. QED BY <1>4

\* Induction up to a bound, for the set of the numbers that satisfy what is to be shown.
LEMMA UpTo ==
  ASSUME NEW n \in Nat, NEW T, T \subseteq Nat, 1 \in T,
         \A i \in 1 .. n - 1 : i \in T => i + 1 \in T
  PROVE  1 .. n \subseteq T
<1> DEFINE F == (1 .. n) \ T
<1> SUFFICES ASSUME F # {} PROVE FALSE
  OBVIOUS
<1>1. F \subseteq Nat
  OBVIOUS
<1>2. PICK m \in F : \A i \in F : m <= i
  <2> HIDE DEF F
  <2>1. QED BY <1>1, LeastNatural
<1>3. m \in 1 .. n /\ m # 1 /\ m - 1 \notin F
  BY <1>2
<1>4. m - 1 \in T
  BY <1>3
<1>5. QED BY <1>2, <1>3, <1>4

LEMMA FromZero ==
  ASSUME NEW n \in Nat, NEW T, T \subseteq Nat, 0 \in T,
         \A i \in 0 .. n - 1 : i \in T => i + 1 \in T
  PROVE  0 .. n \subseteq T
<1> DEFINE F == (0 .. n) \ T
<1> SUFFICES ASSUME F # {} PROVE FALSE
  OBVIOUS
<1>1. F \subseteq Nat
  OBVIOUS
<1>2. PICK m \in F : \A i \in F : m <= i
  <2> HIDE DEF F
  <2>1. QED BY <1>1, LeastNatural
<1>3. m \in 0 .. n /\ m # 0 /\ m - 1 \notin F
  BY <1>2
<1>4. m - 1 \in T
  BY <1>3
<1>5. QED BY <1>2, <1>3, <1>4

\* A finite set of natural numbers has an upper bound.
LEMMA FiniteIsBounded ==
  ASSUME NEW S, S \subseteq Nat, IsFiniteSet(S)
  PROVE  \E top \in Nat : \A n \in S : n <= top
<1>1. PICK n \in Nat : ExistsSurjection(1 .. n, S)
  BY FS_NatSurjection
<1>2. PICK f \in [1 .. n -> S] : \A x \in S : \E i \in 1 .. n : f[i] = x
  BY <1>1 DEF ExistsSurjection, Surjection
<1>3. /\ \A i \in 1 .. n : f[i] \in Nat
      /\ \A x \in S : \E i \in 1 .. n : f[i] = x
  BY <1>2
<1>4. CASE n = 0
  BY <1>3, <1>4
<1>5. CASE n # 0
  <2> DEFINE T == {i \in Nat : i <= n => \E top \in Nat : \A j \in 1 .. i : f[j] <= top}
  <2>1. 1 \in T
    BY <1>3
  <2>2. ASSUME NEW i \in 1 .. n - 1, i \in T PROVE i + 1 \in T
    <3>1. PICK top \in Nat : \A j \in 1 .. i : f[j] <= top
      BY <2>2
    <3>2. f[i + 1] \in Nat /\ \A j \in 1 .. i : f[j] \in Nat
      BY <1>3
    <3>3. \A j \in 1 .. i + 1 : f[j] <= IF f[i + 1] > top THEN f[i + 1] ELSE top
      BY <3>1, <3>2
    <3>4. QED BY <3>2, <3>3
  <2>3. T \subseteq Nat
    OBVIOUS
  <2> HIDE DEF T
  <2>4. 1 .. n \subseteq T
    BY <2>1, <2>2, <2>3, UpTo
  <2>5. n \in T
    BY <1>5, <2>4
  <2>6. PICK top \in Nat : \A j \in 1 .. n : f[j] <= top
    BY <2>5 DEF T
  <2>7. QED BY <1>3, <2>6
<1>6. QED BY <1>4, <1>5

LEMMA FiniteHasMax ==
  ASSUME NEW S, S \subseteq Nat, IsFiniteSet(S), S # {}
  PROVE  \E x \in S : \A y \in S : x >= y
<1>1. PICK top \in Nat : \A n \in S : n <= top
  BY FiniteIsBounded
<1> DEFINE D == {d \in Nat : top - d \in S}
<1>2. \A n \in S : top - n \in D
  BY <1>1
<1>3. PICK d \in D : \A e \in D : d <= e
  <2>1. D \subseteq Nat /\ D # {}
    BY <1>2
  <2> HIDE DEF D
  <2>2. QED BY <2>1, LeastNatural
<1>4. top - d \in S
  OBVIOUS
<1>5. ASSUME NEW n \in S PROVE top - d >= n
  <2>1. d <= top - n
    BY <1>2, <1>3
  <2>2. QED BY <2>1
<1>6. QED BY <1>4, <1>5

LEMMA MaxOfTwo ==
  ASSUME NEW a \in Int, NEW b \in Int
  PROVE  Max({a, b}) = IF a < b THEN b ELSE a
BY DEF Max

-----------------------------------------------------------------------------
(* Ranges.                                                                 *)

LEMMA RangeType ==
  ASSUME NEW r \in AddressRange
  PROVE  r[1] \in Nat /\ r[2] \in Nat /\ r[1] <= r[2] /\ r = <<r[1], r[2]>>
         /\ r[1] \in Cells(r) /\ r[2] \in Cells(r)
BY DEF AddressRange, Cells

LEMMA PairIsRange ==
  ASSUME NEW a \in Nat, NEW b \in Nat, a <= b
  PROVE  <<a, b>> \in AddressRange
BY DEF AddressRange

\* Ranges that hold the same address are one, in a map that is valid.
LEMMA OneRangeHolds ==
  ASSUME NEW ranges, Valid(ranges), NEW r \in ranges, NEW s \in ranges,
         NEW a, a \in Cells(r), a \in Cells(s)
  PROVE  r = s
BY DEF Valid

\* There is one span that comes first.
LEMMA FirstIsFirst ==
  ASSUME NEW S, S \subseteq AddressRange, S # {}
  PROVE  /\ First(S) \in S
         /\ \A s \in S : First(S)[1] <= s[1] /\ ~Earlier(s, First(S))
         /\ \A r \in S : (\A s \in S : ~Earlier(s, r)) => r = First(S)
<1>1. PICK a \in {r[1] : r \in S} : \A b \in {r[1] : r \in S} : a <= b
  <2>1. {r[1] : r \in S} # {}
    OBVIOUS
  <2>2. {r[1] : r \in S} \subseteq Nat
    BY RangeType
  <2>3. QED BY <2>1, <2>2, LeastNatural
<1>2. PICK z \in {r[2] : r \in {q \in S : q[1] = a}} :
        \A b \in {r[2] : r \in {q \in S : q[1] = a}} : z <= b
  <2>1. {r[2] : r \in {q \in S : q[1] = a}} # {}
    BY <1>1
  <2>2. {r[2] : r \in {q \in S : q[1] = a}} \subseteq Nat
    BY RangeType
  <2>3. QED BY <2>1, <2>2, LeastNatural
<1>3. PICK r \in S : r[1] = a /\ r[2] = z
  BY <1>2
<1>4. \A s \in S : r[1] <= s[1] /\ (s[1] = r[1] => r[2] <= s[2])
  BY <1>1, <1>2, <1>3
<1>5. \A s \in S : ~Earlier(s, r)
  BY <1>4, RangeType DEF Earlier
<1>6. First(S) \in S /\ \A s \in S : ~Earlier(s, First(S))
  BY <1>5 DEF First
<1>7. \A q \in S : (\A s \in S : ~Earlier(s, q)) => q = r
  BY <1>3, <1>4, RangeType DEF Earlier
<1>8. QED BY <1>4, <1>6, <1>7
-----------------------------------------------------------------------------
(* The loop of _plan_blocks().                                             *)

\* What the recursion behind Loop says, for its first N rounds.
Loops(spans, map, gap, limit, N, loop) ==
  loop = [n \in 1 .. N |-> IF n = 1 THEN Begun(spans) ELSE NextSpan(loop[n - 1], map, gap, limit)]

LEMMA LoopsExist ==
  ASSUME NEW spans, NEW map, NEW gap, NEW limit, NEW N \in Nat
  PROVE  \E loop : Loops(spans, map, gap, limit, N, loop)
<1> DEFINE Next(state) == NextSpan(state, map, gap, limit)
           Sol(n, loop) == loop = [i \in 1 .. n |-> IF i = 1 THEN Begun(spans) ELSE Next(loop[i - 1])]
           T == {n \in Nat : \E loop : Sol(n, loop)}
<1> HIDE DEF Next
<1>1. 1 \in T
  <2>1. Sol(1, [i \in 1 .. 1 |-> Begun(spans)])
    OBVIOUS
  <2>2. QED BY <2>1
<1>2. ASSUME NEW n \in 1 .. N - 1, n \in T PROVE n + 1 \in T
  <2>1. PICK loop : Sol(n, loop)
    BY <1>2
  <2> DEFINE longer == [i \in 1 .. n + 1 |-> IF i = n + 1 THEN Next(loop[n]) ELSE loop[i]]
  <2>2. \A i \in 1 .. n : longer[i] = loop[i]
    OBVIOUS
  <2>3. \A i \in 1 .. n : loop[i] = IF i = 1 THEN Begun(spans) ELSE Next(loop[i - 1])
    BY <2>1
  <2>4. \A i \in 1 .. n + 1 :
          longer[i] = IF i = 1 THEN Begun(spans) ELSE Next(longer[i - 1])
    <3> SUFFICES ASSUME NEW i \in 1 .. n + 1
                 PROVE  longer[i] = IF i = 1 THEN Begun(spans) ELSE Next(longer[i - 1])
      OBVIOUS
    <3>1. CASE i = n + 1
      BY <2>2, <3>1
    <3>2. CASE i # n + 1
      BY <2>2, <2>3, <3>2
    <3>3. QED BY <3>1, <3>2
  <2>5. longer = [i \in 1 .. n + 1 |-> longer[i]]
    OBVIOUS
  <2> HIDE DEF longer
  <2>6. Sol(n + 1, longer)
    BY <2>4, <2>5
  <2>7. QED BY <2>6
<1>3. T \subseteq Nat
  OBVIOUS
<1> HIDE DEF T
<1>4. CASE N = 0
  <2>1. Sol(0, [i \in 1 .. 0 |-> Begun(spans)])
    OBVIOUS
  <2>2. QED BY <1>4, <2>1 DEF Loops, Next
<1>5. CASE N # 0
  <2>1. 1 .. N \subseteq T
    BY <1>1, <1>2, <1>3, UpTo
  <2>2. N \in T
    BY <1>5, <2>1
  <2>3. QED BY <2>2 DEF T, Loops, Next
<1>6. QED BY <1>4, <1>5

LEMMA LoopDef ==
  ASSUME NEW spans, NEW map, NEW gap, NEW limit,
         IsFiniteSet(spans), spans # {},
         NEW loop, loop = Loop(spans, map, gap, limit)
  PROVE  /\ Cardinality(spans) \in Nat \ {0}
         /\ loop[1] = Begun(spans)
         /\ \A n \in 1 .. Cardinality(spans) - 1 : loop[n + 1] = NextSpan(loop[n], map, gap, limit)
<1> DEFINE N == Cardinality(spans)
<1>1. N \in Nat \ {0}
  BY FS_CardinalityType, FS_EmptySet
<1>2. loop = CHOOSE l : Loops(spans, map, gap, limit, N, l)
  BY DEF Loop, Loops
<1>3. \E l : Loops(spans, map, gap, limit, N, l)
  BY <1>1, LoopsExist
<1> HIDE DEF N
<1>4. Loops(spans, map, gap, limit, N, loop)
  BY <1>2, <1>3, Zenon
<1>5. \A n \in 1 .. N :
        loop[n] = IF n = 1 THEN Begun(spans) ELSE NextSpan(loop[n - 1], map, gap, limit)
  BY <1>4 DEF Loops
<1>6. loop[1] = Begun(spans)
  BY <1>1, <1>5
<1>7. ASSUME NEW n \in 1 .. N - 1
      PROVE  loop[n + 1] = NextSpan(loop[n], map, gap, limit)
  BY <1>1, <1>5
<1>8. QED BY <1>1, <1>6, <1>7 DEF N

\* A range that a read may ask for at once.
Fits(r, map, limit) ==
  /\ Width(r) <= limit
  /\ map # None => \E q \in map.ranges : Cells(r) \subseteq Cells(q)

BlocksOf(loop) == loop.done \cup {loop.block}

\* The invariant of the loop, after n rounds.
LoopInv(loop, spans, map, limit, n) ==
  /\ loop.rest \subseteq spans /\ Cardinality(loop.rest) = Cardinality(spans) - n
  /\ BlocksOf(loop) \subseteq AddressRange /\ IsFiniteSet(BlocksOf(loop))
  /\ \A r \in spans \ loop.rest : \E b \in BlocksOf(loop) : Cells(r) \subseteq Cells(b)
  /\ \A r \in loop.rest : loop.block[1] <= r[1]
  /\ \A b \in BlocksOf(loop) : Fits(b, map, limit)

LEMMA BegunInv ==
  ASSUME NEW spans, spans \subseteq AddressRange, IsFiniteSet(spans), spans # {},
         NEW map, NEW limit, \A r \in spans : Fits(r, map, limit)
  PROVE  LoopInv(Begun(spans), spans, map, limit, 1)
<1>1. First(spans) \in spans /\ \A s \in spans : First(spans)[1] <= s[1]
  BY FirstIsFirst
<1>2. Cardinality(spans \ {First(spans)}) = Cardinality(spans) - 1
  BY <1>1, FS_RemoveElement
<1>3. IsFiniteSet({First(spans)})
  BY FS_EmptySet, FS_AddElement
<1>4. QED BY <1>1, <1>2, <1>3 DEF LoopInv, Begun, BlocksOf

\* A block that is extended, and the span it is extended by, lie in one range.
LEMMA JoinedFits ==
  ASSUME NEW map, map # None => map.ranges \subseteq AddressRange /\ Valid(map.ranges),
         NEW gap, NEW limit \in Nat,
         NEW block \in AddressRange, NEW cells \in AddressRange, block[1] <= cells[1],
         Fits(block, map, limit), Fits(cells, map, limit),
         Joins(block, cells, map, gap, limit)
  PROVE  LET wider == <<block[1], Max({block[2], cells[2]})>> IN
         /\ wider \in AddressRange
         /\ Fits(wider, map, limit)
         /\ Cells(block) \subseteq Cells(wider) /\ Cells(cells) \subseteq Cells(wider)
<1> DEFINE top == IF block[2] < cells[2] THEN cells[2] ELSE block[2]
           wider == <<block[1], top>>
<1>1. /\ block[1] \in Nat /\ block[2] \in Nat /\ block[1] <= block[2]
      /\ cells[1] \in Nat /\ cells[2] \in Nat /\ cells[1] <= cells[2]
  BY RangeType
<1>2. Max({block[2], cells[2]}) = top
  BY <1>1, MaxOfTwo
<1>3. top \in Nat /\ block[1] <= top
  BY <1>1
<1>4. wider \in AddressRange /\ wider[1] = block[1] /\ wider[2] = top
  BY <1>1, <1>3, PairIsRange
<1>5. Cells(block) \subseteq Cells(wider) /\ Cells(cells) \subseteq Cells(wider)
  BY <1>1, <1>4 DEF Cells
<1>6. Width(wider) <= limit
  BY <1>1, <1>4 DEF Joins, Fits, Width
<1>7. ASSUME map # None PROVE \E q \in map.ranges : Cells(wider) \subseteq Cells(q)
  <2>1. PICK q \in map.ranges : Cells(block) \subseteq Cells(q)
    BY <1>7 DEF Fits
  <2>2. PICK p \in map.ranges : Cells(cells) \subseteq Cells(p)
    BY <1>7 DEF Fits
  <2>3. block[1] \in Cells(q) /\ block[2] \in Cells(q) /\ cells[1] \in Cells(p) /\ cells[2] \in Cells(p)
    BY <2>1, <2>2, RangeType
  <2>4. cells[1] \in Cells(q)
    BY <1>7, <2>3 DEF Joins, RangeOf
  <2>5. p = q
    BY <1>7, <2>3, <2>4, OneRangeHolds
  <2>6. q \in AddressRange /\ q[1] \in Nat /\ q[2] \in Nat
    BY <1>7, RangeType
  <2>7. Cells(wider) \subseteq Cells(q)
    BY <1>1, <1>4, <2>3, <2>5, <2>6 DEF Cells
  <2>8. QED BY <2>7
<1> HIDE DEF top
<1>8. QED BY <1>2, <1>4, <1>5, <1>6, <1>7 DEF Fits

LEMMA NextSpanInv ==
  ASSUME NEW spans, spans \subseteq AddressRange, IsFiniteSet(spans),
         NEW map, map # None => map.ranges \subseteq AddressRange /\ Valid(map.ranges),
         NEW gap, NEW limit \in Nat, \A r \in spans : Fits(r, map, limit),
         NEW n \in 1 .. Cardinality(spans) - 1,
         NEW loop, LoopInv(loop, spans, map, limit, n)
  PROVE  LoopInv(NextSpan(loop, map, gap, limit), spans, map, limit, n + 1)
<1> DEFINE cells == First(loop.rest)
           joins == Joins(loop.block, cells, map, gap, limit)
           wider == <<loop.block[1], Max({loop.block[2], cells[2]})>>
           next == NextSpan(loop, map, gap, limit)
<1> SUFFICES LoopInv(next, spans, map, limit, n + 1)
  OBVIOUS
<1>1. /\ loop.rest \subseteq spans /\ Cardinality(loop.rest) = Cardinality(spans) - n
      /\ BlocksOf(loop) \subseteq AddressRange /\ IsFiniteSet(BlocksOf(loop))
      /\ \A r \in spans \ loop.rest : \E b \in BlocksOf(loop) : Cells(r) \subseteq Cells(b)
      /\ \A r \in loop.rest : loop.block[1] <= r[1]
      /\ \A b \in BlocksOf(loop) : Fits(b, map, limit)
  BY DEF LoopInv
<1>2. Cardinality(spans) \in Nat
  BY FS_CardinalityType
<1>3. IsFiniteSet(loop.rest) /\ loop.rest # {}
  BY <1>1, <1>2, FS_Subset, FS_EmptySet
<1>4. /\ cells \in loop.rest /\ cells \in spans /\ cells \in AddressRange
      /\ \A r \in loop.rest : cells[1] <= r[1]
  BY <1>1, <1>3, FirstIsFirst
<1>5. Cardinality(loop.rest \ {cells}) = Cardinality(spans) - (n + 1)
  <2>1. Cardinality(loop.rest \ {cells}) = Cardinality(loop.rest) - 1
    BY <1>3, <1>4, FS_RemoveElement
  <2>2. QED BY <1>1, <1>2, <2>1
<1>6. /\ next.rest = loop.rest \ {cells}
      /\ next.done = (IF joins THEN loop.done ELSE loop.done \cup {loop.block})
      /\ next.block = (IF joins THEN wider ELSE cells)
  BY DEF NextSpan
<1>7. loop.block \in AddressRange /\ Fits(loop.block, map, limit)
      /\ IsFiniteSet(loop.done) /\ IsFiniteSet(loop.done \cup {loop.block})
      /\ loop.done \subseteq AddressRange
  <2>1. loop.block \in BlocksOf(loop) /\ loop.done \subseteq BlocksOf(loop)
    BY DEF BlocksOf
  <2>2. QED BY <1>1, <2>1, FS_Subset DEF BlocksOf
<1> HIDE DEF cells, joins, wider, next
<1>8. CASE joins
  <2>1. /\ wider \in AddressRange /\ Fits(wider, map, limit) /\ wider[1] = loop.block[1]
        /\ Cells(loop.block) \subseteq Cells(wider) /\ Cells(cells) \subseteq Cells(wider)
    <3>1. loop.block[1] <= cells[1] /\ Fits(cells, map, limit)
      BY <1>1, <1>4
    <3>2. QED BY <1>4, <1>7, <1>8, <3>1, JoinedFits DEF joins, wider
  <2>2. BlocksOf(next) = loop.done \cup {wider}
    BY <1>6, <1>8 DEF BlocksOf
  <2>3. IsFiniteSet(loop.done \cup {wider})
    BY <1>7, FS_AddElement
  <2>4. ASSUME NEW r \in spans \ next.rest
        PROVE  \E b \in BlocksOf(next) : Cells(r) \subseteq Cells(b)
    <3>1. r = cells \/ r \in spans \ loop.rest
      BY <1>6
    <3>2. CASE r = cells
      BY <2>1, <2>2, <3>2
    <3>3. CASE r \in spans \ loop.rest
      <4>1. PICK b \in BlocksOf(loop) : Cells(r) \subseteq Cells(b)
        BY <1>1, <3>3
      <4>2. b \in loop.done \/ b = loop.block
        BY DEF BlocksOf
      <4>3. QED BY <2>1, <2>2, <4>1, <4>2
    <3>4. QED BY <3>1, <3>2, <3>3
  <2>5. \A b \in BlocksOf(next) : b \in AddressRange /\ Fits(b, map, limit)
    BY <1>1, <1>7, <2>1, <2>2 DEF BlocksOf
  <2>6. \A r \in next.rest : next.block[1] <= r[1]
    BY <1>1, <1>6, <1>8, <2>1
  <2>7. /\ next.rest \subseteq spans /\ Cardinality(next.rest) = Cardinality(spans) - (n + 1)
        /\ BlocksOf(next) \subseteq AddressRange /\ IsFiniteSet(BlocksOf(next))
    BY <1>1, <1>5, <1>6, <2>2, <2>3, <2>5
  <2>8. QED BY <2>4, <2>5, <2>6, <2>7, Zenon DEF LoopInv
<1>9. CASE ~joins
  <2>1. BlocksOf(next) = BlocksOf(loop) \cup {cells}
    BY <1>6, <1>9 DEF BlocksOf
  <2>2. IsFiniteSet(BlocksOf(loop) \cup {cells})
    BY <1>1, FS_AddElement
  <2>3. ASSUME NEW r \in spans \ next.rest
        PROVE  \E b \in BlocksOf(next) : Cells(r) \subseteq Cells(b)
    BY <1>1, <1>6, <2>1
  <2>4. \A b \in BlocksOf(next) : b \in AddressRange /\ Fits(b, map, limit)
    BY <1>1, <1>4, <2>1
  <2>5. \A r \in next.rest : next.block[1] <= r[1]
    BY <1>4, <1>6, <1>9
  <2>6. /\ next.rest \subseteq spans /\ Cardinality(next.rest) = Cardinality(spans) - (n + 1)
        /\ BlocksOf(next) \subseteq AddressRange /\ IsFiniteSet(BlocksOf(next))
    BY <1>1, <1>5, <1>6, <2>1, <2>2, <2>4
  <2>7. QED BY <2>3, <2>4, <2>5, <2>6, Zenon DEF LoopInv
<1>10. QED BY <1>8, <1>9

\* The blocks hold every span whole, and each of them may be read at once.
THEOREM BlocksReadSpans ==
  ASSUME NEW spans, spans \subseteq AddressRange, IsFiniteSet(spans),
         NEW map, map # None => map.ranges \subseteq AddressRange /\ Valid(map.ranges),
         NEW gap, NEW limit \in Nat, \A r \in spans : Fits(r, map, limit)
  PROVE  LET blocks == Blocks(spans, map, gap, limit) IN
         /\ blocks \in RangeSets
         /\ \A r \in spans : \E b \in blocks : Cells(r) \subseteq Cells(b)
         /\ \A b \in blocks : Fits(b, map, limit)
<1>1. CASE spans = {}
  BY <1>1, FS_EmptySet DEF Blocks, RangeSets
<1>2. CASE spans # {}
  <2> DEFINE loop == Loop(spans, map, gap, limit)
             N == Cardinality(spans)
             T == {n \in Nat : n <= N => LoopInv(loop[n], spans, map, limit, n)}
  <2>1. /\ N \in Nat \ {0}
        /\ loop[1] = Begun(spans)
        /\ \A n \in 1 .. N - 1 : loop[n + 1] = NextSpan(loop[n], map, gap, limit)
    <3>1. loop = Loop(spans, map, gap, limit)
      OBVIOUS
    <3> HIDE DEF loop
    <3>2. QED BY <1>2, <3>1, LoopDef
  <2> HIDE DEF loop
  <2>2. 1 \in T
    BY <1>2, <2>1, BegunInv
  <2>3. ASSUME NEW n \in 1 .. N - 1, n \in T PROVE n + 1 \in T
    <3>1. LoopInv(loop[n], spans, map, limit, n)
      BY <2>1, <2>3
    <3>2. LoopInv(NextSpan(loop[n], map, gap, limit), spans, map, limit, n + 1)
      BY <2>3, <3>1, NextSpanInv
    <3>3. QED BY <2>1, <2>3, <3>2
  <2>4. T \subseteq Nat
    OBVIOUS
  <2>5. 1 .. N \subseteq T
    <3> HIDE DEF T, N
    <3>1. QED BY <2>1, <2>2, <2>3, <2>4, UpTo
  <2>6. N \in T
    BY <2>1, <2>5
  <2>7. LoopInv(loop[N], spans, map, limit, N)
    BY <2>1, <2>6
  <2>8. loop[N].rest = {}
    <3>1. loop[N].rest \subseteq spans /\ Cardinality(loop[N].rest) = N - N
      BY <2>7 DEF LoopInv
    <3>2. Cardinality(loop[N].rest) = 0 /\ IsFiniteSet(loop[N].rest)
      BY <2>1, <3>1, FS_Subset
    <3>3. QED BY <3>2, FS_EmptySet
  <2>9. Blocks(spans, map, gap, limit) = BlocksOf(loop[N])
    BY <1>2 DEF Blocks, BlocksOf, loop
  <2> HIDE DEF N, T
  <2>10. \A r \in BlocksOf(loop[N]) : r \in Nat \X Nat
    BY <2>7 DEF LoopInv, AddressRange
  <2>11. QED BY <2>7, <2>8, <2>9, <2>10 DEF LoopInv, RangeSets
<1>3. QED BY <1>1, <1>2

-----------------------------------------------------------------------------
(* Runs of cells.                                                          *)

LEMMA ImageIsFinite ==
  ASSUME NEW f, IsFiniteSet(DOMAIN f)
  PROVE  IsFiniteSet({f[x] : x \in DOMAIN f})
<1> DEFINE T == {f[x] : x \in DOMAIN f}
           g == [x \in DOMAIN f |-> f[x]]
<1>1. g \in Surjection(DOMAIN f, T)
  BY DEF Surjection
<1> HIDE DEF g
<1>2. IsFiniteSet(T)
  BY <1>1, FS_Surjection
<1>3. QED BY <1>2

LEMMA CellsAreFinite ==
  ASSUME NEW ranges \in RangeSets
  PROVE  AllCells(ranges) \subseteq Nat /\ IsFiniteSet(AllCells(ranges))
<1> DEFINE f == [r \in ranges |-> Cells(r)]
<1>1. \A r \in ranges : r \in AddressRange /\ r[1] \in Nat /\ r[2] \in Nat
  BY RangeType DEF RangeSets
<1>2. IsFiniteSet({f[r] : r \in DOMAIN f})
  BY ImageIsFinite DEF RangeSets
<1>3. \A r \in ranges : IsFiniteSet(Cells(r))
  BY <1>1, FS_Interval DEF Cells
<1>4. {f[r] : r \in DOMAIN f} = {Cells(r) : r \in ranges}
  OBVIOUS
<1>5. IsFiniteSet(UNION {Cells(r) : r \in ranges})
  BY <1>2, <1>3, <1>4, FS_UNION
<1>6. QED BY <1>1, <1>5 DEF AllCells, Cells

LEMMA RunsType ==
  ASSUME NEW cells, cells \subseteq Nat, IsFiniteSet(cells), NEW cuts
  PROVE  /\ Runs(cells, cuts) \in RangeSets
         /\ \A r \in Runs(cells, cuts) : Cells(r) \subseteq cells
<1>1. Runs(cells, cuts) \subseteq cells \X cells
  BY DEF Runs
<1>2. IsFiniteSet(Runs(cells, cuts))
  BY <1>1, FS_Product, FS_Subset
<1>3. QED BY <1>1, <1>2 DEF RangeSets, AddressRange, Runs

LEMMA RunExists ==
  ASSUME NEW cells, cells \subseteq Nat, IsFiniteSet(cells), NEW cuts, NEW a \in cells
  PROVE  \E r \in Runs(cells, cuts) : a \in Cells(r)
<1> DEFINE Low == {m \in Nat : m <= a /\ m .. a \subseteq cells /\ cuts \cap (m + 1 .. a) = {}}
           High == {n \in Nat : a <= n /\ a .. n \subseteq cells /\ cuts \cap (a + 1 .. n) = {}}
<1>1. PICK top \in Nat : \A n \in cells : n <= top
  BY FiniteIsBounded
<1>2. a \in Low /\ a \in High
  BY SMT
<1>3. PICK lo \in Low : \A m \in Low : lo <= m
  <2>1. Low \subseteq Nat /\ Low # {}
    BY <1>2
  <2> HIDE DEF Low
  <2>2. QED BY <2>1, LeastNatural
<1>4. PICK hi \in High : \A n \in High : n <= hi
  <2> DEFINE D == {d \in Nat : top - d \in High}
  <2>1. \A n \in High : n \in Nat /\ n <= top
    BY <1>1, <1>2
  <2>2. top - a \in D
    BY <1>2, <2>1
  <2>3. PICK d \in D : \A e \in D : d <= e
    <3>1. D \subseteq Nat /\ D # {}
      BY <2>2
    <3> HIDE DEF D
    <3>2. QED BY <3>1, LeastNatural
  <2>4. \A n \in High : top - n \in D
    BY <2>1
  <2>5. top - d \in High
    OBVIOUS
  <2>6. ASSUME NEW n \in High PROVE n <= top - d
    <3>1. top - n \in D
      BY <2>4
    <3>2. d <= top - n /\ n \in Nat /\ d \in Nat
      BY <2>1, <2>3, <3>1
    <3>3. QED BY <3>2
  <2> HIDE DEF High
  <2>7. QED BY <2>5, <2>6
<1>5. lo \in Nat /\ hi \in Nat /\ lo <= a /\ a <= hi /\ a \in Nat
  OBVIOUS
<1>6. lo .. hi \subseteq cells
  <2>1. \A x \in lo .. hi : x \in lo .. a \/ x \in a .. hi
    BY <1>5
  <2>2. QED BY <2>1
<1>7. cuts \cap (lo + 1 .. hi) = {}
  <2>1. \A x \in lo + 1 .. hi : x \in lo + 1 .. a \/ x \in a + 1 .. hi
    BY <1>5
  <2>2. QED BY <2>1
<1>8. lo - 1 \notin cells \/ lo \in cuts
  <2> SUFFICES ASSUME lo - 1 \in cells, lo \notin cuts PROVE FALSE
    OBVIOUS
  <2>1. \A x \in lo - 1 .. a : x = lo - 1 \/ x \in lo .. a
    BY <1>5
  <2>2. \A x \in lo .. a : x = lo \/ x \in lo + 1 .. a
    BY <1>5
  <2>3. lo - 1 .. a \subseteq cells
    BY <2>1
  <2>4. cuts \cap (lo .. a) = {}
    BY <2>2
  <2>5. lo - 1 \in Nat /\ (lo - 1) + 1 = lo /\ lo - 1 <= a
    BY <1>5
  <2>6. lo - 1 \in Low
    BY <2>3, <2>4, <2>5
  <2>7. QED BY <1>3, <1>5, <2>6
<1>9. hi + 1 \notin cells \/ hi + 1 \in cuts
  <2> SUFFICES ASSUME hi + 1 \in cells, hi + 1 \notin cuts PROVE FALSE
    OBVIOUS
  <2>1. \A x \in a .. hi + 1 : x = hi + 1 \/ x \in a .. hi
    BY <1>5
  <2>2. \A x \in a + 1 .. hi + 1 : x = hi + 1 \/ x \in a + 1 .. hi
    BY <1>5
  <2>3. a .. hi + 1 \subseteq cells /\ cuts \cap (a + 1 .. hi + 1) = {}
    BY <2>1, <2>2
  <2>4. hi + 1 \in High
    BY <1>5, <2>3
  <2>5. QED BY <1>4, <1>5, <2>4
<1> HIDE DEF Low, High
<1>10. lo \in cells /\ hi \in cells /\ lo <= hi
  BY <1>5, <1>6
<1>11. <<lo, hi>> \in Runs(cells, cuts)
  BY <1>6, <1>7, <1>8, <1>9, <1>10 DEF Runs, Cells
<1>12. a \in Cells(<<lo, hi>>)
  BY <1>5 DEF Cells
<1>13. QED BY <1>11, <1>12

\* Runs cover the cells they are the runs of, and no others.
LEMMA RunsKeepCells ==
  ASSUME NEW cells, cells \subseteq Nat, IsFiniteSet(cells), NEW cuts
  PROVE  AllCells(Runs(cells, cuts)) = cells
<1>1. \A r \in Runs(cells, cuts) : Cells(r) \subseteq cells
  BY RunsType
<1>2. \A a \in cells : \E r \in Runs(cells, cuts) : a \in Cells(r)
  BY RunExists
<1>3. QED BY <1>1, <1>2 DEF AllCells

\* A cut at a covered cell, or right after one, is an edge of the runs.
LEMMA CutsAreEdges ==
  ASSUME NEW cells, cells \subseteq Nat, IsFiniteSet(cells), NEW cuts,
         NEW e \in cuts, e \in Nat, e \in cells \/ e - 1 \in cells
  PROVE  e \in Edges(Runs(cells, cuts))
<1>1. CASE e \in cells
  <2>1. PICK r \in Runs(cells, cuts) : e \in Cells(r)
    BY <1>1, RunExists
  <2>2. r[1] \in Nat /\ r[2] \in Nat /\ cuts \cap (r[1] + 1 .. r[2]) = {}
    BY DEF Runs
  <2>3. e = r[1]
    BY <2>1, <2>2 DEF Cells
  <2>4. QED BY <2>1, <2>3 DEF Edges
<1>2. CASE e - 1 \in cells
  <2>1. PICK r \in Runs(cells, cuts) : e - 1 \in Cells(r)
    BY <1>2, RunExists
  <2>2. r[1] \in Nat /\ r[2] \in Nat /\ cuts \cap (r[1] + 1 .. r[2]) = {}
    BY DEF Runs
  <2>3. e = r[2] + 1
    BY <2>1, <2>2 DEF Cells
  <2>4. QED BY <2>1, <2>3 DEF Edges
<1>3. QED BY <1>1, <1>2

\* Edges lie at cells or right after them.
LEMMA EdgesAreAtCells ==
  ASSUME NEW ranges, ranges \subseteq AddressRange, NEW e \in Edges(ranges)
  PROVE  e \in Nat /\ (e \in AllCells(ranges) \/ e - 1 \in AllCells(ranges))
<1>1. PICK r \in ranges : e = r[1] \/ e = r[2] + 1
  BY DEF Edges
<1>2. r[1] \in Nat /\ r[2] \in Nat /\ r[1] \in Cells(r) /\ r[2] \in Cells(r)
  BY RangeType
<1>3. Cells(r) \subseteq AllCells(ranges)
  BY DEF AllCells
<1>4. QED BY <1>1, <1>2, <1>3

\* What fits into valid ranges reaches across none of their edges.
LEMMA FitsCrossesNoEdge ==
  ASSUME NEW ranges, ranges \subseteq AddressRange, Valid(ranges),
         NEW b \in AddressRange, NEW q \in ranges, Cells(b) \subseteq Cells(q)
  PROVE  Edges(ranges) \cap (b[1] + 1 .. b[2]) = {}
<1> SUFFICES ASSUME NEW e \in Edges(ranges), e \in b[1] + 1 .. b[2] PROVE FALSE
  OBVIOUS
<1>1. PICK r \in ranges : e = r[1] \/ e = r[2] + 1
  BY DEF Edges
<1>2. /\ r[1] \in Nat /\ r[2] \in Nat /\ r[1] \in Cells(r) /\ r[2] \in Cells(r)
      /\ b[1] \in Nat /\ b[2] \in Nat /\ q[1] \in Nat /\ q[2] \in Nat
  BY RangeType
<1>3. e \in Cells(q) /\ e - 1 \in Cells(q)
  BY <1>2 DEF Cells
<1>4. CASE e = r[1]
  <2>1. r = q
    BY <1>2, <1>3, <1>4, OneRangeHolds
  <2>2. QED BY <1>2, <1>3, <1>4, <2>1 DEF Cells
<1>5. CASE e = r[2] + 1
  <2>1. e - 1 = r[2]
    BY <1>2, <1>5
  <2>2. r = q
    BY <1>2, <1>3, <2>1, OneRangeHolds
  <2>3. QED BY <1>2, <1>3, <1>5, <2>2 DEF Cells
<1>6. QED BY <1>1, <1>4, <1>5

-----------------------------------------------------------------------------
(* Merging.                                                                *)

LEMMA SpaceMapType ==
  ASSUME NEW p \in SpaceMaps
  PROVE  /\ p.ranges \in RangeSets /\ p.declared \in BOOLEAN
         /\ p = [ranges |-> p.ranges, declared |-> p.declared]
         /\ p # None /\ p # Refused
BY PlanningAssumption DEF SpaceMaps

LEMMA IsSpaceMap ==
  ASSUME NEW ranges \in RangeSets, NEW declared \in BOOLEAN
  PROVE  [ranges |-> ranges, declared |-> declared] \in SpaceMaps
BY DEF SpaceMaps

LEMMA CoalesceKeepsCells ==
  ASSUME NEW rs \in RangeSets
  PROVE  AllCells(Coalesce(rs)) = AllCells(rs)
BY CellsAreFinite, RunsKeepCells DEF Coalesce

\* A merge keeps every cell of every part, adds none, and keeps each edge of what was declared.
LEMMA MergedSpaceType ==
  ASSUME NEW parts, IsFiniteSet(parts), parts \subseteq SpaceMaps
  PROVE  LET merged == MergedSpace(parts) IN
         /\ merged \in SpaceMaps \cup {None, Refused}
         /\ merged = None <=> parts = {}
         /\ merged = Refused =>
              ~Valid(UNION {Coalesce(rs) : rs \in {p.ranges : p \in {q \in parts : q.declared}}})
         /\ merged \in SpaceMaps =>
              /\ AllCells(merged.ranges) = UNION {AllCells(p.ranges) : p \in parts}
              /\ \A p \in parts : p.declared =>
                   merged.declared /\ Edges(p.ranges) \subseteq Edges(merged.ranges)
<1> DEFINE merged == MergedSpace(parts)
           declared == {p.ranges : p \in {q \in parts : q.declared}}
           joint == UNION {Coalesce(rs) : rs \in declared}
           claimed == UNION {p.ranges : p \in {q \in parts : ~q.declared}}
           cuts == UNION {Edges(rs) : rs \in declared}
           all == UNION {AllCells(p.ranges) : p \in parts}
<1>1. CASE parts = {}
  <2>1. merged = None
    BY <1>1 DEF MergedSpace
  <2>2. None \notin SpaceMaps /\ None # Refused
    BY PlanningAssumption
  <2>3. QED BY <1>1, <2>1, <2>2
<1>2. CASE parts # {} /\ ~Valid(joint)
  <2>1. merged = Refused
    BY <1>2 DEF MergedSpace
  <2>2. Refused \notin SpaceMaps /\ None # Refused
    BY PlanningAssumption
  <2>3. QED BY <1>2, <2>1, <2>2
<1>3. CASE parts # {} /\ Valid(joint)
  <2>1. merged = [ranges |-> Runs(AllCells(joint \cup claimed), cuts), declared |-> declared # {}]
    BY <1>3 DEF MergedSpace
  <2>2. \A p \in parts : p.ranges \in RangeSets /\ p.declared \in BOOLEAN
    BY SpaceMapType
  <2>3. AllCells(joint \cup claimed) = all
    <3>1. \A rs \in declared : AllCells(Coalesce(rs)) = AllCells(rs)
      BY <2>2, CoalesceKeepsCells
    <3>2. ASSUME NEW a \in all PROVE a \in AllCells(joint \cup claimed)
      <4>1. PICK p \in parts : a \in AllCells(p.ranges)
        OBVIOUS
      <4>2. CASE p.declared
        <5>1. p.ranges \in declared /\ a \in AllCells(Coalesce(p.ranges))
          BY <3>1, <4>1, <4>2
        <5>2. Coalesce(p.ranges) \subseteq joint
          BY <5>1
        <5>3. QED BY <5>1, <5>2 DEF AllCells
      <4>3. CASE ~p.declared
        <5>1. p.ranges \subseteq claimed
          BY <4>3
        <5>2. QED BY <4>1, <5>1 DEF AllCells
      <4>4. QED BY <4>2, <4>3
    <3>3. ASSUME NEW a \in AllCells(joint \cup claimed) PROVE a \in all
      <4>1. PICK r \in joint \cup claimed : a \in Cells(r)
        BY DEF AllCells
      <4>2. CASE r \in joint
        <5>1. PICK rs \in declared : r \in Coalesce(rs)
          BY <4>2
        <5>2. a \in AllCells(rs)
          BY <3>1, <4>1, <5>1 DEF AllCells
        <5>3. QED BY <5>1, <5>2
      <4>3. CASE r \in claimed
        BY <4>1, <4>3 DEF AllCells
      <4>4. QED BY <4>1, <4>2, <4>3
    <3> HIDE DEF all, joint, claimed
    <3>4. QED BY <3>2, <3>3
  <2>4. all \subseteq Nat /\ IsFiniteSet(all)
    <3> DEFINE f == [p \in parts |-> AllCells(p.ranges)]
    <3>1. IsFiniteSet({f[p] : p \in DOMAIN f})
      BY ImageIsFinite
    <3>2. {f[p] : p \in DOMAIN f} = {AllCells(p.ranges) : p \in parts}
      OBVIOUS
    <3>3. \A c \in {AllCells(p.ranges) : p \in parts} : c \subseteq Nat /\ IsFiniteSet(c)
      BY <2>2, CellsAreFinite
    <3>4. IsFiniteSet(UNION {AllCells(p.ranges) : p \in parts})
      BY <3>1, <3>2, <3>3, FS_UNION
    <3>5. QED BY <3>3, <3>4
  <2>5. Runs(all, cuts) \in RangeSets /\ AllCells(Runs(all, cuts)) = all
    <3> HIDE DEF all, cuts
    <3>1. QED BY <2>4, RunsType, RunsKeepCells
  <2>6. merged \in SpaceMaps /\ merged.ranges = Runs(all, cuts) /\ merged.declared = (declared # {})
    <3> HIDE DEF merged, all, cuts, declared, joint, claimed
    <3>1. merged = [ranges |-> Runs(all, cuts), declared |-> declared # {}]
      BY <2>1, <2>3
    <3>2. (declared # {}) \in BOOLEAN
      OBVIOUS
    <3>3. [ranges |-> Runs(all, cuts), declared |-> declared # {}] \in SpaceMaps
      BY <2>5, <3>2, IsSpaceMap
    <3>4. QED BY <3>1, <3>3
  <2>7. ASSUME NEW p \in parts, p.declared
        PROVE  merged.declared /\ Edges(p.ranges) \subseteq Edges(merged.ranges)
    <3>1. p.ranges \in declared
      BY <2>7
    <3>2. Edges(p.ranges) \subseteq cuts /\ AllCells(p.ranges) \subseteq all
      BY <3>1
    <3>3. p.ranges \subseteq AddressRange
      BY <2>2 DEF RangeSets
    <3> HIDE DEF all, cuts, declared, merged
    <3>4. ASSUME NEW e \in Edges(p.ranges) PROVE e \in Edges(Runs(all, cuts))
      <4>1. e \in Nat /\ (e \in all \/ e - 1 \in all)
        BY <3>2, <3>3, EdgesAreAtCells
      <4>2. QED BY <2>4, <3>2, <4>1, CutsAreEdges
    <3>5. QED BY <2>6, <3>1, <3>4
  <2>8. merged # None /\ merged # Refused
    BY <2>6, PlanningAssumption
  <2> HIDE DEF merged, all
  <2>9. QED BY <1>3, <2>5, <2>6, <2>7, <2>8 DEF merged, all
<1>4. QED BY <1>1, <1>2, <1>3

LEMMA MergedSpaceKeeps ==
  ASSUME NEW parts, IsFiniteSet(parts), parts \subseteq SpaceMaps
  PROVE  LET merged == MergedSpace(parts) IN
         /\ merged \in SpaceMaps \cup {None, Refused}
         /\ merged = None <=> parts = {}
         /\ merged \in SpaceMaps =>
              /\ AllCells(merged.ranges) = UNION {AllCells(p.ranges) : p \in parts}
              /\ \A p \in parts : p.declared =>
                   merged.declared /\ Edges(p.ranges) \subseteq Edges(merged.ranges)
<1> DEFINE merged == MergedSpace(parts)
<1> HIDE DEF merged
<1>1. QED BY MergedSpaceType DEF merged

LEMMA DeviceMapType ==
  ASSUME NEW map \in DeviceMaps
  PROVE  /\ map # Refused
         /\ \A s \in Spaces : map[s] = None \/ map[s] \in SpaceMaps
         /\ \A s \in Spaces : map[s] # None => map[s].ranges \in RangeSets
<1>1. \A s \in Spaces : map[s] = None \/ map[s] \in SpaceMaps
  BY DEF DeviceMaps
<1>2. QED BY <1>1, SpaceMapType, PlanningAssumption

\* The same of the maps of all spaces: a merge that is not refused holds what each map holds,
\* and no edge that any of them declared is lost.
THEOREM MergeKeepsDeclarations ==
  ASSUME NEW maps, IsFiniteSet(maps), maps \subseteq DeviceMaps \cup {Refused}
  PROVE  LET merged == Merged(maps) IN
         /\ merged \in DeviceMaps \cup {Refused}
         /\ merged # Refused =>
              /\ maps \subseteq DeviceMaps
              /\ \A s \in Spaces :
                   /\ merged[s] = None <=> \A m \in maps : m[s] = None
                   /\ merged[s] # None =>
                        AllCells(merged[s].ranges) =
                          UNION {AllCells(m[s].ranges) : m \in {n \in maps : n[s] # None}}
                   /\ \A m \in maps : m[s] # None /\ m[s].declared =>
                        /\ merged[s].declared
                        /\ Edges(m[s].ranges) \subseteq Edges(merged[s].ranges)
<1> DEFINE part(s) == {m[s] : m \in maps} \ {None}
           merge == [s \in Spaces |-> MergedSpace(part(s))]
           merged == Merged(maps)
<1>1. CASE Refused \in maps \/ \E s \in Spaces : merge[s] = Refused
  <2>1. merged = Refused
    BY <1>1 DEF Merged
  <2>2. QED BY <2>1
<1>2. CASE ~(Refused \in maps \/ \E s \in Spaces : merge[s] = Refused)
  <2>1. merged = merge
    BY <1>2 DEF Merged
  <2>2. maps \subseteq DeviceMaps
    BY <1>2
  <2>3. ASSUME NEW s \in Spaces
        PROVE  /\ merged[s] \in SpaceMaps \cup {None}
               /\ merged[s] = None <=> \A m \in maps : m[s] = None
               /\ merged[s] # None =>
                    AllCells(merged[s].ranges) =
                      UNION {AllCells(m[s].ranges) : m \in {n \in maps : n[s] # None}}
               /\ \A m \in maps : m[s] # None /\ m[s].declared =>
                    /\ merged[s].declared
                    /\ Edges(m[s].ranges) \subseteq Edges(merged[s].ranges)
    <3> DEFINE f == [m \in maps |-> m[s]]
    <3>1. part(s) \subseteq SpaceMaps
      BY <2>2, DeviceMapType
    <3>2. IsFiniteSet(part(s))
      <4>1. IsFiniteSet({f[m] : m \in DOMAIN f})
        BY ImageIsFinite
      <4>2. part(s) \subseteq {f[m] : m \in DOMAIN f}
        OBVIOUS
      <4>3. QED BY <4>1, <4>2, FS_Subset
    <3>3. merged[s] = MergedSpace(part(s)) /\ merged[s] # Refused
      BY <1>2, <2>1
    <3>4. \A p : p \in part(s) <=> p # None /\ \E m \in maps : p = m[s]
      OBVIOUS
    <3> HIDE DEF part, merged
    <3>5. /\ merged[s] \in SpaceMaps \cup {None}
          /\ merged[s] = None <=> part(s) = {}
          /\ merged[s] # None =>
               /\ AllCells(merged[s].ranges) = UNION {AllCells(p.ranges) : p \in part(s)}
               /\ \A p \in part(s) : p.declared =>
                    merged[s].declared /\ Edges(p.ranges) \subseteq Edges(merged[s].ranges)
      BY <3>1, <3>2, <3>3, MergedSpaceKeeps
    <3>6. merged[s] = None <=> \A m \in maps : m[s] = None
      BY <3>4, <3>5
    <3>7. UNION {AllCells(p.ranges) : p \in part(s)} =
            UNION {AllCells(m[s].ranges) : m \in {n \in maps : n[s] # None}}
      BY <3>4
    <3>8. ASSUME NEW m \in maps, m[s] # None, m[s].declared
          PROVE  merged[s].declared /\ Edges(m[s].ranges) \subseteq Edges(merged[s].ranges)
      <4>1. m[s] \in part(s) /\ merged[s] # None
        BY <3>4, <3>6, <3>8
      <4>2. QED BY <3>5, <3>8, <4>1
    <3>9. QED BY <3>5, <3>6, <3>7, <3>8
  <2>4. merged \in DeviceMaps
    <3>1. merged = [s \in Spaces |-> merged[s]]
      BY <2>1
    <3> HIDE DEF merged
    <3>2. QED BY <2>3, <3>1 DEF DeviceMaps
  <2> HIDE DEF merged
  <2>5. QED BY <2>2, <2>3, <2>4 DEF merged
<1>3. QED BY <1>1, <1>2

-----------------------------------------------------------------------------
(* Plans.                                                                  *)

SpanType == [space : Spaces, cells : AddressRange]

\* What a plan is for: the spans are read whole, by blocks that fit.
Serves(plan, spans, map, limit) ==
  /\ map \in DeviceMaps
  /\ plan \in [Spaces -> RangeSets]
  /\ \A s \in Spaces :
       /\ In(spans, s) = {} => plan[s] = {}
       /\ In(spans, s) # {} /\ map[s] # None => Valid(map[s].ranges)
       /\ \A x \in In(spans, s) : \E b \in plan[s] : Cells(x.cells) \subseteq Cells(b)
       /\ \A b \in plan[s] : Fits(b, map[s], limit)

\* A plan that is not refused has a valid map under it; it reads every span whole, in
\* blocks that keep to the limit and lie each in one range of the map.
THEOREM PlansReadSpans ==
  ASSUME NEW spans, IsFiniteSet(spans), spans \subseteq SpanType,
         NEW map \in DeviceMaps \cup {Refused}, NEW gap, NEW limit \in Nat,
         NEW plan, plan = Plan(spans, map, gap, limit), plan # Refused
  PROVE  Serves(plan, spans, map, limit)
<1> DEFINE read == {s \in Spaces : In(spans, s) # {}}
           blocks(s) == PlanBlocks(In(spans, s), map[s], gap, limit)
<1>1. ~(map = Refused \/ \E s \in read : ~Plannable(In(spans, s), map[s], limit))
  BY DEF Plan
<1>2. map \in DeviceMaps
  BY <1>1
<1>3. plan = [s \in Spaces |-> IF s \in read THEN blocks(s) ELSE {}]
  BY <1>1 DEF Plan
<1>4. ASSUME NEW s \in Spaces, s \in read
      PROVE  /\ plan[s] \in RangeSets
             /\ map[s] # None => Valid(map[s].ranges)
             /\ \A x \in In(spans, s) : \E b \in plan[s] : Cells(x.cells) \subseteq Cells(b)
             /\ \A b \in plan[s] : Fits(b, map[s], limit)
  <2> DEFINE X == In(spans, s)
             R == map[s]
             cells == {x.cells : x \in X}
  <2>1. Plannable(X, R, limit)
    BY <1>1, <1>4
  <2>2. plan[s] = Blocks(cells, R, gap, limit)
    BY <1>3, <1>4, <2>1 DEF PlanBlocks
  <2>3. R # None => R.ranges \in RangeSets /\ Valid(R.ranges)
    BY <1>2, <2>1, DeviceMapType DEF Plannable
  <2>4. X \subseteq spans
    BY DEF In
  <2>5. cells \subseteq AddressRange
    BY <2>4 DEF SpanType
  <2>6. IsFiniteSet(cells)
    <3> DEFINE f == [x \in X |-> x.cells]
    <3>1. IsFiniteSet(X)
      BY <2>4, FS_Subset
    <3> HIDE DEF X
    <3>2. IsFiniteSet({f[x] : x \in DOMAIN f})
      BY <3>1, ImageIsFinite
    <3>3. {f[x] : x \in DOMAIN f} = cells
      OBVIOUS
    <3>4. QED BY <3>2, <3>3
  <2>7. \A r \in cells : Fits(r, R, limit)
    BY <2>1 DEF Plannable, Readable, Fits
  <2>8. R # None => R.ranges \subseteq AddressRange /\ Valid(R.ranges)
    BY <2>3 DEF RangeSets
  <2>9. /\ plan[s] \in RangeSets
        /\ \A r \in cells : \E b \in plan[s] : Cells(r) \subseteq Cells(b)
        /\ \A b \in plan[s] : Fits(b, R, limit)
    <3> HIDE DEF R, cells
    <3>1. QED BY <2>2, <2>5, <2>6, <2>7, <2>8, BlocksReadSpans
  <2>10. map[s] # None => Valid(map[s].ranges)
    BY <2>3
  <2> HIDE DEF X
  <2>11. QED BY <2>9, <2>10 DEF X
<1>5. ASSUME NEW s \in Spaces, s \notin read
      PROVE  In(spans, s) = {} /\ plan[s] = {} /\ plan[s] \in RangeSets
  <2>1. In(spans, s) = {} /\ plan[s] = {}
    BY <1>3, <1>5
  <2>2. QED BY <2>1, FS_EmptySet DEF RangeSets
<1>6. plan \in [Spaces -> RangeSets]
  <2>1. plan = [s \in Spaces |-> plan[s]]
    BY <1>3
  <2>2. \A s \in Spaces : plan[s] \in RangeSets
    BY <1>4, <1>5
  <2>3. QED BY <2>1, <2>2
<1>7. \A s \in Spaces : In(spans, s) # {} => s \in read
  OBVIOUS
<1> HIDE DEF read
<1>8. QED
  <2>1. ASSUME NEW s \in Spaces
        PROVE  /\ In(spans, s) = {} => plan[s] = {}
               /\ In(spans, s) # {} /\ map[s] # None => Valid(map[s].ranges)
               /\ \A x \in In(spans, s) : \E b \in plan[s] : Cells(x.cells) \subseteq Cells(b)
               /\ \A b \in plan[s] : Fits(b, map[s], limit)
    <3>1. CASE s \in read
      <4>1. In(spans, s) # {}
        BY <3>1 DEF read
      <4>2. QED BY <1>4, <3>1, <4>1
    <3>2. CASE s \notin read
      BY <1>5, <3>2
    <3>3. QED BY <3>1, <3>2
  <2>2. QED BY <1>2, <1>6, <2>1 DEF Serves

LEMMA NoMapIsMap ==
  Unconstrained \in DeviceMaps /\ \A s \in Spaces : Unconstrained[s] = None
BY DEF Unconstrained, DeviceMaps

\* A claim declares nothing, and holds what the spans alone would be read by.
LEMMA ClaimedType ==
  ASSUME NEW spans, IsFiniteSet(spans), spans \subseteq SpanType, NEW gap, NEW limit \in Nat
  PROVE  LET claim == Claimed(spans, gap, limit)
             plan == Plan(spans, Unconstrained, gap, limit) IN
         /\ claim \in DeviceMaps \cup {Refused}
         /\ claim = Refused <=> plan = Refused
         /\ claim # Refused => \A s \in Spaces :
              /\ claim[s] = None <=> In(spans, s) = {}
              /\ claim[s] # None => claim[s].ranges = plan[s] /\ ~claim[s].declared
<1> DEFINE claim == Claimed(spans, gap, limit)
           plan == Plan(spans, Unconstrained, gap, limit)
<1>1. CASE plan = Refused
  BY <1>1 DEF Claimed
<1>2. CASE plan # Refused
  <2>1. plan \in [Spaces -> RangeSets]
    BY <1>2, NoMapIsMap, PlansReadSpans DEF Serves
  <2>2. claim = [s \in Spaces |-> IF In(spans, s) = {} THEN None
                                  ELSE [ranges |-> plan[s], declared |-> FALSE]]
    BY <1>2 DEF Claimed
  <2> HIDE DEF plan
  <2>3. \A s \in Spaces : [ranges |-> plan[s], declared |-> FALSE] \in SpaceMaps
    BY <2>1, IsSpaceMap
  <2>4. ASSUME NEW s \in Spaces
        PROVE  /\ claim[s] \in SpaceMaps \cup {None}
               /\ claim[s] = None <=> In(spans, s) = {}
               /\ claim[s] # None => claim[s].ranges = plan[s] /\ ~claim[s].declared
    <3>1. CASE In(spans, s) = {}
      BY <2>2, <3>1
    <3>2. CASE In(spans, s) # {}
      <4>1. claim[s] = [ranges |-> plan[s], declared |-> FALSE]
        BY <2>2, <3>2
      <4>2. claim[s] \in SpaceMaps /\ claim[s] # None
        BY <2>3, <4>1, PlanningAssumption
      <4> HIDE DEF claim
      <4>3. QED BY <3>2, <4>1, <4>2
    <3>3. QED BY <3>1, <3>2
  <2>5. claim \in DeviceMaps
    <3>1. claim = [s \in Spaces |-> claim[s]]
      BY <2>2
    <3> HIDE DEF claim
    <3>2. QED BY <2>4, <3>1 DEF DeviceMaps
  <2>6. claim # Refused
    BY <2>5, DeviceMapType
  <2> HIDE DEF claim
  <2>7. QED BY <1>2, <2>4, <2>5, <2>6 DEF plan, claim
<1>3. QED BY <1>1, <1>2

LEMMA UnmappedType ==
  ASSUME NEW spans, IsFiniteSet(spans), spans \subseteq SpanType, NEW map
  PROVE  IsFiniteSet(Unmapped(map, spans)) /\ Unmapped(map, spans) \subseteq SpanType
BY FS_Subset DEF Unmapped

-----------------------------------------------------------------------------
(* The same, one address further on: everything a plan is made of moves     *)
(* with its addresses.                                                      *)

Up(r) == <<r[1] + 1, r[2] + 1>>
UpAll(ranges) == {Up(r) : r \in ranges}
Plus(cells) == {a + 1 : a \in cells}
UpMap(p) == [p EXCEPT !.ranges = UpAll(@)]
UpSpan(x) == [x EXCEPT !.cells = Up(@)]
UpSpans(spans) == {UpSpan(x) : x \in spans}
UpPlan(plan) == IF plan = Refused THEN Refused ELSE [s \in Spaces |-> UpAll(plan[s])]

LEMMA UpRange ==
  ASSUME NEW r \in AddressRange
  PROVE  /\ Up(r) \in AddressRange /\ Up(r)[1] = r[1] + 1 /\ Up(r)[2] = r[2] + 1
         /\ Width(Up(r)) = Width(r)
         /\ \A a \in Int : a + 1 \in Cells(Up(r)) <=> a \in Cells(r)
         /\ \A a \in Cells(Up(r)) : a - 1 \in Cells(r) /\ a \in Nat
<1>1. r[1] \in Nat /\ r[2] \in Nat /\ r[1] <= r[2]
  BY RangeType
<1>2. Up(r)[1] = r[1] + 1 /\ Up(r)[2] = r[2] + 1
  BY DEF Up
<1>3. Up(r) \in AddressRange
  <2>1. r[1] + 1 \in Nat /\ r[2] + 1 \in Nat /\ r[1] + 1 <= r[2] + 1
    BY <1>1
  <2>2. QED BY <2>1, PairIsRange DEF Up
<1>4. QED BY <1>1, <1>2, <1>3 DEF Width, Cells

LEMMA UpOnce ==
  ASSUME NEW r \in AddressRange, NEW s \in AddressRange, Up(r) = Up(s)
  PROVE  r = s
<1>1. r[1] + 1 = s[1] + 1 /\ r[2] + 1 = s[2] + 1
  BY UpRange
<1>2. r[1] = s[1] /\ r[2] = s[2]
  BY <1>1, RangeType
<1>3. QED BY <1>2, RangeType

LEMMA UpInside ==
  ASSUME NEW r \in AddressRange, NEW s \in AddressRange
  PROVE  Cells(Up(r)) \subseteq Cells(Up(s)) <=> Cells(r) \subseteq Cells(s)
<1>1. \A a \in Cells(r) : a \in Int
  BY DEF Cells
<1>2. ASSUME Cells(Up(r)) \subseteq Cells(Up(s)), NEW a \in Cells(r) PROVE a \in Cells(s)
  BY <1>1, <1>2, UpRange
<1>3. ASSUME Cells(r) \subseteq Cells(s), NEW a \in Cells(Up(r)) PROVE a \in Cells(Up(s))
  <2>1. a - 1 \in Cells(r) /\ a \in Nat
    BY UpRange
  <2>2. a - 1 \in Cells(s) /\ a - 1 \in Int /\ a = (a - 1) + 1
    BY <1>3, <2>1
  <2>3. QED BY <2>2, UpRange
<1>4. QED BY <1>2, <1>3

LEMMA UpCells ==
  ASSUME NEW ranges, ranges \subseteq AddressRange
  PROVE  AllCells(UpAll(ranges)) = Plus(AllCells(ranges))
<1>1. ASSUME NEW a \in AllCells(UpAll(ranges)) PROVE a \in Plus(AllCells(ranges))
  <2>1. PICK r \in ranges : a \in Cells(Up(r))
    BY DEF AllCells, UpAll
  <2>2. a - 1 \in Cells(r) /\ a = (a - 1) + 1
    BY <2>1, UpRange
  <2>3. a - 1 \in AllCells(ranges)
    BY <2>2 DEF AllCells
  <2>4. QED BY <2>2, <2>3 DEF Plus
<1>2. ASSUME NEW a \in AllCells(ranges) PROVE a + 1 \in AllCells(UpAll(ranges))
  <2>1. PICK r \in ranges : a \in Cells(r)
    BY DEF AllCells
  <2>2. a \in Int
    BY <2>1 DEF Cells
  <2>3. a + 1 \in Cells(Up(r))
    BY <2>1, <2>2, UpRange
  <2>4. QED BY <2>3 DEF AllCells, UpAll
<1>3. QED BY <1>1, <1>2 DEF Plus

LEMMA UpRanges ==
  ASSUME NEW ranges, ranges \subseteq AddressRange
  PROVE  /\ UpAll(ranges) \subseteq AddressRange
         /\ \A r \in AddressRange : Up(r) \in UpAll(ranges) <=> r \in ranges
         /\ IsFiniteSet(ranges) => IsFiniteSet(UpAll(ranges))
<1>1. UpAll(ranges) \subseteq AddressRange
  BY UpRange DEF UpAll
<1>2. \A r \in AddressRange : Up(r) \in UpAll(ranges) <=> r \in ranges
  BY UpOnce DEF UpAll
<1>3. ASSUME IsFiniteSet(ranges) PROVE IsFiniteSet(UpAll(ranges))
  <2> DEFINE f == [r \in ranges |-> Up(r)]
  <2>1. IsFiniteSet({f[r] : r \in DOMAIN f})
    BY <1>3, ImageIsFinite
  <2>2. {f[r] : r \in DOMAIN f} = UpAll(ranges)
    BY DEF UpAll
  <2>3. QED BY <2>1, <2>2
<1>4. QED BY <1>1, <1>2, <1>3

LEMMA UpSets ==
  ASSUME NEW ranges \in RangeSets
  PROVE  UpAll(ranges) \in RangeSets
BY UpRanges DEF RangeSets, AddressRange

\* Whatever sets of ranges are equal one address further on, are equal.
LEMMA UpEqual ==
  ASSUME NEW a, NEW b, a \subseteq AddressRange, b \subseteq AddressRange
  PROVE  UpAll(a) = UpAll(b) <=> a = b
<1>1. \A r \in AddressRange : (Up(r) \in UpAll(a) <=> r \in a) /\ (Up(r) \in UpAll(b) <=> r \in b)
  BY UpRanges
<1>2. ASSUME UpAll(a) = UpAll(b) PROVE a = b
  BY <1>1, <1>2
<1>3. QED BY <1>2

LEMMA UpValid ==
  ASSUME NEW ranges, ranges \subseteq AddressRange
  PROVE  Valid(UpAll(ranges)) <=> Valid(ranges)
<1>1. ASSUME NEW r \in ranges, NEW s \in ranges
      PROVE  /\ Up(r) # Up(s) <=> r # s
             /\ Cells(Up(r)) \cap Cells(Up(s)) = {} <=> Cells(r) \cap Cells(s) = {}
  <2>1. r \in AddressRange /\ s \in AddressRange
    OBVIOUS
  <2>2. Up(r) # Up(s) <=> r # s
    BY <2>1, UpOnce
  <2>3. ASSUME NEW a \in Cells(r) \cap Cells(s) PROVE a + 1 \in Cells(Up(r)) \cap Cells(Up(s))
    <3>1. a \in Int
      BY DEF Cells
    <3>2. QED BY <2>1, <3>1, UpRange
  <2>4. ASSUME NEW a \in Cells(Up(r)) \cap Cells(Up(s)) PROVE a - 1 \in Cells(r) \cap Cells(s)
    BY <2>1, UpRange
  <2>5. QED BY <2>2, <2>3, <2>4
<1>2. QED BY <1>1 DEF Valid, UpAll

-----------------------------------------------------------------------------

LEMMA PlusCells ==
  ASSUME NEW cells, cells \subseteq Nat
  PROVE  /\ Plus(cells) \subseteq Nat
         /\ \A a \in Int : a + 1 \in Plus(cells) <=> a \in cells
         /\ \A a \in Plus(cells) : a - 1 \in cells
<1>1. \A a \in Plus(cells) : a \in Nat /\ a - 1 \in cells
  BY DEF Plus
<1>2. \A a \in Int : a + 1 \in Plus(cells) <=> a \in cells
  BY DEF Plus
<1>3. QED BY <1>1, <1>2

LEMMA UpRun ==
  ASSUME NEW cells, cells \subseteq Nat, NEW cuts, cuts \subseteq Nat,
         NEW a \in cells, NEW b \in cells
  PROVE  <<a + 1, b + 1>> \in Runs(Plus(cells), Plus(cuts)) <=> <<a, b>> \in Runs(cells, cuts)
<1> DEFINE more == Plus(cells)
           ends == Plus(cuts)
<1>1. /\ \A x \in Int : x + 1 \in more <=> x \in cells
      /\ \A x \in Int : x + 1 \in ends <=> x \in cuts
      /\ more \subseteq Nat /\ ends \subseteq Nat
      /\ \A x \in more : x - 1 \in cells
      /\ \A x \in ends : x - 1 \in cuts
  BY PlusCells
<1> HIDE DEF more, ends
<1>2. a \in Nat /\ b \in Nat /\ a + 1 \in more /\ b + 1 \in more
  BY <1>1
<1>3. Cells(<<a + 1, b + 1>>) \subseteq more <=> Cells(<<a, b>>) \subseteq cells
  <2>1. ASSUME Cells(<<a + 1, b + 1>>) \subseteq more, NEW x \in Cells(<<a, b>>) PROVE x \in cells
    <3>1. x \in Int /\ x + 1 \in Cells(<<a + 1, b + 1>>)
      BY <1>2 DEF Cells
    <3>2. QED BY <1>1, <2>1, <3>1
  <2>2. ASSUME Cells(<<a, b>>) \subseteq cells, NEW x \in Cells(<<a + 1, b + 1>>) PROVE x \in more
    <3>1. x \in Int /\ x - 1 \in Int /\ x - 1 \in Cells(<<a, b>>) /\ (x - 1) + 1 = x
      BY <1>2 DEF Cells
    <3>2. QED BY <1>1, <2>2, <3>1
  <2>3. QED BY <2>1, <2>2
<1>4. /\ (a + 1) - 1 \in more <=> a - 1 \in cells
      /\ a + 1 \in ends <=> a \in cuts
  <2>1. (a + 1) - 1 = (a - 1) + 1 /\ a - 1 \in Int /\ a \in Int
    BY <1>2
  <2>2. QED BY <1>1, <2>1
<1>5. /\ (b + 1) + 1 \in more <=> b + 1 \in cells
      /\ (b + 1) + 1 \in ends <=> b + 1 \in cuts
  <2>1. b + 1 \in Int
    BY <1>2
  <2>2. QED BY <1>1, <2>1
<1>6. ends \cap ((a + 1) + 1 .. b + 1) = {} <=> cuts \cap (a + 1 .. b) = {}
  <2>1. ASSUME NEW x \in cuts \cap (a + 1 .. b) PROVE x + 1 \in ends \cap ((a + 1) + 1 .. b + 1)
    <3>1. x \in Int /\ x + 1 \in (a + 1) + 1 .. b + 1
      BY <1>2
    <3>2. QED BY <1>1, <3>1
  <2>2. ASSUME NEW x \in ends \cap ((a + 1) + 1 .. b + 1) PROVE x - 1 \in cuts \cap (a + 1 .. b)
    <3>1. x \in Int /\ x - 1 \in a + 1 .. b
      BY <1>2
    <3>2. QED BY <1>1, <3>1
  <2>3. QED BY <2>1, <2>2
<1>7. a + 1 <= b + 1 <=> a <= b
  BY <1>2
<1>8. QED BY <1>2, <1>3, <1>4, <1>5, <1>6, <1>7 DEF Runs, more, ends

LEMMA UpRuns ==
  ASSUME NEW cells, cells \subseteq Nat, NEW cuts, cuts \subseteq Nat
  PROVE  Runs(Plus(cells), Plus(cuts)) = UpAll(Runs(cells, cuts))
<1>1. ASSUME NEW q \in Runs(Plus(cells), Plus(cuts)) PROVE q \in UpAll(Runs(cells, cuts))
  <2>1. q \in Plus(cells) \X Plus(cells)
    BY DEF Runs
  <2>2. PICK a \in cells, b \in cells : q = <<a + 1, b + 1>>
    BY <2>1 DEF Plus
  <2>3. <<a, b>> \in Runs(cells, cuts)
    BY <2>2, UpRun
  <2>4. q = Up(<<a, b>>)
    BY <2>2 DEF Up
  <2>5. QED BY <2>3, <2>4 DEF UpAll
<1>2. ASSUME NEW r \in Runs(cells, cuts) PROVE Up(r) \in Runs(Plus(cells), Plus(cuts))
  <2>1. r \in cells \X cells
    BY DEF Runs
  <2>2. r[1] \in cells /\ r[2] \in cells /\ r = <<r[1], r[2]>>
    BY <2>1
  <2>3. <<r[1] + 1, r[2] + 1>> \in Runs(Plus(cells), Plus(cuts))
    BY <2>2, UpRun
  <2>4. QED BY <2>3 DEF Up
<1>3. QED BY <1>1, <1>2 DEF UpAll

LEMMA UpCoalesce ==
  ASSUME NEW ranges \in RangeSets
  PROVE  Coalesce(UpAll(ranges)) = UpAll(Coalesce(ranges))
<1>1. AllCells(ranges) \subseteq Nat
  BY CellsAreFinite
<1>2. AllCells(UpAll(ranges)) = Plus(AllCells(ranges))
  BY UpCells DEF RangeSets
<1>3. Plus({}) = {} /\ {} \subseteq Nat
  BY DEF Plus
<1>4. Runs(Plus(AllCells(ranges)), Plus({})) = UpAll(Runs(AllCells(ranges), {}))
  BY <1>1, <1>3, UpRuns
<1>5. QED BY <1>2, <1>3, <1>4 DEF Coalesce

LEMMA UpEdges ==
  ASSUME NEW ranges, ranges \subseteq AddressRange
  PROVE  Edges(UpAll(ranges)) = Plus(Edges(ranges)) /\ Edges(ranges) \subseteq Nat
<1>1. \A r \in ranges : r[1] \in Nat /\ r[2] \in Nat /\ Up(r)[1] = r[1] + 1 /\ Up(r)[2] = r[2] + 1
  BY UpRange, RangeType
<1>2. ASSUME NEW r \in ranges PROVE {Up(r)[1], Up(r)[2] + 1} = Plus({r[1], r[2] + 1})
  BY <1>1 DEF Plus
<1>3. Edges(ranges) \subseteq Nat
  BY <1>1 DEF Edges
<1>4. ASSUME NEW e \in Edges(UpAll(ranges)) PROVE e \in Plus(Edges(ranges))
  <2>1. PICK r \in ranges : e \in {Up(r)[1], Up(r)[2] + 1}
    BY DEF Edges, UpAll
  <2>2. QED BY <1>2, <2>1 DEF Edges, Plus
<1>5. ASSUME NEW e \in Edges(ranges) PROVE e + 1 \in Edges(UpAll(ranges))
  <2>1. PICK r \in ranges : e \in {r[1], r[2] + 1}
    BY DEF Edges
  <2>2. e + 1 \in {Up(r)[1], Up(r)[2] + 1}
    BY <1>2, <2>1 DEF Plus
  <2>3. QED BY <2>2 DEF Edges, UpAll
<1>6. QED BY <1>3, <1>4, <1>5 DEF Plus

\* One space's map, moved.
LEMMA UpMapType ==
  ASSUME NEW p \in SpaceMaps
  PROVE  /\ UpMap(p) \in SpaceMaps /\ UpMap(p) # None /\ UpMap(p) # Refused
         /\ UpMap(p).ranges = UpAll(p.ranges) /\ UpMap(p).declared = p.declared
         /\ UpMap(p) = [ranges |-> UpAll(p.ranges), declared |-> p.declared]
<1>1. /\ p.ranges \in RangeSets /\ p.declared \in BOOLEAN
      /\ p = [ranges |-> p.ranges, declared |-> p.declared]
  BY SpaceMapType
<1>2. UpMap(p) = [ranges |-> UpAll(p.ranges), declared |-> p.declared]
  BY <1>1 DEF UpMap
<1>3. UpMap(p) \in SpaceMaps
  BY <1>1, <1>2, UpSets, IsSpaceMap
<1>4. QED BY <1>2, <1>3, SpaceMapType

\* A merge of moved maps is the merge, moved.
LEMMA UpMergedSpace ==
  ASSUME NEW parts, IsFiniteSet(parts), parts \subseteq SpaceMaps
  PROVE  MergedSpace({UpMap(p) : p \in parts}) =
           IF MergedSpace(parts) \in {None, Refused} THEN MergedSpace(parts)
           ELSE UpMap(MergedSpace(parts))
<1> DEFINE moved == {UpMap(p) : p \in parts}
           declared == {p.ranges : p \in {q \in parts : q.declared}}
           joint == UNION {Coalesce(rs) : rs \in declared}
           claimed == UNION {p.ranges : p \in {q \in parts : ~q.declared}}
           cuts == UNION {Edges(rs) : rs \in declared}
           mDeclared == {p.ranges : p \in {q \in moved : q.declared}}
           mJoint == UNION {Coalesce(rs) : rs \in mDeclared}
           mClaimed == UNION {p.ranges : p \in {q \in moved : ~q.declared}}
           mCuts == UNION {Edges(rs) : rs \in mDeclared}
<1>1. \A p \in parts : /\ p.ranges \in RangeSets /\ p.ranges \subseteq AddressRange
                       /\ UpMap(p).ranges = UpAll(p.ranges) /\ UpMap(p).declared = p.declared
  BY UpMapType, SpaceMapType DEF RangeSets
<1>2. mDeclared = {UpAll(rs) : rs \in declared}
  <2>1. \A p \in parts : p.declared => UpAll(p.ranges) \in mDeclared
    BY <1>1
  <2>2. \A rs \in mDeclared : \E p \in parts : p.declared /\ rs = UpAll(p.ranges)
    BY <1>1
  <2>3. QED BY <2>1, <2>2
<1>3. mClaimed = UpAll(claimed)
  <2>1. ASSUME NEW r \in mClaimed PROVE r \in UpAll(claimed)
    <3>1. PICK p \in parts : ~UpMap(p).declared /\ r \in UpMap(p).ranges
      OBVIOUS
    <3>2. ~p.declared /\ r \in UpAll(p.ranges)
      BY <1>1, <3>1
    <3>3. QED BY <3>2 DEF UpAll
  <2>2. ASSUME NEW r \in claimed PROVE Up(r) \in mClaimed
    <3>1. PICK p \in parts : ~p.declared /\ r \in p.ranges
      OBVIOUS
    <3>2. ~UpMap(p).declared /\ Up(r) \in UpMap(p).ranges
      BY <1>1, <3>1 DEF UpAll
    <3>3. QED BY <3>2
  <2>3. QED BY <2>1, <2>2 DEF UpAll
<1>4. \A rs \in declared : rs \in RangeSets /\ rs \subseteq AddressRange
  BY <1>1
<1>5. claimed \subseteq AddressRange
  BY <1>1
<1> HIDE DEF declared, mDeclared, claimed, mClaimed
<1>6. \A rs \in declared : /\ Coalesce(UpAll(rs)) = UpAll(Coalesce(rs))
                           /\ Coalesce(rs) \in RangeSets /\ Coalesce(rs) \subseteq AddressRange
                           /\ Edges(UpAll(rs)) = Plus(Edges(rs)) /\ Edges(rs) \subseteq Nat
  <2>1. \A rs \in declared : Coalesce(rs) \in RangeSets
    BY <1>4, CellsAreFinite, RunsType DEF Coalesce
  <2>2. QED BY <1>4, <2>1, UpCoalesce, UpEdges DEF RangeSets
<1>7. mJoint = UpAll(joint) /\ joint \subseteq AddressRange
  <2>1. ASSUME NEW r \in mJoint PROVE r \in UpAll(joint)
    <3>1. PICK rs \in declared : r \in UpAll(Coalesce(rs))
      BY <1>2, <1>6
    <3>2. QED BY <3>1 DEF UpAll
  <2>2. ASSUME NEW r \in joint PROVE Up(r) \in mJoint
    <3>1. PICK rs \in declared : r \in Coalesce(rs)
      OBVIOUS
    <3>2. Up(r) \in Coalesce(UpAll(rs)) /\ UpAll(rs) \in mDeclared
      BY <1>2, <1>6, <3>1 DEF UpAll
    <3>3. QED BY <3>2
  <2>3. joint \subseteq AddressRange
    BY <1>6
  <2> HIDE DEF joint, mJoint
  <2>4. QED BY <2>1, <2>2, <2>3 DEF UpAll
<1>8. mCuts = Plus(cuts) /\ cuts \subseteq Nat
  <2>1. ASSUME NEW e \in mCuts PROVE e \in Plus(cuts)
    <3>1. PICK rs \in declared : e \in Plus(Edges(rs))
      BY <1>2, <1>6
    <3>2. QED BY <3>1 DEF Plus
  <2>2. ASSUME NEW e \in cuts PROVE e + 1 \in mCuts
    <3>1. PICK rs \in declared : e \in Edges(rs)
      OBVIOUS
    <3>2. e + 1 \in Edges(UpAll(rs)) /\ UpAll(rs) \in mDeclared
      BY <1>2, <1>6, <3>1 DEF Plus
    <3>3. QED BY <3>2
  <2>3. cuts \subseteq Nat
    BY <1>6
  <2> HIDE DEF cuts, mCuts
  <2>4. QED BY <2>1, <2>2, <2>3 DEF Plus
<1>9. (mDeclared # {}) = (declared # {})
  BY <1>2
<1>10. Valid(mJoint) <=> Valid(joint)
  BY <1>7, UpValid
<1> HIDE DEF joint, mJoint, cuts, mCuts
<1>11. AllCells(mJoint \cup mClaimed) = Plus(AllCells(joint \cup claimed))
  <2>1. mJoint \cup mClaimed = UpAll(joint \cup claimed)
    BY <1>3, <1>7 DEF UpAll
  <2>2. joint \cup claimed \subseteq AddressRange
    BY <1>5, <1>7
  <2>3. QED BY <2>1, <2>2, UpCells
<1>12. AllCells(joint \cup claimed) \subseteq Nat
  <2>1. \A r \in joint \cup claimed : Cells(r) \subseteq Nat
    BY <1>5, <1>7, RangeType DEF Cells
  <2>2. QED BY <2>1 DEF AllCells
<1> DEFINE runs == Runs(AllCells(joint \cup claimed), cuts)
           mRuns == Runs(AllCells(mJoint \cup mClaimed), mCuts)
<1>13. mRuns = UpAll(runs)
  BY <1>8, <1>11, <1>12, UpRuns
<1>14. MergedSpace(parts) = IF parts = {} THEN None ELSE IF ~Valid(joint) THEN Refused
                            ELSE [ranges |-> runs, declared |-> declared # {}]
  BY DEF MergedSpace, declared, joint, claimed, cuts
<1>15. MergedSpace(moved) = IF moved = {} THEN None ELSE IF ~Valid(mJoint) THEN Refused
                            ELSE [ranges |-> mRuns, declared |-> mDeclared # {}]
  BY DEF MergedSpace, mDeclared, mJoint, mClaimed, mCuts
<1> HIDE DEF runs, mRuns
<1>16. moved = {} <=> parts = {}
  OBVIOUS
<1> HIDE DEF moved
<1>17. MergedSpace(parts) \in SpaceMaps \cup {None, Refused}
  BY MergedSpaceKeeps
<1>18. CASE parts = {}
  BY <1>14, <1>15, <1>16, <1>18 DEF moved
<1>19. CASE parts # {} /\ ~Valid(joint)
  BY <1>10, <1>14, <1>15, <1>16, <1>19 DEF moved
<1>20. CASE parts # {} /\ Valid(joint)
  <2> DEFINE merged == MergedSpace(parts)
  <2>1. merged = [ranges |-> runs, declared |-> declared # {}]
    BY <1>14, <1>20
  <2>2. MergedSpace(moved) = [ranges |-> UpAll(runs), declared |-> declared # {}]
    BY <1>9, <1>10, <1>13, <1>15, <1>16, <1>20
  <2>3. UpMap(merged) = [ranges |-> UpAll(runs), declared |-> declared # {}]
    BY <2>1 DEF UpMap
  <2>4. merged \notin {None, Refused}
    <3>1. merged # Refused
      BY <1>20, MergedSpaceType DEF joint, declared
    <3>2. QED BY <1>20, <3>1, MergedSpaceKeeps
  <2>5. QED BY <2>2, <2>3, <2>4 DEF moved
<1>21. QED BY <1>18, <1>19, <1>20

UpMaps(map) == IF map = Refused THEN Refused ELSE Shifted(map, 1)

LEMMA UpMapsType ==
  ASSUME NEW map \in DeviceMaps
  PROVE  /\ UpMaps(map) = Shifted(map, 1) /\ UpMaps(map) \in DeviceMaps /\ UpMaps(map) # Refused
         /\ UpMaps(map) = [s \in Spaces |-> UpMaps(map)[s]]
         /\ \A s \in Spaces : UpMaps(map)[s] = IF map[s] = None THEN None ELSE UpMap(map[s])
<1>1. UpMaps(map) = Shifted(map, 1)
  BY DeviceMapType DEF UpMaps
<1>2. Shifted(map, 1) = [s \in Spaces |-> IF map[s] = None THEN None ELSE UpMap(map[s])]
  BY DEF Shifted, UpMap, UpAll, Up
<1> DEFINE new == [s \in Spaces |-> IF map[s] = None THEN None ELSE UpMap(map[s])]
<1>3. \A s \in Spaces : new[s] \in SpaceMaps \cup {None}
  BY DeviceMapType, UpMapType
<1>4. new \in DeviceMaps
  BY <1>3 DEF DeviceMaps
<1>5. QED BY <1>1, <1>2, <1>4, DeviceMapType

LEMMA UpMapsRefused == UpMaps(Refused) = Refused
BY DEF UpMaps

LEMMA UpMerged ==
  ASSUME NEW maps, IsFiniteSet(maps), maps \subseteq DeviceMaps \cup {Refused}
  PROVE  Merged({UpMaps(m) : m \in maps}) = UpMaps(Merged(maps))
<1> DEFINE moved == {UpMaps(m) : m \in maps}
           part(s) == {m[s] : m \in maps} \ {None}
           mPart(s) == {m[s] : m \in moved} \ {None}
           merge == [s \in Spaces |-> MergedSpace(part(s))]
           mMerge == [s \in Spaces |-> MergedSpace(mPart(s))]
<1>1. Refused \in moved <=> Refused \in maps
  BY UpMapsType, UpMapsRefused
<1>2. Merged(maps) = IF Refused \in maps \/ \E s \in Spaces : merge[s] = Refused THEN Refused ELSE merge
  BY DEF Merged
<1>3. Merged(moved) = IF Refused \in moved \/ \E s \in Spaces : mMerge[s] = Refused THEN Refused ELSE mMerge
  BY DEF Merged
<1>4. CASE Refused \in maps
  BY <1>1, <1>2, <1>3, <1>4, UpMapsRefused
<1>5. CASE Refused \notin maps
  <2>1. \A m \in maps : m \in DeviceMaps
    BY <1>5
  <2>2. ASSUME NEW s \in Spaces
        PROVE  /\ merge[s] \in SpaceMaps \cup {None, Refused}
               /\ mMerge[s] = IF merge[s] \in {None, Refused} THEN merge[s] ELSE UpMap(merge[s])
    <3>1. part(s) \subseteq SpaceMaps
      BY <2>1, DeviceMapType
    <3>2. IsFiniteSet(part(s))
      <4> DEFINE f == [m \in maps |-> m[s]]
      <4>1. IsFiniteSet({f[m] : m \in DOMAIN f})
        BY ImageIsFinite
      <4>2. {f[m] : m \in DOMAIN f} = {m[s] : m \in maps}
        OBVIOUS
      <4>3. QED BY <4>1, <4>2, FS_Subset
    <3>3. mPart(s) = {UpMap(p) : p \in part(s)}
      <4>1. \A m \in maps : UpMaps(m)[s] = IF m[s] = None THEN None ELSE UpMap(m[s])
        BY <2>1, UpMapsType
      <4>2. \A m \in maps : m[s] # None => UpMap(m[s]) # None
        BY <2>1, DeviceMapType, UpMapType
      <4>3. ASSUME NEW p \in mPart(s) PROVE p \in {UpMap(q) : q \in part(s)}
        <5>1. PICK m \in maps : p = UpMaps(m)[s] /\ p # None
          OBVIOUS
        <5>2. m[s] # None /\ p = UpMap(m[s])
          BY <4>1, <5>1
        <5>3. QED BY <5>2
      <4>4. ASSUME NEW q \in part(s) PROVE UpMap(q) \in mPart(s)
        <5>1. PICK m \in maps : q = m[s] /\ q # None
          OBVIOUS
        <5>2. UpMaps(m)[s] = UpMap(q) /\ UpMap(q) # None
          BY <4>1, <4>2, <5>1
        <5>3. QED BY <5>2
      <4> HIDE DEF part, mPart
      <4>5. QED BY <4>3, <4>4
    <3>4. merge[s] = MergedSpace(part(s)) /\ mMerge[s] = MergedSpace(mPart(s))
      OBVIOUS
    <3> HIDE DEF part, mPart, merge, mMerge
    <3>5. merge[s] \in SpaceMaps \cup {None, Refused}
      BY <3>1, <3>2, <3>4, MergedSpaceKeeps
    <3>6. QED BY <3>1, <3>2, <3>3, <3>4, <3>5, UpMergedSpace
  <2>3. merge = [s \in Spaces |-> merge[s]] /\ mMerge = [s \in Spaces |-> mMerge[s]]
    OBVIOUS
  <2> HIDE DEF merge, mMerge, moved
  <2>4. \A s \in Spaces : mMerge[s] = Refused <=> merge[s] = Refused
    BY <2>2, UpMapType, PlanningAssumption
  <2>5. CASE \E s \in Spaces : merge[s] = Refused
    BY <1>2, <1>3, <2>4, <2>5, UpMapsRefused DEF moved
  <2>6. CASE \A s \in Spaces : merge[s] # Refused
    <3>1. Merged(maps) = merge /\ Merged(moved) = mMerge
      BY <1>1, <1>2, <1>3, <1>5, <2>4, <2>6
    <3>2. merge \in DeviceMaps
      BY <2>2, <2>3, <2>6 DEF DeviceMaps
    <3>3. \A s \in Spaces : UpMaps(merge)[s] = mMerge[s]
      BY <2>2, <2>6, <3>2, UpMapsType
    <3>4. UpMaps(merge) = mMerge
      BY <2>3, <3>2, <3>3, UpMapsType
    <3>5. QED BY <3>1, <3>4 DEF moved
  <2>7. QED BY <2>5, <2>6
<1>6. QED BY <1>4, <1>5

-----------------------------------------------------------------------------
LEMMA UpFirst ==
  ASSUME NEW S, S \subseteq AddressRange, S # {}
  PROVE  First(UpAll(S)) = Up(First(S)) /\ First(S) \in S
<1>1. First(S) \in S /\ \A s \in S : ~Earlier(s, First(S))
  BY FirstIsFirst
<1>2. UpAll(S) \subseteq AddressRange /\ UpAll(S) # {}
  BY <1>1, UpRanges DEF UpAll
<1>3. Up(First(S)) \in UpAll(S)
  BY <1>1 DEF UpAll
<1>4. ASSUME NEW s \in UpAll(S) PROVE ~Earlier(s, Up(First(S)))
  <2>1. PICK x \in S : s = Up(x)
    BY DEF UpAll
  <2>2. /\ x[1] \in Nat /\ x[2] \in Nat /\ s[1] = x[1] + 1 /\ s[2] = x[2] + 1
        /\ First(S)[1] \in Nat /\ First(S)[2] \in Nat
        /\ Up(First(S))[1] = First(S)[1] + 1 /\ Up(First(S))[2] = First(S)[2] + 1
    BY <1>1, <2>1, UpRange, RangeType
  <2>3. ~Earlier(x, First(S))
    BY <1>1
  <2>4. QED BY <2>2, <2>3 DEF Earlier
<1>5. QED BY <1>1, <1>2, <1>3, <1>4, FirstIsFirst

LEMMA UpCardinality ==
  ASSUME NEW S, S \subseteq AddressRange, IsFiniteSet(S)
  PROVE  IsFiniteSet(UpAll(S)) /\ Cardinality(UpAll(S)) = Cardinality(S)
<1> DEFINE f == [r \in S |-> Up(r)]
<1>1. f \in [S -> UpAll(S)]
  BY DEF UpAll
<1>2. \A a, b \in S : f[a] = f[b] => a = b
  BY UpOnce
<1>3. \A t \in UpAll(S) : \E s \in S : f[s] = t
  BY DEF UpAll
<1> HIDE DEF f
<1>4. f \in Bijection(S, UpAll(S))
  BY <1>1, <1>2, <1>3 DEF Bijection, Injection, Surjection, IsInjective
<1>5. QED BY <1>4, FS_Bijection DEF ExistsBijection

LEMMA UpLess ==
  ASSUME NEW S, S \subseteq AddressRange, NEW r \in AddressRange
  PROVE  UpAll(S \ {r}) = UpAll(S) \ {Up(r)} /\ UpAll(S \cup {r}) = UpAll(S) \cup {Up(r)}
<1>1. \A x \in S : Up(x) = Up(r) <=> x = r
  BY UpOnce
<1>2. QED BY <1>1 DEF UpAll

\* One space's map or None, moved.
UpOrNone(map) == IF map = None THEN None ELSE UpMap(map)

MapOrNone(map) == map # None => map \in SpaceMaps

LEMMA UpOrNoneType ==
  ASSUME NEW map, MapOrNone(map)
  PROVE  /\ UpOrNone(map) = None <=> map = None
         /\ map # None => /\ UpOrNone(map).ranges = UpAll(map.ranges)
                          /\ map.ranges \in RangeSets /\ map.ranges \subseteq AddressRange
         /\ MapOrNone(UpOrNone(map))
BY UpMapType, SpaceMapType DEF UpOrNone, MapOrNone, RangeSets

LEMMA UpRangeOf ==
  ASSUME NEW ranges, ranges \subseteq AddressRange, NEW a \in Nat
  PROVE  RangeOf(a + 1, UpAll(ranges)) = UpAll(RangeOf(a, ranges))
<1>1. \A r \in ranges : a + 1 \in Cells(Up(r)) <=> a \in Cells(r)
  BY UpRange
<1>2. QED BY <1>1 DEF RangeOf, UpAll

LEMMA UpJoins ==
  ASSUME NEW block \in AddressRange, NEW cells \in AddressRange, NEW map, MapOrNone(map),
         NEW gap, NEW limit
  PROVE  Joins(Up(block), Up(cells), UpOrNone(map), gap, limit) <=> Joins(block, cells, map, gap, limit)
<1>1. /\ block[1] \in Nat /\ block[2] \in Nat /\ cells[1] \in Nat /\ cells[2] \in Nat
      /\ Up(block)[1] = block[1] + 1 /\ Up(block)[2] = block[2] + 1
      /\ Up(cells)[1] = cells[1] + 1 /\ Up(cells)[2] = cells[2] + 1
  BY RangeType, UpRange
<1>2. /\ Up(cells)[1] - Up(block)[2] = cells[1] - block[2]
      /\ Up(cells)[2] - Up(block)[1] + 1 = cells[2] - block[1] + 1
  BY <1>1
<1>3. CASE map = None
  BY <1>2, <1>3, UpOrNoneType DEF Joins
<1>4. CASE map # None
  <2> DEFINE rs == map.ranges
  <2>1. UpOrNone(map) # None /\ UpOrNone(map).ranges = UpAll(rs) /\ rs \subseteq AddressRange
    BY <1>4, UpOrNoneType
  <2>2. /\ RangeOf(Up(cells)[1], UpAll(rs)) = UpAll(RangeOf(cells[1], rs))
        /\ RangeOf(Up(block)[1], UpAll(rs)) = UpAll(RangeOf(block[1], rs))
    BY <1>1, <2>1, UpRangeOf
  <2>3. RangeOf(cells[1], rs) \subseteq AddressRange /\ RangeOf(block[1], rs) \subseteq AddressRange
    BY <2>1 DEF RangeOf
  <2>4. UpAll(RangeOf(cells[1], rs)) = UpAll(RangeOf(block[1], rs))
          <=> RangeOf(cells[1], rs) = RangeOf(block[1], rs)
    BY <2>3, UpEqual
  <2>5. QED BY <1>2, <1>4, <2>1, <2>2, <2>4 DEF Joins
<1>5. QED BY <1>3, <1>4

UpLoop(l) == [rest |-> UpAll(l.rest), done |-> UpAll(l.done), block |-> Up(l.block)]

LEMMA UpBegun ==
  ASSUME NEW spans, spans \subseteq AddressRange, spans # {}
  PROVE  Begun(UpAll(spans)) = UpLoop(Begun(spans))
<1>1. First(UpAll(spans)) = Up(First(spans)) /\ First(spans) \in AddressRange
  BY UpFirst
<1>2. UpAll(spans \ {First(spans)}) = UpAll(spans) \ {Up(First(spans))}
  BY <1>1, UpLess
<1>3. UpAll({}) = {}
  BY DEF UpAll
<1>4. QED BY <1>1, <1>2, <1>3 DEF Begun, UpLoop

LEMMA UpNextSpan ==
  ASSUME NEW loop, loop.rest \subseteq AddressRange, loop.rest # {},
         loop.done \subseteq AddressRange, loop.block \in AddressRange,
         NEW map, MapOrNone(map), NEW gap, NEW limit
  PROVE  NextSpan(UpLoop(loop), UpOrNone(map), gap, limit) = UpLoop(NextSpan(loop, map, gap, limit))
<1> DEFINE cells == First(loop.rest)
           joins == Joins(loop.block, cells, map, gap, limit)
           wider == <<loop.block[1], Max({loop.block[2], cells[2]})>>
<1>1. cells \in AddressRange /\ First(UpAll(loop.rest)) = Up(cells)
  BY UpFirst
<1>2. Joins(Up(loop.block), Up(cells), UpOrNone(map), gap, limit) <=> joins
  BY <1>1, UpJoins
<1>3. <<Up(loop.block)[1], Max({Up(loop.block)[2], Up(cells)[2]})>> = Up(wider)
  <2>1. /\ loop.block[1] \in Nat /\ loop.block[2] \in Nat /\ cells[2] \in Nat
        /\ Up(loop.block)[1] = loop.block[1] + 1 /\ Up(loop.block)[2] = loop.block[2] + 1
        /\ Up(cells)[2] = cells[2] + 1
    BY <1>1, RangeType, UpRange
  <2> DEFINE x == loop.block[2]
             y == cells[2]
  <2>2. Max({x, y}) = (IF x < y THEN y ELSE x) /\ Max({x + 1, y + 1}) = (IF x + 1 < y + 1 THEN y + 1 ELSE x + 1)
    BY <2>1, MaxOfTwo
  <2>3. Max({x + 1, y + 1}) = Max({x, y}) + 1
    BY <2>1, <2>2
  <2>4. wider[1] = loop.block[1] /\ wider[2] = Max({x, y})
    OBVIOUS
  <2> HIDE DEF wider, x, y
  <2>5. QED BY <2>1, <2>3, <2>4 DEF Up, x, y
<1>4. /\ UpAll(loop.rest \ {cells}) = UpAll(loop.rest) \ {Up(cells)}
      /\ UpAll(loop.done \cup {loop.block}) = UpAll(loop.done) \cup {Up(loop.block)}
  BY <1>1, UpLess
<1>5. /\ UpLoop(loop).rest = UpAll(loop.rest) /\ UpLoop(loop).done = UpAll(loop.done)
      /\ UpLoop(loop).block = Up(loop.block)
  BY DEF UpLoop
<1>6. NextSpan(loop, map, gap, limit) =
        [rest |-> loop.rest \ {cells}, done |-> IF joins THEN loop.done ELSE loop.done \cup {loop.block},
         block |-> IF joins THEN wider ELSE cells]
  BY DEF NextSpan
<1>7. NextSpan(UpLoop(loop), UpOrNone(map), gap, limit) =
        [rest |-> UpAll(loop.rest) \ {Up(cells)},
         done |-> IF joins THEN UpAll(loop.done) ELSE UpAll(loop.done) \cup {Up(loop.block)},
         block |-> IF joins THEN Up(wider) ELSE Up(cells)]
  BY <1>1, <1>2, <1>3, <1>5 DEF NextSpan
<1> HIDE DEF cells, joins, wider
<1>8. QED BY <1>4, <1>6, <1>7 DEF UpLoop

\* The spans moved are built into the blocks, moved, round by round.
LEMMA UpBlocks ==
  ASSUME NEW spans, spans \subseteq AddressRange, IsFiniteSet(spans),
         NEW map, MapOrNone(map), map # None => Valid(map.ranges),
         NEW gap, NEW limit \in Nat, \A r \in spans : Fits(r, map, limit)
  PROVE  Blocks(UpAll(spans), UpOrNone(map), gap, limit) = UpAll(Blocks(spans, map, gap, limit))
<1>1. CASE spans = {}
  <2>1. UpAll({}) = {}
    BY DEF UpAll
  <2>2. QED BY <1>1, <2>1 DEF Blocks
<1>2. CASE spans # {}
  <2> DEFINE loop == Loop(spans, map, gap, limit)
             up == Loop(UpAll(spans), UpOrNone(map), gap, limit)
             N == Cardinality(spans)
             T == {n \in Nat : n <= N => /\ LoopInv(loop[n], spans, map, limit, n)
                                         /\ up[n] = UpLoop(loop[n])}
  <2>1. /\ N \in Nat \ {0}
        /\ loop[1] = Begun(spans)
        /\ \A n \in 1 .. N - 1 : loop[n + 1] = NextSpan(loop[n], map, gap, limit)
    <3>1. loop = Loop(spans, map, gap, limit)
      OBVIOUS
    <3> HIDE DEF loop
    <3>2. QED BY <1>2, <3>1, LoopDef
  <2>2. IsFiniteSet(UpAll(spans)) /\ Cardinality(UpAll(spans)) = N /\ UpAll(spans) # {}
    <3>1. UpAll(spans) # {}
      BY <1>2 DEF UpAll
    <3>2. QED BY <3>1, UpCardinality
  <2>3. /\ up[1] = Begun(UpAll(spans))
        /\ \A n \in 1 .. N - 1 : up[n + 1] = NextSpan(up[n], UpOrNone(map), gap, limit)
    <3>1. up = Loop(UpAll(spans), UpOrNone(map), gap, limit)
      OBVIOUS
    <3> HIDE DEF up
    <3>2. QED BY <2>2, <3>1, LoopDef
  <2> HIDE DEF loop, up
  <2>4. map # None => map.ranges \subseteq AddressRange /\ Valid(map.ranges)
    BY UpOrNoneType
  <2>5. 1 \in T
    <3>1. LoopInv(loop[1], spans, map, limit, 1)
      BY <1>2, <2>1, BegunInv
    <3>2. up[1] = UpLoop(loop[1])
      BY <1>2, <2>1, <2>3, UpBegun
    <3>3. QED BY <3>1, <3>2
  <2>6. ASSUME NEW n \in 1 .. N - 1, n \in T PROVE n + 1 \in T
    <3>1. n \in Nat /\ n + 1 \in Nat /\ N - n > 0
      BY <2>1
    <3>2. LoopInv(loop[n], spans, map, limit, n) /\ up[n] = UpLoop(loop[n])
      BY <2>1, <2>6
    <3>3. LoopInv(loop[n + 1], spans, map, limit, n + 1)
      BY <2>1, <2>4, <3>2, NextSpanInv
    <3>4. loop[n].rest \subseteq spans /\ Cardinality(loop[n].rest) = N - n
          /\ BlocksOf(loop[n]) \subseteq AddressRange
      BY <3>2 DEF LoopInv
    <3>5. loop[n].rest # {}
      <4>1. Cardinality(loop[n].rest) # 0
        BY <3>1, <3>4
      <4>2. QED BY <4>1, FS_EmptySet
    <3>6. loop[n].done \subseteq AddressRange /\ loop[n].block \in AddressRange
      BY <3>4 DEF BlocksOf
    <3>7. NextSpan(UpLoop(loop[n]), UpOrNone(map), gap, limit) = UpLoop(NextSpan(loop[n], map, gap, limit))
      BY <3>4, <3>5, <3>6, UpNextSpan
    <3>8. up[n + 1] = UpLoop(loop[n + 1])
      BY <2>1, <2>3, <3>2, <3>7
    <3>9. QED BY <3>1, <3>3, <3>8
  <2>7. N \in T
    <3>1. T \subseteq Nat
      OBVIOUS
    <3> HIDE DEF T, N
    <3>2. 1 .. N \subseteq T
      BY <2>1, <2>5, <2>6, <3>1, UpTo
    <3>3. QED BY <2>1, <3>2
  <2>8. up[N] = UpLoop(loop[N]) /\ BlocksOf(loop[N]) \subseteq AddressRange
    BY <2>1, <2>7 DEF LoopInv
  <2>9. Blocks(spans, map, gap, limit) = loop[N].done \cup {loop[N].block}
    BY <1>2 DEF Blocks, loop
  <2>10. Blocks(UpAll(spans), UpOrNone(map), gap, limit) = up[N].done \cup {up[N].block}
    BY <2>2 DEF Blocks, up
  <2>11. up[N].done = UpAll(loop[N].done) /\ up[N].block = Up(loop[N].block)
    BY <2>8 DEF UpLoop
  <2>12. UpAll(loop[N].done \cup {loop[N].block}) = UpAll(loop[N].done) \cup {Up(loop[N].block)}
    BY <2>8, UpLess DEF BlocksOf
  <2>13. QED BY <2>9, <2>10, <2>11, <2>12
<1>3. QED BY <1>1, <1>2

-----------------------------------------------------------------------------

LEMMA UpSpanType ==
  ASSUME NEW x \in SpanType
  PROVE  /\ UpSpan(x).space = x.space /\ UpSpan(x).cells = Up(x.cells) /\ x.cells \in AddressRange
         /\ UpSpan(x) = [space |-> x.space, cells |-> Up(x.cells)]
         /\ UpSpan(x) \in SpanType
<1>1. x.cells \in AddressRange /\ x.space \in Spaces /\ x = [space |-> x.space, cells |-> x.cells]
  BY DEF SpanType
<1>2. UpSpan(x) = [space |-> x.space, cells |-> Up(x.cells)]
  BY <1>1 DEF UpSpan
<1>3. Up(x.cells) \in AddressRange
  BY <1>1, UpRange
<1>4. QED BY <1>1, <1>2, <1>3 DEF SpanType

LEMMA UpSpansType ==
  ASSUME NEW spans, IsFiniteSet(spans), spans \subseteq SpanType
  PROVE  IsFiniteSet(UpSpans(spans)) /\ UpSpans(spans) \subseteq SpanType
<1> DEFINE f == [x \in spans |-> UpSpan(x)]
<1>1. IsFiniteSet({f[x] : x \in DOMAIN f})
  BY ImageIsFinite
<1>2. {f[x] : x \in DOMAIN f} = UpSpans(spans)
  BY DEF UpSpans
<1>3. UpSpans(spans) \subseteq SpanType
  BY UpSpanType DEF UpSpans
<1>4. QED BY <1>1, <1>2, <1>3

LEMMA UpIn ==
  ASSUME NEW spans, spans \subseteq SpanType, NEW s
  PROVE  /\ In(UpSpans(spans), s) = UpSpans(In(spans, s))
         /\ In(UpSpans(spans), s) = {} <=> In(spans, s) = {}
         /\ In(spans, s) \subseteq SpanType
         /\ {x.cells : x \in In(UpSpans(spans), s)} = UpAll({x.cells : x \in In(spans, s)})
<1>1. \A x \in spans : UpSpan(x).space = x.space /\ UpSpan(x).cells = Up(x.cells)
  BY UpSpanType
<1>2. In(UpSpans(spans), s) = UpSpans(In(spans, s))
  BY <1>1 DEF In, UpSpans
<1>3. In(spans, s) \subseteq spans
  BY DEF In
<1> DEFINE X == In(spans, s)
<1>4. {x.cells : x \in UpSpans(X)} = UpAll({x.cells : x \in X})
  <2>1. \A x \in X : UpSpan(x).cells = Up(x.cells)
    BY <1>1, <1>3
  <2> HIDE DEF X
  <2>2. QED BY <2>1 DEF UpSpans, UpAll
<1>5. UpSpans(X) = {} <=> X = {}
  BY DEF UpSpans
<1>6. QED BY <1>2, <1>3, <1>4, <1>5

LEMMA UpFits ==
  ASSUME NEW r \in AddressRange, NEW map, MapOrNone(map), NEW limit
  PROVE  Fits(Up(r), UpOrNone(map), limit) <=> Fits(r, map, limit)
<1>1. Width(Up(r)) = Width(r)
  BY UpRange
<1>2. CASE map = None
  BY <1>1, <1>2, UpOrNoneType DEF Fits
<1>3. CASE map # None
  <2> DEFINE rs == map.ranges
  <2>1. UpOrNone(map) # None /\ UpOrNone(map).ranges = UpAll(rs) /\ rs \subseteq AddressRange
    BY <1>3, UpOrNoneType
  <2>2. \A q \in rs : Cells(Up(r)) \subseteq Cells(Up(q)) <=> Cells(r) \subseteq Cells(q)
    BY <2>1, UpInside
  <2>3. (\E q \in UpAll(rs) : Cells(Up(r)) \subseteq Cells(q)) <=> (\E q \in rs : Cells(r) \subseteq Cells(q))
    BY <2>2 DEF UpAll
  <2>4. QED BY <1>1, <1>3, <2>1, <2>3 DEF Fits
<1>4. QED BY <1>2, <1>3

LEMMA UpPlannable ==
  ASSUME NEW spans, spans \subseteq SpanType, NEW map, MapOrNone(map), NEW limit
  PROVE  Plannable(UpSpans(spans), UpOrNone(map), limit) <=> Plannable(spans, map, limit)
<1>1. map # None => (Valid(UpOrNone(map).ranges) <=> Valid(map.ranges))
  BY UpOrNoneType, UpValid
<1>2. \A x : Readable(x, map, limit) <=> Fits(x.cells, map, limit)
  BY DEF Readable, Fits
<1>3. \A x : Readable(x, UpOrNone(map), limit) <=> Fits(x.cells, UpOrNone(map), limit)
  BY DEF Readable, Fits
<1>4. ASSUME NEW x \in spans
      PROVE  Readable(UpSpan(x), UpOrNone(map), limit) <=> Readable(x, map, limit)
  <2>1. UpSpan(x).cells = Up(x.cells) /\ x.cells \in AddressRange
    BY UpSpanType
  <2>2. QED BY <1>2, <1>3, <2>1, UpFits
<1>5. (\A y \in UpSpans(spans) : Readable(y, UpOrNone(map), limit)) <=> \A x \in spans : Readable(x, map, limit)
  BY <1>4 DEF UpSpans
<1>6. UpOrNone(map) = None <=> map = None
  BY UpOrNoneType
<1>7. QED BY <1>1, <1>5, <1>6 DEF Plannable

LEMMA PlannedCells ==
  ASSUME NEW spans, IsFiniteSet(spans), spans \subseteq SpanType, NEW s, NEW m, MapOrNone(m),
         NEW gap, NEW limit \in Nat, Plannable(In(spans, s), m, limit),
         NEW cells, cells = {x.cells : x \in In(spans, s)}
  PROVE  /\ cells \subseteq AddressRange /\ IsFiniteSet(cells) /\ \A r \in cells : Fits(r, m, limit)
         /\ m # None => Valid(m.ranges)
         /\ PlanBlocks(In(spans, s), m, gap, limit) = Blocks(cells, m, gap, limit)
         /\ Blocks(cells, m, gap, limit) \in RangeSets
<1> DEFINE X == In(spans, s)
<1>1. X \subseteq SpanType /\ IsFiniteSet(X)
  BY FS_Subset DEF In
<1>2. PlanBlocks(X, m, gap, limit) = Blocks(cells, m, gap, limit)
  BY DEF PlanBlocks
<1>3. (m # None => m.ranges \subseteq AddressRange /\ Valid(m.ranges)) /\ \A r \in cells : Fits(r, m, limit)
  BY UpOrNoneType DEF Plannable, Readable, Fits
<1>4. cells \subseteq AddressRange
  BY <1>1 DEF SpanType
<1>5. IsFiniteSet(cells)
  <2> DEFINE f == [x \in X |-> x.cells]
  <2>1. {f[x] : x \in DOMAIN f} = cells
    OBVIOUS
  <2> HIDE DEF X
  <2>2. IsFiniteSet({f[x] : x \in DOMAIN f})
    BY <1>1, ImageIsFinite
  <2>3. QED BY <2>1, <2>2
<1>6. Blocks(cells, m, gap, limit) \in RangeSets
  BY <1>3, <1>4, <1>5, BlocksReadSpans
<1>7. QED BY <1>2, <1>3, <1>4, <1>5, <1>6

\* A plan is made if and only if every space it reads can be planned.
LEMMA PlanIsMade ==
  ASSUME NEW spans, IsFiniteSet(spans), spans \subseteq SpanType,
         NEW map \in DeviceMaps, NEW gap, NEW limit \in Nat
  PROVE  Plan(spans, map, gap, limit) # Refused <=>
           \A s \in Spaces : In(spans, s) # {} => Plannable(In(spans, s), map[s], limit)
<1> DEFINE read == {s \in Spaces : In(spans, s) # {}}
           plan == [s \in Spaces |-> IF s \in read THEN PlanBlocks(In(spans, s), map[s], gap, limit) ELSE {}]
<1>1. map # Refused /\ \A s \in Spaces : MapOrNone(map[s])
  BY DeviceMapType DEF MapOrNone
<1>2. CASE \E s \in read : ~Plannable(In(spans, s), map[s], limit)
  <2>1. Plan(spans, map, gap, limit) = Refused
    BY <1>2 DEF Plan
  <2>2. QED BY <1>2, <2>1
<1>3. CASE \A s \in read : Plannable(In(spans, s), map[s], limit)
  <2>1. Plan(spans, map, gap, limit) = plan
    BY <1>1, <1>3 DEF Plan
  <2>2. ASSUME NEW s \in Spaces PROVE plan[s] \in SUBSET (Nat \X Nat)
    <3>1. CASE s \notin read
      BY <3>1
    <3>2. CASE s \in read
      <4> DEFINE cells == {x.cells : x \in In(spans, s)}
      <4>1. plan[s] = PlanBlocks(In(spans, s), map[s], gap, limit)
        BY <3>2
      <4>2. MapOrNone(map[s]) /\ Plannable(In(spans, s), map[s], limit)
        BY <1>1, <1>3, <3>2
      <4>3. cells = {x.cells : x \in In(spans, s)}
        OBVIOUS
      <4> HIDE DEF plan, cells
      <4>4. /\ PlanBlocks(In(spans, s), map[s], gap, limit) = Blocks(cells, map[s], gap, limit)
            /\ Blocks(cells, map[s], gap, limit) \in RangeSets
        BY <4>2, <4>3, PlannedCells
      <4>5. QED BY <4>1, <4>4 DEF RangeSets
    <3>3. QED BY <3>1, <3>2
  <2>3. plan \in [Spaces -> SUBSET (Nat \X Nat)]
    <3> HIDE DEF read
    <3>1. QED BY <2>2
  <2>4. plan # Refused
    BY <2>3, PlanningAssumption
  <2> HIDE DEF plan
  <2>5. QED BY <1>3, <2>1, <2>4
<1>4. QED BY <1>2, <1>3

\* The plan of what has moved is the plan, moved; it is refused if and only if that is.
THEOREM PlansMove ==
  ASSUME NEW spans, IsFiniteSet(spans), spans \subseteq SpanType,
         NEW map \in DeviceMaps \cup {Refused}, NEW gap, NEW limit \in Nat
  PROVE  Plan(UpSpans(spans), UpMaps(map), gap, limit) = UpPlan(Plan(spans, map, gap, limit))
<1> DEFINE new == UpSpans(spans)
           to == UpMaps(map)
<1>1. CASE map = Refused
  BY <1>1, UpMapsRefused DEF Plan, UpPlan
<1>2. CASE map # Refused
  <2>1. map \in DeviceMaps
    BY <1>2
  <2>2. to # Refused /\ \A s \in Spaces : to[s] = UpOrNone(map[s]) /\ MapOrNone(map[s])
    BY <2>1, UpMapsType, DeviceMapType DEF UpOrNone, MapOrNone
  <2>3. \A s \in Spaces : /\ In(new, s) = UpSpans(In(spans, s)) /\ In(spans, s) \subseteq SpanType
                          /\ In(new, s) = {} <=> In(spans, s) = {}
    BY UpIn
  <2>4. \A s \in Spaces : Plannable(In(new, s), to[s], limit) <=> Plannable(In(spans, s), map[s], limit)
    BY <2>2, <2>3, UpPlannable
  <2>5. ASSUME NEW s \in Spaces, Plannable(In(spans, s), map[s], limit)
        PROVE  PlanBlocks(In(new, s), to[s], gap, limit) = UpAll(PlanBlocks(In(spans, s), map[s], gap, limit))
    <3> DEFINE X == In(spans, s)
               cells == {x.cells : x \in X}
               ups == {x.cells : x \in In(new, s)}
               m == map[s]
    <3>1. ups = UpAll(cells) /\ X \subseteq SpanType
      BY UpIn
    <3>2. MapOrNone(m) /\ to[s] = UpOrNone(m)
      BY <2>2
    <3>3. /\ cells \subseteq AddressRange /\ IsFiniteSet(cells) /\ \A r \in cells : Fits(r, m, limit)
          /\ m # None => Valid(m.ranges)
          /\ PlanBlocks(X, m, gap, limit) = Blocks(cells, m, gap, limit)
      <4>1. cells = {x.cells : x \in In(spans, s)} /\ Plannable(In(spans, s), m, limit)
        BY <2>5
      <4> HIDE DEF m, cells
      <4>2. QED BY <3>2, <4>1, PlannedCells DEF X
    <3>4. PlanBlocks(In(new, s), to[s], gap, limit) = Blocks(ups, to[s], gap, limit)
      BY <2>4, <2>5 DEF PlanBlocks
    <3> HIDE DEF m, cells, ups, X
    <3>5. Blocks(UpAll(cells), UpOrNone(m), gap, limit) = UpAll(Blocks(cells, m, gap, limit))
      BY <3>2, <3>3, UpBlocks
    <3>6. QED BY <3>1, <3>2, <3>3, <3>4, <3>5 DEF m, X
  <2> DEFINE read == {s \in Spaces : In(spans, s) # {}}
             plan == [s \in Spaces |-> IF s \in read THEN PlanBlocks(In(spans, s), map[s], gap, limit) ELSE {}]
  <2>6. {s \in Spaces : In(new, s) # {}} = read
    BY <2>3
  <2> HIDE DEF new, to
  <2>7. CASE \E s \in read : ~Plannable(In(spans, s), map[s], limit)
    <3>1. Plan(spans, map, gap, limit) = Refused
      BY <2>7 DEF Plan
    <3>2. \E s \in read : ~Plannable(In(new, s), to[s], limit)
      BY <2>4, <2>7
    <3>3. Plan(new, to, gap, limit) = Refused
      BY <2>6, <3>2 DEF Plan
    <3>4. QED BY <3>1, <3>3 DEF UpPlan, new, to
  <2>8. CASE \A s \in read : Plannable(In(spans, s), map[s], limit)
    <3>1. Plan(spans, map, gap, limit) = plan
      BY <1>2, <2>8 DEF Plan
    <3>2. Plan(new, to, gap, limit) =
            [s \in Spaces |-> IF s \in read THEN PlanBlocks(In(new, s), to[s], gap, limit) ELSE {}]
      <4>1. \A s \in read : Plannable(In(new, s), to[s], limit)
        BY <2>4, <2>8
      <4> HIDE DEF read
      <4>2. QED BY <2>2, <2>6, <4>1, Zenon DEF Plan
    <3>3. plan # Refused
      <4>1. \A s \in Spaces : In(spans, s) # {} => Plannable(In(spans, s), map[s], limit)
        BY <2>8
      <4>2. Plan(spans, map, gap, limit) # Refused
        BY <2>1, <4>1, PlanIsMade
      <4>3. QED BY <3>1, <4>2
    <3>4. UpPlan(plan) = [s \in Spaces |-> UpAll(plan[s])]
      BY <3>3 DEF UpPlan
    <3>5. ASSUME NEW s \in Spaces
          PROVE  UpAll(plan[s]) = IF s \in read THEN PlanBlocks(In(new, s), to[s], gap, limit) ELSE {}
      <4>1. UpAll({}) = {}
        BY DEF UpAll
      <4>2. QED BY <2>5, <2>8, <4>1 DEF new, to
    <3> HIDE DEF read, plan
    <3>6. QED BY <3>1, <3>2, <3>4, <3>5 DEF new, to
  <2>9. QED BY <2>7, <2>8
<1>3. QED BY <1>1, <1>2

LEMMA UpUnmapped ==
  ASSUME NEW spans, spans \subseteq SpanType, NEW map \in DeviceMaps
  PROVE  Unmapped(UpMaps(map), UpSpans(spans)) = UpSpans(Unmapped(map, spans))
<1>1. \A x \in spans : UpSpan(x).space = x.space /\ x.space \in Spaces
  BY UpSpanType DEF SpanType
<1>2. \A s \in Spaces : UpMaps(map)[s] = None <=> map[s] = None
  BY UpMapsType, DeviceMapType, UpMapType
<1>3. QED BY <1>1, <1>2 DEF Unmapped, UpSpans

LEMMA ClaimsMove ==
  ASSUME NEW spans, IsFiniteSet(spans), spans \subseteq SpanType, NEW gap, NEW limit \in Nat
  PROVE  Claimed(UpSpans(spans), gap, limit) = UpMaps(Claimed(spans, gap, limit))
<1> DEFINE plan == Plan(spans, Unconstrained, gap, limit)
           up == Plan(UpSpans(spans), Unconstrained, gap, limit)
           claim == Claimed(spans, gap, limit)
<1>1. UpMaps(Unconstrained) = Unconstrained
  <2>1. Shifted(Unconstrained, 1) = Unconstrained
    BY DEF Shifted, Unconstrained
  <2>2. QED BY <2>1, NoMapIsMap, UpMapsType
<1>2. up = UpPlan(plan)
  BY <1>1, NoMapIsMap, PlansMove
<1>3. \A s \in Spaces : In(UpSpans(spans), s) = {} <=> In(spans, s) = {}
  BY UpIn
<1>4. CASE plan = Refused
  <2>1. claim = Refused
    BY <1>4 DEF Claimed
  <2>2. Claimed(UpSpans(spans), gap, limit) = Refused
    BY <1>2, <1>4 DEF Claimed, UpPlan
  <2>3. QED BY <2>1, <2>2, UpMapsRefused
<1>5. CASE plan # Refused
  <2>1. plan \in [Spaces -> RangeSets]
    BY <1>5, NoMapIsMap, PlansReadSpans DEF Serves
  <2>2. up = [s \in Spaces |-> UpAll(plan[s])]
    BY <1>2, <1>5 DEF UpPlan
  <2>3. up # Refused
    <3>1. \A s \in Spaces : UpAll(plan[s]) \in SUBSET (Nat \X Nat)
      <4> HIDE DEF plan
      <4>1. QED BY <2>1, UpSets DEF RangeSets
    <3> HIDE DEF up, plan
    <3>2. up \in [Spaces -> SUBSET (Nat \X Nat)]
      BY <2>2, <3>1
    <3>3. QED BY <3>2, PlanningAssumption
  <2>4. claim = [s \in Spaces |-> IF In(spans, s) = {} THEN None
                                  ELSE [ranges |-> plan[s], declared |-> FALSE]]
    BY <1>5 DEF Claimed
  <2>5. Claimed(UpSpans(spans), gap, limit) =
          [s \in Spaces |-> IF In(UpSpans(spans), s) = {} THEN None
                            ELSE [ranges |-> up[s], declared |-> FALSE]]
    BY <2>3 DEF Claimed
  <2> HIDE DEF plan, up
  <2>6. ASSUME NEW s \in Spaces
        PROVE  /\ [ranges |-> plan[s], declared |-> FALSE] \in SpaceMaps
               /\ [ranges |-> plan[s], declared |-> FALSE] # None
               /\ UpMap([ranges |-> plan[s], declared |-> FALSE]) = [ranges |-> up[s], declared |-> FALSE]
    <3> DEFINE p == [ranges |-> plan[s], declared |-> FALSE]
    <3>1. p \in SpaceMaps
      BY <2>1, IsSpaceMap
    <3>2. p.ranges = plan[s] /\ p.declared = FALSE
      OBVIOUS
    <3> HIDE DEF p
    <3>3. UpMap(p) = [ranges |-> UpAll(plan[s]), declared |-> FALSE] /\ p # None
      BY <3>1, <3>2, UpMapType, SpaceMapType
    <3>4. QED BY <2>2, <3>1, <3>3 DEF p
  <2>7. claim \in DeviceMaps
    <3>1. \A s \in Spaces : claim[s] \in SpaceMaps \cup {None}
      BY <2>4, <2>6
    <3>2. claim = [s \in Spaces |-> claim[s]]
      BY <2>4
    <3> HIDE DEF claim
    <3>3. QED BY <3>1, <3>2 DEF DeviceMaps
  <2>8. ASSUME NEW s \in Spaces
        PROVE  UpMaps(claim)[s] = IF In(UpSpans(spans), s) = {} THEN None
                                  ELSE [ranges |-> up[s], declared |-> FALSE]
    <3>1. UpMaps(claim)[s] = IF claim[s] = None THEN None ELSE UpMap(claim[s])
      BY <2>7, UpMapsType
    <3>2. CASE In(spans, s) = {}
      BY <1>3, <2>4, <3>1, <3>2
    <3>3. CASE In(spans, s) # {}
      <4>1. claim[s] = [ranges |-> plan[s], declared |-> FALSE]
        BY <2>4, <3>3
      <4> HIDE DEF claim
      <4>2. QED BY <1>3, <2>6, <3>1, <3>3, <4>1
    <3>4. QED BY <3>2, <3>3
  <2>9. UpMaps(claim) = [s \in Spaces |-> UpMaps(claim)[s]]
    BY <2>7, UpMapsType
  <2> HIDE DEF claim
  <2>10. QED BY <2>5, <2>8, <2>9 DEF claim
<1>6. QED BY <1>4, <1>5

-----------------------------------------------------------------------------
(* What is taken out of a map leaves what it spares whole.                  *)

LEMMA RunsAreApart ==
  ASSUME NEW cells, cells \subseteq Nat, IsFiniteSet(cells),
         NEW r \in Runs(cells, {}), NEW s \in Runs(cells, {}), NEW a \in Cells(r) \cap Cells(s)
  PROVE  r = s
<1>1. /\ r \in cells \X cells /\ s \in cells \X cells
      /\ Cells(r) \subseteq cells /\ Cells(s) \subseteq cells /\ r[1] <= r[2] /\ s[1] <= s[2]
      /\ r[1] - 1 \notin cells /\ r[2] + 1 \notin cells
      /\ s[1] - 1 \notin cells /\ s[2] + 1 \notin cells
  BY DEF Runs
<1>2. /\ r[1] \in Nat /\ r[2] \in Nat /\ s[1] \in Nat /\ s[2] \in Nat
      /\ r = <<r[1], r[2]>> /\ s = <<s[1], s[2]>>
  <2>1. r \in AddressRange /\ s \in AddressRange
    BY RunsType DEF RangeSets
  <2>2. QED BY <2>1, RangeType
<1>3. a \in Int /\ r[1] <= a /\ a <= r[2] /\ s[1] <= a /\ a <= s[2]
  BY <1>2 DEF Cells
<1>4. ~(r[1] < s[1]) /\ ~(s[1] < r[1])
  <2>1. r[1] < s[1] => s[1] - 1 \in Cells(r)
    BY <1>2, <1>3 DEF Cells
  <2>2. s[1] < r[1] => r[1] - 1 \in Cells(s)
    BY <1>2, <1>3 DEF Cells
  <2>3. QED BY <1>1, <2>1, <2>2
<1>5. ~(r[2] < s[2]) /\ ~(s[2] < r[2])
  <2>1. r[2] < s[2] => r[2] + 1 \in Cells(s)
    BY <1>2, <1>3 DEF Cells
  <2>2. s[2] < r[2] => s[2] + 1 \in Cells(r)
    BY <1>2, <1>3 DEF Cells
  <2>3. QED BY <1>1, <2>1, <2>2
<1>6. r[1] = s[1] /\ r[2] = s[2]
  BY <1>2, <1>4, <1>5
<1>7. QED BY <1>2, <1>6

LEMMA RunHolds ==
  ASSUME NEW cells, cells \subseteq Nat, IsFiniteSet(cells),
         NEW r \in AddressRange, Cells(r) \subseteq cells
  PROVE  \E q \in Runs(cells, {}) : Cells(r) \subseteq Cells(q)
<1>1. r[1] \in Nat /\ r[2] \in Nat /\ r[1] <= r[2] /\ r[1] \in Cells(r) /\ r[1] \in cells
  BY RangeType
<1>2. PICK q \in Runs(cells, {}) : r[1] \in Cells(q)
  BY <1>1, RunExists
<1>3. q \in cells \X cells /\ q[2] + 1 \notin cells
  BY DEF Runs
<1>4. q[1] \in Nat /\ q[2] \in Nat /\ q[1] <= r[1] /\ r[1] <= q[2]
  <2>1. q \in AddressRange
    BY RunsType DEF RangeSets
  <2>2. q[1] \in Nat /\ q[2] \in Nat
    BY <2>1, RangeType
  <2>3. QED BY <1>2, <2>2 DEF Cells
<1>5. ~(q[2] < r[2])
  <2>1. q[2] < r[2] => q[2] + 1 \in Cells(r)
    BY <1>1, <1>4 DEF Cells
  <2>2. QED BY <1>3, <2>1
<1>6. QED BY <1>1, <1>2, <1>4, <1>5 DEF Cells

\* Excluding cells from disjoint ranges leaves disjoint ranges, and whatever range has
\* none of these cells in it is left whole.
LEMMA ExcludingSpares ==
  ASSUME NEW ranges \in RangeSets, Valid(ranges), NEW out
  PROVE  /\ Valid(Excluding(ranges, out))
         /\ \A r \in AddressRange : \A q \in ranges :
              Cells(r) \subseteq Cells(q) /\ Cells(r) \cap out = {} =>
                \E x \in Excluding(ranges, out) : Cells(r) \subseteq Cells(x)
<1>1. ASSUME NEW q \in ranges
      PROVE  Cells(q) \ out \subseteq Nat /\ IsFiniteSet(Cells(q) \ out)
  <2>1. q[1] \in Nat /\ q[2] \in Nat
    BY RangeType DEF RangeSets
  <2>2. Cells(q) \subseteq Nat
    BY <2>1 DEF Cells
  <2>3. IsFiniteSet(Cells(q))
    BY <2>1, FS_Interval DEF Cells
  <2>4. QED BY <2>2, <2>3, FS_Subset
<1>2. ASSUME NEW x \in Excluding(ranges, out), NEW y \in Excluding(ranges, out),
             NEW a \in Cells(x) \cap Cells(y)
      PROVE  x = y
  <2>1. PICK q \in ranges, p \in ranges :
          x \in Runs(Cells(q) \ out, {}) /\ y \in Runs(Cells(p) \ out, {})
    BY DEF Excluding
  <2>2. Cells(x) \subseteq Cells(q) \ out /\ Cells(y) \subseteq Cells(p) \ out
    BY <2>1 DEF Runs
  <2>3. q = p
    BY <2>2, OneRangeHolds
  <2> DEFINE cells == Cells(q) \ out
  <2>4. cells \subseteq Nat /\ IsFiniteSet(cells) /\ x \in Runs(cells, {}) /\ y \in Runs(cells, {})
    BY <1>1, <2>1, <2>3
  <2> HIDE DEF cells
  <2>5. QED BY <2>4, RunsAreApart
<1>3. Valid(Excluding(ranges, out))
  BY <1>2 DEF Valid
<1>4. ASSUME NEW r \in AddressRange, NEW q \in ranges, Cells(r) \subseteq Cells(q), Cells(r) \cap out = {}
      PROVE  \E x \in Excluding(ranges, out) : Cells(r) \subseteq Cells(x)
  <2> DEFINE cells == Cells(q) \ out
  <2>1. cells \subseteq Nat /\ IsFiniteSet(cells) /\ Cells(r) \subseteq cells
    BY <1>1, <1>4
  <2>2. \E x \in Runs(cells, {}) : Cells(r) \subseteq Cells(x)
    <3> HIDE DEF cells
    <3>1. QED BY <2>1, RunHolds
  <2>3. QED BY <2>2 DEF Excluding
<1>5. QED BY <1>3, <1>4

\* Of spans that do not overlap, the blocks do not either: what is complete ends before
\* the block being built begins, and that before the spans still to come.
Ahead(loop) ==
  /\ Valid(loop.done)
  /\ \A b \in loop.done : b[2] < loop.block[1]
  /\ \A r \in loop.rest : loop.block[2] < r[1]

LEMMA BlocksAreApart ==
  ASSUME NEW spans, spans \subseteq AddressRange, IsFiniteSet(spans), Valid(spans),
         NEW map, map # None => map.ranges \subseteq AddressRange /\ Valid(map.ranges),
         NEW gap, NEW limit \in Nat, \A r \in spans : Fits(r, map, limit)
  PROVE  Valid(Blocks(spans, map, gap, limit))
<1>1. ASSUME NEW r \in spans, NEW s \in spans, r # s, r[1] <= s[1] PROVE r[2] < s[1]
  <2>1. r[1] \in Nat /\ r[2] \in Nat /\ s[1] \in Nat /\ s[1] \in Cells(s)
    BY RangeType
  <2>2. s[1] \notin Cells(r)
    BY <1>1, <2>1 DEF Valid
  <2>3. QED BY <1>1, <2>1, <2>2 DEF Cells
<1>2. CASE spans = {}
  BY <1>2 DEF Blocks, Valid
<1>3. CASE spans # {}
  <2> DEFINE loop == Loop(spans, map, gap, limit)
             N == Cardinality(spans)
             T == {n \in Nat : n <= N => LoopInv(loop[n], spans, map, limit, n) /\ Ahead(loop[n])}
  <2>1. /\ N \in Nat \ {0}
        /\ loop[1] = Begun(spans)
        /\ \A n \in 1 .. N - 1 : loop[n + 1] = NextSpan(loop[n], map, gap, limit)
    <3>1. loop = Loop(spans, map, gap, limit)
      OBVIOUS
    <3> HIDE DEF loop
    <3>2. QED BY <1>3, <3>1, LoopDef
  <2> HIDE DEF loop
  <2>2. 1 \in T
    <3>1. LoopInv(Begun(spans), spans, map, limit, 1)
      BY <1>3, BegunInv
    <3>2. First(spans) \in spans /\ \A s \in spans : First(spans)[1] <= s[1]
      BY <1>3, FirstIsFirst
    <3>3. Ahead(Begun(spans))
      BY <1>1, <3>2 DEF Ahead, Begun, Valid
    <3>4. QED BY <2>1, <3>1, <3>3
  <2>3. ASSUME NEW n \in 1 .. N - 1, n \in T PROVE n + 1 \in T
    <3> DEFINE old == loop[n]
               new == loop[n + 1]
               cells == First(old.rest)
               joins == Joins(old.block, cells, map, gap, limit)
    <3>1. n \in Nat /\ n + 1 \in Nat /\ N - n > 0
      BY <2>1
    <3>2. LoopInv(old, spans, map, limit, n) /\ Ahead(old) /\ new = NextSpan(old, map, gap, limit)
      BY <2>1, <2>3
    <3>3. LoopInv(new, spans, map, limit, n + 1)
      BY <3>2, NextSpanInv
    <3>4. /\ old.rest \subseteq spans /\ Cardinality(old.rest) = N - n
          /\ old.block \in AddressRange /\ old.done \subseteq AddressRange
      BY <3>2 DEF LoopInv, BlocksOf
    <3>5. old.rest # {}
      <4>1. Cardinality(old.rest) # 0
        BY <3>1, <3>4
      <4> HIDE DEF old
      <4>2. QED BY <4>1, FS_EmptySet
    <3>6. cells \in old.rest /\ cells \in spans /\ \A s \in old.rest : cells[1] <= s[1]
      <4> HIDE DEF old
      <4>1. First(old.rest) \in old.rest /\ \A s \in old.rest : First(old.rest)[1] <= s[1]
        BY <3>4, <3>5, FirstIsFirst
      <4>2. QED BY <3>4, <4>1
    <3>7. /\ new.rest = old.rest \ {cells}
          /\ new.done = (IF joins THEN old.done ELSE old.done \cup {old.block})
          /\ new.block = (IF joins THEN <<old.block[1], Max({old.block[2], cells[2]})>> ELSE cells)
      BY <3>2 DEF NextSpan
    <3> HIDE DEF old, new, cells, joins
    <3>8. \A s \in new.rest : cells[2] < s[1]
      BY <1>1, <3>4, <3>6, <3>7
    <3>9. /\ old.block[2] < cells[1] /\ cells[1] <= cells[2] /\ cells[1] \in Nat /\ cells[2] \in Nat
          /\ old.block[1] \in Nat /\ old.block[2] \in Nat /\ old.block[1] <= old.block[2]
          /\ \A b \in old.done : b[2] < old.block[1] /\ b[2] \in Nat /\ b[1] \in Nat
      BY <3>2, <3>4, <3>6, RangeType DEF Ahead
    <3>10. CASE joins
      <4>1. Max({old.block[2], cells[2]}) = cells[2]
        <5> DEFINE x == old.block[2]
                   y == cells[2]
        <5>1. x \in Int /\ y \in Int /\ x < y
          BY <3>9
        <5> HIDE DEF x, y
        <5>2. Max({x, y}) = y
          BY <5>1, MaxOfTwo
        <5>3. QED BY <5>2 DEF x, y
      <4>2. new.block[1] = old.block[1] /\ new.block[2] = cells[2] /\ new.done = old.done
        BY <3>7, <3>10, <4>1
      <4>3. Ahead(new)
        BY <3>2, <3>8, <4>2 DEF Ahead
      <4>4. QED BY <3>1, <3>3, <4>3 DEF new
    <3>11. CASE ~joins
      <4>1. new.block = cells /\ new.done = old.done \cup {old.block}
        BY <3>7, <3>11
      <4>2. \A b \in new.done : b[2] < cells[1]
        BY <3>9, <4>1
      <4>3. \A b \in old.done : Cells(b) \cap Cells(old.block) = {}
        BY <3>9 DEF Cells
      <4>4. Valid(new.done)
        BY <3>2, <4>1, <4>3 DEF Ahead, Valid
      <4>5. Ahead(new)
        BY <3>8, <4>1, <4>2, <4>4 DEF Ahead
      <4>6. QED BY <3>1, <3>3, <4>5 DEF new
    <3>12. QED BY <3>10, <3>11
  <2>4. N \in T
    <3>1. T \subseteq Nat
      OBVIOUS
    <3> HIDE DEF T, N
    <3>2. 1 .. N \subseteq T
      BY <2>1, <2>2, <2>3, <3>1, UpTo
    <3>3. QED BY <2>1, <3>2
  <2>5. Ahead(loop[N]) /\ loop[N].done \subseteq AddressRange /\ loop[N].block \in AddressRange
    BY <2>1, <2>4 DEF LoopInv, BlocksOf
  <2>6. Blocks(spans, map, gap, limit) = loop[N].done \cup {loop[N].block}
    BY <1>3 DEF Blocks, loop
  <2>7. \A b \in loop[N].done : Cells(b) \cap Cells(loop[N].block) = {}
    <3>1. ASSUME NEW b \in loop[N].done PROVE Cells(b) \cap Cells(loop[N].block) = {}
      <4>1. b[1] \in Nat /\ b[2] \in Nat /\ loop[N].block[1] \in Nat /\ loop[N].block[2] \in Nat
            /\ b[2] < loop[N].block[1]
        BY <2>5, RangeType DEF Ahead
      <4>2. QED BY <4>1 DEF Cells
    <3>2. QED BY <3>1
  <2>8. QED BY <2>5, <2>6, <2>7 DEF Ahead, Valid
<1>4. QED BY <1>2, <1>3
=============================================================================
