--------------------------- MODULE RefreshProofs ---------------------------
(* Theorems about Refresh for every value of its constants.                *)
EXTENDS Refresh, TLAPS

\* A function on 1 .. n is a sequence of length n.
LEMMA FunctionIsSeq ==
  ASSUME NEW S, NEW n \in Nat, NEW f \in [1 .. n -> S]
  PROVE  f \in Seq(S) /\ Len(f) = n /\ DOMAIN f = 1 .. n
OBVIOUS

\* A sequence of length 0 has no element.
LEMMA SeqDomain ==
  ASSUME NEW S, NEW s \in Seq(S)
  PROVE  /\ Len(s) \in Nat /\ DOMAIN s = 1 .. Len(s)
         /\ \A n \in DOMAIN s : s[n] \in S
OBVIOUS

\* What groups are resized to: the counts asked for, of instances that are kept or
\* are built in this epoch at the stride asked for.
LEMMA ResizedType ==
  ASSUME inst \in [Groups -> Seq(Built)], epoch \in 0 .. MaxEpoch,
         NEW c \in Counts, NEW w \in [Groups -> Widths \cup {0}]
  PROVE  /\ Resized(c, w) \in [Groups -> Seq(Built)]
         /\ \A g \in Changed(c, w) : Len(Resized(c, w)[g]) = c[g]
         /\ \A g \in Groups \ Changed(c, w) : Resized(c, w)[g] = inst[g]
<1> DEFINE new(g) == [n \in 1 .. c[g] |->
                        IF n <= Len(Kept(g, c, w)) THEN Kept(g, c, w)[n]
                                                   ELSE <<epoch, Strided(c, w)[g]>>]
<1>1. ASSUME NEW g \in Changed(c, w)
      PROVE  new(g) \in Seq(Built) /\ Len(new(g)) = c[g]
  <2>1. g \in Groups /\ c[g] \in Nat
    BY <1>1, RefreshAssumption DEF Changed, Placed, Counts
  <2>2. Kept(g, c, w) \in Seq(Built)
    BY <2>1 DEF Kept
  <2>3. ASSUME NEW n \in 1 .. c[g]
        PROVE  new(g)[n] \in Built
    <3>1. CASE n <= Len(Kept(g, c, w))
      <4>1. n \in DOMAIN Kept(g, c, w)
        BY <2>1, <2>2, <3>1, SeqDomain
      <4>2. Kept(g, c, w)[n] \in Built
        BY <2>2, <4>1, SeqDomain
      <4>3. QED BY <3>1, <4>2
    <3>2. CASE ~(n <= Len(Kept(g, c, w)))
      <4>1. c[g] > 0 /\ w[g] > 0
        BY <1>1, <2>1 DEF Changed, Placed, Groups
      <4>2. Strided(c, w)[g] \in Widths \ {0}
        BY <1>1, <2>1, <4>1, RefreshAssumption DEF Strided, Changed
      <4>3. QED BY <3>2, <4>2 DEF Built
    <3>3. QED BY <3>1, <3>2
  <2>4. new(g) \in [1 .. c[g] -> Built]
    BY <2>3
  <2> HIDE DEF new
  <2>5. QED BY <2>1, <2>4, FunctionIsSeq
<1>2. \A g \in Changed(c, w) : Resized(c, w)[g] = new(g) /\ g \in Groups
  BY DEF Resized, Changed, Placed
<1>3. \A g \in Groups \ Changed(c, w) : Resized(c, w)[g] = inst[g]
  BY DEF Resized
<1>4. Resized(c, w) = [g \in Groups |-> Resized(c, w)[g]]
  BY DEF Resized
<1> HIDE DEF new
<1>5. \A g \in Groups : Resized(c, w)[g] \in Seq(Built)
  BY <1>1, <1>2, <1>3
<1>6. QED BY <1>1, <1>2, <1>3, <1>4, <1>5

LEMMA InstancesType ==
  ASSUME NEW f \in [Groups -> Seq(Built)], \A g \in Groups : Len(f[g]) <= MaxCount
  PROVE  Instances(f) \subseteq Objects
<1> SUFFICES ASSUME NEW g \in Groups, NEW n \in DOMAIN f[g]
             PROVE  <<g, n, f[g][n]>> \in Objects
  BY DEF Instances
<1>1. f[g] \in Seq(Built)
  OBVIOUS
<1>2. n \in 1 .. Len(f[g]) /\ Len(f[g]) \in Nat /\ f[g][n] \in Built
  BY <1>1, SeqDomain
<1>3. n \in 1 .. MaxCount
  BY <1>2, RefreshAssumption
<1>4. QED BY <1>2, <1>3 DEF Objects

LEMMA CoversType == TypeOK => Covers \in Plans /\ NothingRead \in Plans
<1> SUFFICES ASSUME TypeOK PROVE Covers \in Plans /\ NothingRead \in Plans
  OBVIOUS
<1>1. Own(target) \subseteq Keys \X Versions
  BY DEF TypeOK, Own
<1>2. Instances(inst) \subseteq Objects
  BY InstancesType DEF TypeOK
<1>3. QED BY <1>1, <1>2 DEF Covers, Targets, NothingRead, Plans

LEMMA InvalidateType ==
  ASSUME TypeOK, NEW tg \in [Keys -> Versions \cup {None}], NEW f \in [Groups -> Seq(Built)],
         \A g \in Groups : Len(f[g]) <= MaxCount, Invalidate(tg, f)
  PROVE  /\ items' \in Plans \cup {NoPlan} /\ torn' \in BOOLEAN
         /\ plan' \in [{"self", "pool"} -> Plans \cup {NoPlan}]
<1>1. Own(tg) \subseteq Keys \X Versions
  BY DEF Own
<1>2. Instances(f) \subseteq Objects
  BY InstancesType
<1>3. Targets(tg, f) \in Plans
  BY <1>1, <1>2 DEF Targets, Plans
<1>4. torn' \in BOOLEAN
  <2>1. torn' = TRUE \/ torn' = FALSE
    BY DEF Invalidate
  <2>2. QED BY <2>1
<1>5. QED BY <1>3, <1>4 DEF Invalidate, TypeOK

-----------------------------------------------------------------------------
(* Type correctness.                                                       *)

LEMMA EndType ==
  ASSUME TypeOK, NEW t \in Pollers, NEW how \in {"none", "ok", "raised"}, End(t, how)
  PROVE  /\ pc' \in [Pollers -> {"idle", "read", "grow"}]
         /\ reading' \in [Pollers -> Plans]
         /\ adding' \in [Pollers -> SUBSET Objects]
         /\ outcome' \in [Pollers -> {"none", "ok", "raised"}]
BY CoversType DEF End, TypeOK

LEMMA SecondPassType ==
  ASSUME TypeOK, NEW t \in Pollers, NEW c \in Counts,
         NEW w \in [Groups -> Widths \cup {0}], NEW stored, SecondPass(t, c, w, stored)
  PROVE  /\ inst' \in [Groups -> Seq(Built)]
         /\ \A g \in Groups : Len(inst'[g]) <= MaxCount
         /\ stride' \in [Groups -> Widths \cup {0}]
         /\ epoch' \in 0 .. MaxEpoch
         /\ filled' \subseteq Instances(inst')
         /\ items' \in Plans \cup {NoPlan} /\ torn' \in BOOLEAN
         /\ plan' \in [{"self", "pool"} -> Plans \cup {NoPlan}]
         /\ pc' \in [Pollers -> {"idle", "read", "grow"}]
         /\ reading' \in [Pollers -> Plans]
         /\ adding' \in [Pollers -> SUBSET Objects]
         /\ outcome' \in [Pollers -> {"none", "ok", "raised"}]
         /\ disturbed' \in [Pollers -> BOOLEAN]
<1>1. /\ inst' = Resized(c, w) /\ stride' = Strided(c, w)
      /\ epoch' = IF Changed(c, w) = {} THEN epoch ELSE epoch + 1
      /\ Changed(c, w) # {} => epoch < MaxEpoch
      /\ filled' = stored \cap Instances(inst')
      /\ UNCHANGED disturbed \/ Disturb(t)
  BY DEF SecondPass
<1>2. /\ inst' \in [Groups -> Seq(Built)]
      /\ \A g \in Changed(c, w) : Len(inst'[g]) = c[g]
      /\ \A g \in Groups \ Changed(c, w) : inst'[g] = inst[g]
  BY <1>1, ResizedType DEF TypeOK
<1>3. \A g \in Groups : Len(inst'[g]) <= MaxCount
  <2>1. \A g \in Groups : c[g] <= MaxCount
    BY RefreshAssumption DEF Counts
  <2>2. \A g \in Groups : Len(inst[g]) <= MaxCount
    BY DEF TypeOK
  <2>3. QED BY <1>2, <2>1, <2>2
<1>4. stride' \in [Groups -> Widths \cup {0}]
  BY <1>1 DEF Strided, TypeOK
<1>5. epoch' \in 0 .. MaxEpoch
  BY <1>1, RefreshAssumption DEF TypeOK
<1>6. filled' \subseteq Instances(inst')
  BY <1>1
<1>7. /\ items' \in Plans \cup {NoPlan} /\ torn' \in BOOLEAN
      /\ plan' \in [{"self", "pool"} -> Plans \cup {NoPlan}]
  <2>1. CASE UNCHANGED <<items, plan>> /\ torn' \in BOOLEAN
    BY <2>1 DEF TypeOK
  <2>2. CASE Invalidate(target, Resized(c, w))
    BY <1>1, <1>2, <1>3, <2>2, InvalidateType DEF TypeOK
  <2>3. QED
    <3>1. CASE UNCHANGED <<items, plan>> /\ torn' = (torn \/ Changed(c, w) # {})
      BY <2>1, <3>1
    <3>2. CASE UNCHANGED caches
      BY <2>1, <3>2 DEF caches, TypeOK
    <3>3. QED BY <2>2, <3>1, <3>2 DEF SecondPass
<1>8. disturbed' \in [Pollers -> BOOLEAN]
  BY <1>1 DEF Disturb, TypeOK
<1>9. /\ pc' \in [Pollers -> {"idle", "read", "grow"}]
      /\ reading' \in [Pollers -> Plans]
      /\ adding' \in [Pollers -> SUBSET Objects]
      /\ outcome' \in [Pollers -> {"none", "ok", "raised"}]
  <2>1. CASE End(t, "ok") \/ End(t, "raised")
    BY <2>1, EndType
  <2>2. CASE /\ pc' = [pc EXCEPT ![t] = "grow"]
             /\ reading' = [reading EXCEPT ![t] = NothingRead]
             /\ adding' = [adding EXCEPT ![t] = Instances(Resized(c, w)) \ Instances(inst)]
             /\ outcome' = [outcome EXCEPT ![t] = "none"]
    <3>1. Instances(Resized(c, w)) \subseteq Objects
      BY <1>1, <1>2, <1>3, InstancesType
    <3>2. QED BY <2>2, <3>1, CoversType DEF TypeOK
  <2>3. QED BY <2>1, <2>2 DEF SecondPass
<1>10. QED BY <1>2, <1>3, <1>4, <1>5, <1>6, <1>7, <1>8, <1>9

LEMMA PollType ==
  ASSUME TypeOK, NEW t \in Pollers, Poll(t) \/ PollConflicts(t)
  PROVE  TypeOK'
<1>1. CASE Poll(t)
  <2> DEFINE cached == IF items = NoPlan THEN Covers ELSE items
             p == IF plan[Via[t]] = NoPlan THEN cached ELSE plan[Via[t]]
  <2>1. Via[t] \in {"self", "pool"}
    BY RefreshAssumption
  <2>2. p \in Plans
    BY <2>1, CoversType DEF TypeOK
  <2>3. /\ items' \in {items, cached} /\ torn' = torn
        /\ plan' = [plan EXCEPT ![Via[t]] = p]
        /\ \E b \in BOOLEAN : disturbed' = [disturbed EXCEPT ![t] = b]
        /\ UNCHANGED <<layout, value, counts, width, filled>>
    BY <1>1 DEF Poll
  <2>4. \/ End(t, "ok")
        \/ /\ pc' = [pc EXCEPT ![t] = "read"]
           /\ reading' = [reading EXCEPT ![t] = p]
           /\ outcome' = [outcome EXCEPT ![t] = "none"]
           /\ UNCHANGED adding
    BY <1>1 DEF Poll
  <2>5. /\ pc' \in [Pollers -> {"idle", "read", "grow"}]
        /\ reading' \in [Pollers -> Plans]
        /\ adding' \in [Pollers -> SUBSET Objects]
        /\ outcome' \in [Pollers -> {"none", "ok", "raised"}]
    <3> HIDE DEF p, cached
    <3>1. CASE End(t, "ok")
      BY <3>1, EndType
    <3>2. CASE ~End(t, "ok")
      <4>1. pc' \in [Pollers -> {"idle", "read", "grow"}]
        BY <2>4, <3>2 DEF TypeOK
      <4>2. reading' \in [Pollers -> Plans]
        BY <2>2, <2>4, <3>2 DEF TypeOK
      <4>3. /\ adding' \in [Pollers -> SUBSET Objects]
            /\ outcome' \in [Pollers -> {"none", "ok", "raised"}]
        BY <2>4, <3>2 DEF TypeOK
      <4>4. QED BY <4>1, <4>2, <4>3
    <3>3. QED BY <3>1, <3>2
  <2>6. plan' \in [{"self", "pool"} -> Plans \cup {NoPlan}]
    BY <2>2, <2>3 DEF TypeOK
  <2>7. disturbed' \in [Pollers -> BOOLEAN]
    BY <2>3 DEF TypeOK
  <2>8. items' \in Plans \cup {NoPlan}
    BY <2>3, CoversType DEF TypeOK
  <2> HIDE DEF p, cached
  <2>9. QED BY <2>3, <2>5, <2>6, <2>7, <2>8 DEF TypeOK, layout
<1>2. CASE PollConflicts(t)
  BY <1>2, CoversType DEF PollConflicts, TypeOK, layout
<1>3. QED BY <1>1, <1>2

LEMMA ReadType ==
  ASSUME TypeOK, NEW t \in Pollers, ReadFails(t) \/ GrowReturns(t)
  PROVE  TypeOK'
<1>1. End(t, "raised") \/ End(t, "ok")
  BY DEF ReadFails, GrowReturns
<1>2. /\ pc' \in [Pollers -> {"idle", "read", "grow"}]
      /\ reading' \in [Pollers -> Plans]
      /\ adding' \in [Pollers -> SUBSET Objects]
      /\ outcome' \in [Pollers -> {"none", "ok", "raised"}]
  BY <1>1, EndType
<1>3. UNCHANGED <<layout, value, counts, width, caches, disturbed>>
  BY DEF ReadFails, GrowReturns
<1>4. filled' = filled \/ filled' \subseteq Instances(inst)
  BY DEF ReadFails, GrowReturns
<1>5. QED BY <1>2, <1>3, <1>4 DEF TypeOK, layout, caches

LEMMA SecondPassesType ==
  ASSUME TypeOK, NEW t \in Pollers, ReadReturns(t) \/ ResizeGroups(t)
  PROVE  TypeOK'
<1>1. CASE ReadReturns(t)
  <2>1. PICK c \in Counts, w \in [Groups -> Widths \cup {0}] :
               /\ counts' = c /\ width' = w
               /\ SecondPass(t, c, w, filled \cup reading[t].insts)
    BY <1>1 DEF ReadReturns
  <2>2. target' = target /\ value' \in [Keys -> Versions \cup {None}]
    BY <1>1 DEF ReadReturns, TypeOK
  <2>3. QED BY <2>1, <2>2, SecondPassType DEF TypeOK
<1>2. CASE ResizeGroups(t)
  <2>1. /\ SecondPass(t, counts, width, filled)
        /\ UNCHANGED <<target, value, counts, width>>
    BY <1>2 DEF ResizeGroups
  <2>2. QED BY <2>1, SecondPassType DEF TypeOK
<1>3. QED BY <1>1, <1>2

LEMMA ReshapeType ==
  ASSUME TypeOK, NEW tg \in [Keys -> Versions \cup {None}], NEW dropped, Reshape(tg, dropped)
  PROVE  TypeOK'
<1>1. /\ target' = tg /\ value' \in [Keys -> Versions \cup {None}]
      /\ disturbed' \in [Pollers -> BOOLEAN]
  BY DEF Reshape, TypeOK
<1>2. /\ items' \in Plans \cup {NoPlan} /\ torn' \in BOOLEAN
      /\ plan' \in [{"self", "pool"} -> Plans \cup {NoPlan}]
  BY InvalidateType DEF Reshape, TypeOK
<1>3. UNCHANGED <<counts, width, stride, inst, epoch, filled, taskVars>>
  BY DEF Reshape
<1>4. QED BY <1>1, <1>2, <1>3 DEF TypeOK, taskVars

\* Every edit is a reshape that drops the values of all the targets it changes.
LEMMA EditsReshape ==
  ASSUME TypeOK, Edit
  PROVE  \E tg \in [Keys -> Versions \cup {None}], dropped \in SUBSET Keys : Reshape(tg, dropped)
<1>1. ASSUME NEW k \in Keys, NEW v \in Versions, Add(k, v)
      PROVE  \E tg \in [Keys -> Versions \cup {None}], dropped \in SUBSET Keys : Reshape(tg, dropped)
  <2>1. [target EXCEPT ![k] = v] \in [Keys -> Versions \cup {None}]
    BY DEF TypeOK
  <2>2. QED BY <1>1, <2>1 DEF Add
<1>2. ASSUME NEW keys \in Droppable, Drop(keys)
      PROVE  \E tg \in [Keys -> Versions \cup {None}], dropped \in SUBSET Keys : Reshape(tg, dropped)
  <2>1. [k \in Keys |-> IF k \in keys THEN None ELSE target[k]]
          \in [Keys -> Versions \cup {None}]
    BY DEF TypeOK
  <2>2. keys \in SUBSET Keys
    BY DEF Droppable
  <2>3. QED BY <1>2, <2>1, <2>2 DEF Drop
<1>3. QED BY <1>1, <1>2 DEF Edit

LEMMA InitTypeOK == Init => TypeOK
<1> SUFFICES ASSUME Init PROVE TypeOK
  OBVIOUS
<1>1. /\ inst \in [Groups -> Seq(Built)]
      /\ \A g \in Groups : Len(inst[g]) <= MaxCount
  BY RefreshAssumption DEF Init
<1>2. counts \in Counts /\ epoch \in 0 .. MaxEpoch
  BY RefreshAssumption DEF Init, Counts
<1>3. NothingRead \in Plans
  BY DEF NothingRead, Plans
<1>4. Instances(inst) \subseteq Objects /\ Own(target) \subseteq Keys \X Versions
  <2>1. Instances(inst) \subseteq Objects
    BY <1>1, InstancesType
  <2>2. target \in [Keys -> Versions \cup {None}]
    BY RefreshAssumption DEF Init
  <2>3. QED BY <2>1, <2>2 DEF Own
<1>5. items \in Plans \cup {NoPlan}
  BY <1>4 DEF Init, Covers, Targets, Plans
<1>6. QED BY <1>1, <1>2, <1>3, <1>5, RefreshAssumption DEF Init, TypeOK

LEMMA NextTypeOK == TypeOK /\ [Next]_vars => TypeOK'
<1> SUFFICES ASSUME TypeOK, [Next]_vars PROVE TypeOK'
  OBVIOUS
<1>1. CASE Edit
  BY <1>1, EditsReshape, ReshapeType
<1>2. ASSUME NEW t \in Pollers, PollerStep(t)
      PROVE  TypeOK'
  <2>1. CASE Poll(t) \/ PollConflicts(t)
    BY <2>1, PollType
  <2>2. CASE ReadFails(t) \/ GrowReturns(t)
    BY <2>2, ReadType
  <2>3. CASE ReadReturns(t) \/ ResizeGroups(t)
    BY <2>3, SecondPassesType
  <2>4. QED BY <1>2, <2>1, <2>2, <2>3 DEF PollerStep
<1>3. CASE UNCHANGED vars
  BY <1>3 DEF vars, TypeOK
<1>4. QED BY <1>1, <1>2, <1>3 DEF Next

\* The state is well-formed: plans, reads and instances are of the declared
\* targets and groups, and no more instances than the largest count.
THEOREM RefreshTypeCorrect == Spec => []TypeOK
BY InitTypeOK, NextTypeOK, PTL DEF Spec

-----------------------------------------------------------------------------
(* No plan is stale, and an update that returns is complete and has placed  *)
(* every group: for any number of pollers, targets and groups, whatever the *)
(* strides resolve to and whenever the readable maps conflict.              *)

\* The groups the resize loop gets to are as the last counts and strides say.
PlacedSettled ==
  \A g \in Placed(counts, width) :
     /\ Len(inst[g]) = counts[g]
     /\ counts[g] > 0 => stride[g] = width[g]

BuiltAtStride ==
  \A g \in Groups : \A n \in DOMAIN inst[g] : inst[g][n][2] = stride[g]

CachesCurrent ==
  torn \/ (items \in {NoPlan, Covers} /\ OwnPlanIsCurrent /\ PoolPlanIsCurrent)

\* A reshape an exception cut short: nobody in flight counts on it.
TornKnown == torn => \A t \in Pollers : pc[t] # "idle" => disturbed[t]

Stored == \A k \in Keys : target[k] # None => value[k] = target[k]

\* A read that began before an edit is out: nobody in flight counts on the edit.
StaleReadsKnown ==
  \A u \in Pollers : pc[u] = "read" /\ reading[u].own # Own(target)
                       => \A t \in Pollers : pc[t] # "idle" => disturbed[t]

FirstPassCovers ==
  \A t \in Pollers : pc[t] = "read" /\ ~disturbed[t] => reading[t] = Covers

SecondPassCompletes ==
  \A t \in Pollers : pc[t] = "grow" /\ ~disturbed[t] =>
     /\ filled \cup adding[t] = Instances(inst) /\ Stored
     /\ Placed(counts, width) = Groups

RefreshInv == /\ TypeOK /\ PlacedSettled /\ BuiltAtStride /\ CachesCurrent /\ TornKnown
              /\ StaleReadsKnown /\ FirstPassCovers /\ SecondPassCompletes

-----------------------------------------------------------------------------
\* What a second pass does.  It resizes nothing and no other poller notices, or all
\* of them do; then it fails, is done, or reads what it added.
LEMMA SecondPassKinds ==
  ASSUME TypeOK, NEW t \in Pollers, NEW c, NEW w, NEW stored, SecondPass(t, c, w, stored)
  PROVE  /\ filled' = stored \cap Instances(inst')
         /\ \/ /\ Placed(c, w) = Groups /\ inst' = inst
               /\ UNCHANGED <<torn, disturbed>> /\ End(t, "ok")
            \/ /\ Disturb(t)
               /\ \/ End(t, "raised")
                  \/ /\ Placed(c, w) = Groups /\ End(t, "ok")
                     /\ Instances(inst') \subseteq Instances(inst)
                  \/ /\ Placed(c, w) = Groups /\ ~torn'
                     /\ pc' = [pc EXCEPT ![t] = "grow"]
                     /\ reading' = [reading EXCEPT ![t] = NothingRead]
                     /\ adding' = [adding EXCEPT ![t] = Instances(inst') \ Instances(inst)]
<1>1. inst' = Resized(c, w) /\ filled' = stored \cap Instances(inst')
  BY DEF SecondPass
<1>2. CASE Placed(c, w) # Groups
  <2>1. Disturb(t) /\ End(t, "raised")
    BY <1>2 DEF SecondPass
  <2>2. QED BY <1>1, <2>1
<1>3. CASE Placed(c, w) = Groups /\ Changed(c, w) = {}
  <2>1. inst' = inst
    BY <1>1, <1>3 DEF Resized, TypeOK
  <2>2. UNCHANGED <<torn, disturbed>> /\ End(t, "ok")
    BY <1>3 DEF SecondPass, caches
  <2>3. QED BY <1>1, <1>3, <2>1, <2>2
<1>4. CASE Placed(c, w) = Groups /\ Changed(c, w) # {}
  <2>1. Disturb(t)
    BY <1>4 DEF SecondPass
  <2>2. \/ End(t, "raised")
        \/ End(t, "ok") /\ Instances(inst') \ Instances(inst) = {}
        \/ /\ ~torn'
           /\ pc' = [pc EXCEPT ![t] = "grow"]
           /\ reading' = [reading EXCEPT ![t] = NothingRead]
           /\ adding' = [adding EXCEPT ![t] = Instances(inst') \ Instances(inst)]
    BY <1>1, <1>4 DEF SecondPass, Invalidate
  <2>3. QED BY <1>1, <1>4, <2>1, <2>2
<1>5. QED BY <1>2, <1>3, <1>4

LEMMA InvalidateCaches ==
  ASSUME NEW tg, NEW f, Invalidate(tg, f), target' = tg, inst' = f
  PROVE  CachesCurrent'
<1>1. Covers' = Targets(tg, f)
  BY DEF Covers, Targets, Own, Instances
<1>2. CASE PoolFits(Sizes(f))
  <2>1. plan' = [v \in {"self", "pool"} |-> NoPlan]
    BY <1>2 DEF Invalidate
  <2>2. items' \in {NoPlan, Covers'}
    BY <1>1 DEF Invalidate
  <2>3. QED BY <2>1, <2>2 DEF CachesCurrent, OwnPlanIsCurrent, PoolPlanIsCurrent
<1>3. CASE ~PoolFits(Sizes(f))
  BY <1>3 DEF Invalidate, CachesCurrent
<1>4. QED BY <1>2, <1>3

LEMMA SecondPassCaches ==
  ASSUME TypeOK, CachesCurrent, NEW t \in Pollers, NEW c, NEW w, NEW stored,
         SecondPass(t, c, w, stored), target' = target
  PROVE  CachesCurrent'
<1>1. inst' = Resized(c, w)
  BY DEF SecondPass
<1>2. CASE UNCHANGED <<items, plan, torn>> /\ Changed(c, w) = {}
  <2>1. inst' = inst
    BY <1>1, <1>2 DEF Resized, TypeOK
  <2>2. Covers' = Covers
    BY <2>1 DEF Covers, Targets, Own, Instances
  <2>3. QED BY <1>2, <2>2 DEF CachesCurrent, OwnPlanIsCurrent, PoolPlanIsCurrent
<1>3. CASE Invalidate(target, inst')
  BY <1>3, InvalidateCaches
<1>4. CASE torn'
  BY <1>4 DEF CachesCurrent
<1>5. \/ UNCHANGED <<items, plan, torn>> /\ Changed(c, w) = {}
      \/ Invalidate(target, inst') \/ torn'
  <2>1. CASE Placed(c, w) # Groups
    <3>1. UNCHANGED <<items, plan>> /\ torn' = (torn \/ Changed(c, w) # {})
      BY <2>1 DEF SecondPass
    <3>2. torn \in BOOLEAN
      BY DEF TypeOK
    <3>3. CASE Changed(c, w) = {}
      BY <3>1, <3>2, <3>3
    <3>4. QED BY <3>1, <3>3
  <2>2. CASE Placed(c, w) = Groups
    BY <1>1, <2>2 DEF SecondPass, caches
  <2>3. QED BY <2>1, <2>2
<1>6. QED BY <1>2, <1>3, <1>4, <1>5

\* Resizing settles the groups it gets to, and leaves each at one stride.
LEMMA SecondPassSettles ==
  ASSUME TypeOK, BuiltAtStride, NEW t \in Pollers, NEW c \in Counts,
         NEW w \in [Groups -> Widths \cup {0}],
         NEW stored, SecondPass(t, c, w, stored), counts' = c, width' = w
  PROVE  PlacedSettled' /\ BuiltAtStride'
<1>1. inst' = Resized(c, w) /\ stride' = Strided(c, w)
  BY DEF SecondPass
<1>2. /\ \A g \in Changed(c, w) : Len(inst'[g]) = c[g]
      /\ \A g \in Groups \ Changed(c, w) : inst'[g] = inst[g]
  <2>1. inst \in [Groups -> Seq(Built)] /\ epoch \in 0 .. MaxEpoch
    BY DEF TypeOK
  <2>2. /\ \A g \in Changed(c, w) : Len(Resized(c, w)[g]) = c[g]
        /\ \A g \in Groups \ Changed(c, w) : Resized(c, w)[g] = inst[g]
    BY <2>1, ResizedType
  <2>3. QED BY <1>1, <2>2
<1>3. ASSUME NEW g \in Groups
      PROVE  c[g] \in Nat /\ inst[g] \in Seq(Built) /\ Len(inst[g]) \in Nat
  <2>1. inst[g] \in Seq(Built)
    BY DEF TypeOK
  <2>2. QED BY <2>1, SeqDomain, RefreshAssumption DEF Counts
<1>4. ASSUME NEW g \in Placed(c, w), g \notin Changed(c, w)
      PROVE  Kept(g, c, w) = inst[g] /\ Len(inst[g]) = c[g]
  <2>1. g \in Groups /\ Len(Kept(g, c, w)) = c[g]
    BY <1>4 DEF Changed, Placed
  <2>2. QED BY <1>3, <2>1 DEF Kept
<1>5. ASSUME NEW g \in Placed(c, w), c[g] > 0, Kept(g, c, w) # <<>>
      PROVE  Kept(g, c, w) = inst[g] /\ stride'[g] = w[g] /\ stride'[g] = stride[g]
  BY <1>1, <1>5 DEF Kept, Strided, Placed
<1>6. PlacedSettled'
  <2> SUFFICES ASSUME NEW g \in Placed(c, w)
               PROVE  /\ Len(inst'[g]) = c[g]
                      /\ c[g] > 0 => stride'[g] = w[g]
    BY DEF PlacedSettled
  <2>1. g \in Groups
    BY DEF Placed
  <2>2. c[g] > 0 => stride'[g] = w[g]
    BY <1>1, <2>1 DEF Strided
  <2>3. Len(inst'[g]) = c[g]
    BY <1>2, <1>4, <2>1
  <2>4. QED BY <2>2, <2>3
<1>7. BuiltAtStride'
  <2> SUFFICES ASSUME NEW g \in Groups, NEW n \in DOMAIN inst'[g]
               PROVE  inst'[g][n][2] = stride'[g]
    BY DEF BuiltAtStride
  <2>1. CASE g \notin Changed(c, w)
    <3>1. inst'[g] = inst[g]
      BY <1>2, <2>1
    <3>2. stride'[g] = stride[g]
      <4>1. CASE g \in Placed(c, w) /\ c[g] > 0
        <5>1. Kept(g, c, w) = inst[g] /\ Len(inst[g]) = c[g]
          BY <1>4, <2>1, <4>1
        <5>2. Kept(g, c, w) # <<>>
          BY <4>1, <5>1
        <5>3. QED BY <1>5, <4>1, <5>2
      <4>2. CASE ~(g \in Placed(c, w) /\ c[g] > 0)
        BY <1>1, <4>2 DEF Strided
      <4>3. QED BY <4>1, <4>2
    <3>3. QED BY <3>1, <3>2 DEF BuiltAtStride
  <2>2. CASE g \in Changed(c, w)
    <3>1. g \in Placed(c, w)
      BY <2>2 DEF Changed
    <3>2. inst'[g] = [m \in 1 .. c[g] |->
                        IF m <= Len(Kept(g, c, w)) THEN Kept(g, c, w)[m]
                                                   ELSE <<epoch, Strided(c, w)[g]>>]
      BY <1>1, <2>2 DEF Resized
    <3>3. n \in 1 .. c[g] /\ c[g] > 0
      BY <1>3, <3>2
    <3>4. CASE n <= Len(Kept(g, c, w))
      <4>1. Kept(g, c, w) # <<>>
        BY <3>3, <3>4
      <4>2. Kept(g, c, w) = inst[g] /\ stride'[g] = stride[g]
        BY <1>5, <3>1, <3>3, <4>1
      <4>3. n \in DOMAIN inst[g]
        BY <1>3, <3>3, <3>4, <4>2, SeqDomain
      <4>4. inst'[g][n] = inst[g][n]
        BY <3>2, <3>3, <3>4, <4>2
      <4>5. QED BY <4>2, <4>3, <4>4 DEF BuiltAtStride
    <3>5. CASE ~(n <= Len(Kept(g, c, w)))
      BY <1>1, <3>2, <3>3, <3>5
    <3>6. QED BY <3>4, <3>5
  <2>3. QED BY <2>1, <2>2
<1>8. QED BY <1>6, <1>7

\* With the groups settled a resize without a read finds nothing to do.
LEMMA ResizeFindsNothing ==
  ASSUME TypeOK, PlacedSettled, NEW t \in Pollers, ResizeGroups(t)
  PROVE  /\ UNCHANGED <<target, value, counts, width, stride, inst, caches>>
         /\ filled' = filled /\ \E how \in {"ok", "raised"} : End(t, how)
         /\ UNCHANGED disturbed \/ Disturb(t)
<1>1. SecondPass(t, counts, width, filled) /\ UNCHANGED <<target, value, counts, width>>
  BY DEF ResizeGroups
<1>2. Changed(counts, width) = {}
  BY DEF Changed, Kept, PlacedSettled
<1>3. inst' = inst
  BY <1>1, <1>2 DEF SecondPass, Resized, TypeOK
<1>4. stride' = stride
  BY <1>1 DEF SecondPass, Strided, PlacedSettled, TypeOK
<1>5. filled' = filled
  BY <1>1, <1>3 DEF SecondPass, TypeOK
<1>6. UNCHANGED caches /\ \E how \in {"ok", "raised"} : End(t, how)
  <2>1. torn \in BOOLEAN
    BY DEF TypeOK
  <2>2. QED BY <1>1, <1>2, <2>1 DEF SecondPass, caches
<1>7. UNCHANGED disturbed \/ Disturb(t)
  BY <1>1 DEF SecondPass
<1>8. QED BY <1>1, <1>3, <1>4, <1>5, <1>6, <1>7

\* A first pass that began at the targets there are now stores a value of each.
LEMMA CurrentReadStores ==
  ASSUME TypeOK, NEW t \in Pollers, ReadReturns(t), reading[t].own = Own(target)
  PROVE  Stored'
<1>1. SUFFICES ASSUME NEW k \in Keys, target[k] # None
               PROVE  value'[k] = target[k]
  <2>1. target' = target
    BY DEF ReadReturns
  <2>2. QED BY <1>1, <2>1 DEF Stored
<1>2. target[k] \in Versions
  BY <1>1 DEF TypeOK
<1>3. \A v \in Versions : <<k, v>> \in reading[t].own <=> v = target[k]
  BY <1>1, RefreshAssumption DEF Own
<1>4. (CHOOSE v \in Versions : <<k, v>> \in reading[t].own) = target[k]
  BY <1>2, <1>3
<1>5. QED BY <1>2, <1>3, <1>4 DEF ReadReturns

-----------------------------------------------------------------------------
(* RefreshInv is inductive.                                                *)

LEMMA EndEffect ==
  ASSUME TypeOK, NEW t \in Pollers, NEW how, End(t, how)
  PROVE  /\ pc'[t] = "idle" /\ outcome'[t] = how
         /\ \A u \in Pollers \ {t} : /\ pc'[u] = pc[u] /\ reading'[u] = reading[u]
                                     /\ adding'[u] = adding[u] /\ outcome'[u] = outcome[u]
BY DEF End, TypeOK

LEMMA InitRefreshInv == Init => RefreshInv
<1> SUFFICES ASSUME Init PROVE RefreshInv
  OBVIOUS
<1>1. PlacedSettled /\ BuiltAtStride
  BY DEF Init, PlacedSettled, BuiltAtStride, Placed
<1>2. CachesCurrent /\ TornKnown
  BY DEF Init, CachesCurrent, OwnPlanIsCurrent, PoolPlanIsCurrent, TornKnown
<1>3. StaleReadsKnown /\ FirstPassCovers /\ SecondPassCompletes
  BY DEF Init, StaleReadsKnown, FirstPassCovers, SecondPassCompletes
<1>4. QED BY <1>1, <1>2, <1>3, InitTypeOK DEF RefreshInv

\* The parts of the invariant about updates in flight.
InFlight == TornKnown /\ StaleReadsKnown /\ FirstPassCovers /\ SecondPassCompletes

LEMMA PollInv ==
  ASSUME RefreshInv, NEW t \in Pollers, Poll(t)
  PROVE  PlacedSettled' /\ BuiltAtStride' /\ CachesCurrent' /\ InFlight'
<1> USE DEF RefreshInv
<1> DEFINE p == IF plan[Via[t]] = NoPlan
                THEN IF items = NoPlan THEN Covers ELSE items ELSE plan[Via[t]]
<1>1. Via[t] \in {"self", "pool"} /\ TypeOK
  BY RefreshAssumption
<1>2. torn \/ p = Covers
  BY <1>1 DEF CachesCurrent, OwnPlanIsCurrent, PoolPlanIsCurrent
<1>3. /\ plan' = [plan EXCEPT ![Via[t]] = p]
      /\ items' \in {items, p} /\ torn' = torn
      /\ UNCHANGED <<layout, value, counts, width, filled>>
      /\ disturbed' = [disturbed EXCEPT ![t] =
             torn \/ \E u \in Pollers \ {t} : pc[u] # "idle" /\ disturbed[u]]
      /\ \/ End(t, "ok")
         \/ /\ pc' = [pc EXCEPT ![t] = "read"]
            /\ reading' = [reading EXCEPT ![t] = p]
            /\ UNCHANGED adding
  BY DEF Poll
<1> HIDE DEF p
<1>4. Covers' = Covers /\ Own(target)' = Own(target) /\ Instances(inst)' = Instances(inst)
      /\ (Stored <=> Stored')
  BY <1>3 DEF layout, Covers, Targets, Own, Instances, Stored
<1>5. /\ pc'[t] \in {"idle", "read"}
      /\ pc'[t] = "read" => reading'[t] = p
      /\ \A u \in Pollers \ {t} : /\ pc'[u] = pc[u] /\ reading'[u] = reading[u]
                                  /\ adding'[u] = adding[u] /\ disturbed'[u] = disturbed[u]
  <2>1. CASE End(t, "ok")
    BY <1>1, <1>3, <2>1, EndEffect DEF TypeOK
  <2>2. CASE ~End(t, "ok")
    BY <1>1, <1>3, <2>2 DEF TypeOK
  <2>3. QED BY <2>1, <2>2
<1>6. disturbed'[t] <=> torn \/ \E u \in Pollers \ {t} : pc[u] # "idle" /\ disturbed[u]
  BY <1>1, <1>3 DEF TypeOK
<1>7. PlacedSettled' /\ BuiltAtStride'
  BY <1>3 DEF PlacedSettled, BuiltAtStride, Placed, layout
<1>8. CachesCurrent'
  <2>1. CASE torn
    BY <1>3, <2>1 DEF CachesCurrent
  <2>2. CASE ~torn
    BY <1>1, <1>2, <1>3, <1>4, <2>2 DEF CachesCurrent, OwnPlanIsCurrent, PoolPlanIsCurrent, TypeOK
  <2>3. QED BY <2>1, <2>2
<1>9. TornKnown'
  <2> SUFFICES ASSUME torn, NEW x \in Pollers, pc'[x] # "idle" PROVE disturbed'[x]
    BY <1>3 DEF TornKnown
  <2>1. CASE x = t
    BY <1>6, <2>1
  <2>2. CASE x # t
    BY <1>5, <2>2 DEF TornKnown
  <2>3. QED BY <2>1, <2>2
<1>10. StaleReadsKnown'
  <2> SUFFICES ASSUME NEW u \in Pollers, pc'[u] = "read", reading'[u].own # Own(target),
                      NEW x \in Pollers, pc'[x] # "idle"
               PROVE  disturbed'[x]
    BY <1>4 DEF StaleReadsKnown
  <2>1. CASE torn
    BY <1>3, <1>9, <2>1 DEF TornKnown
  <2>2. CASE ~torn
    <3>1. u # t
      BY <1>2, <1>5, <2>2 DEF Covers, Targets
    <3>2. \A y \in Pollers : pc[y] # "idle" => disturbed[y]
      BY <1>5, <3>1 DEF StaleReadsKnown
    <3>3. CASE x # t
      BY <1>5, <3>2, <3>3
    <3>4. CASE x = t
      <4>1. u \in Pollers \ {t} /\ pc[u] # "idle" /\ disturbed[u]
        BY <1>5, <3>1, <3>2
      <4>2. QED BY <1>6, <3>4, <4>1
    <3>5. QED BY <3>3, <3>4
  <2>3. QED BY <2>1, <2>2
<1>11. FirstPassCovers'
  BY <1>2, <1>4, <1>5, <1>6 DEF FirstPassCovers
<1>12. SecondPassCompletes'
  <2>1. Placed(counts, width)' = Placed(counts, width) /\ filled' = filled
    BY <1>3 DEF Placed
  <2>2. QED BY <1>4, <1>5, <2>1 DEF SecondPassCompletes
<1>13. QED BY <1>7, <1>8, <1>9, <1>10, <1>11, <1>12 DEF InFlight

LEMMA ReadEndsInv ==
  ASSUME RefreshInv, NEW t \in Pollers, ReadFails(t) \/ GrowReturns(t) \/ ResizeGroups(t)
  PROVE  PlacedSettled' /\ BuiltAtStride' /\ CachesCurrent' /\ InFlight'
<1> USE DEF RefreshInv
<1>1. /\ UNCHANGED <<target, inst, stride, value, counts, width, caches>>
      /\ \E how \in {"ok", "raised"} : End(t, how)
      /\ filled \subseteq filled' /\ filled' \subseteq Instances(inst)
      /\ UNCHANGED disturbed \/ Disturb(t)
  <2>1. CASE ReadFails(t)
    BY <2>1 DEF ReadFails, layout, TypeOK
  <2>2. CASE GrowReturns(t)
    BY <2>2 DEF GrowReturns, layout, TypeOK
  <2>3. CASE ResizeGroups(t)
    <3>1. filled \subseteq Instances(inst)
      BY DEF TypeOK
    <3>2. QED BY <2>3, <3>1, ResizeFindsNothing
  <2>4. QED BY <2>1, <2>2, <2>3
<1>2. /\ Covers' = Covers /\ Own(target)' = Own(target) /\ Instances(inst)' = Instances(inst)
      /\ (Stored <=> Stored') /\ Placed(counts, width)' = Placed(counts, width)
      /\ torn' = torn
  BY <1>1 DEF Covers, Targets, Own, Instances, Stored, Placed, caches
<1>3. /\ pc'[t] = "idle"
      /\ \A u \in Pollers \ {t} : /\ pc'[u] = pc[u] /\ reading'[u] = reading[u]
                                  /\ adding'[u] = adding[u]
  BY <1>1, EndEffect
<1>4. \A u \in Pollers : disturbed[u] => disturbed'[u]
  BY <1>1 DEF Disturb
<1>5. PlacedSettled' /\ BuiltAtStride'
  BY <1>1, <1>2 DEF PlacedSettled, BuiltAtStride
<1>6. CachesCurrent'
  BY <1>1, <1>2 DEF CachesCurrent, OwnPlanIsCurrent, PoolPlanIsCurrent, caches
<1>7. TornKnown'
  BY <1>2, <1>3, <1>4 DEF TornKnown
<1>8. StaleReadsKnown'
  BY <1>2, <1>3, <1>4 DEF StaleReadsKnown
<1>9. FirstPassCovers'
  BY <1>2, <1>3, <1>4 DEF FirstPassCovers
<1>10. SecondPassCompletes'
  <2> SUFFICES ASSUME NEW x \in Pollers, pc'[x] = "grow", ~disturbed'[x]
               PROVE  /\ filled' \cup adding'[x] = Instances(inst) /\ Stored
                      /\ Placed(counts, width) = Groups
    BY <1>2 DEF SecondPassCompletes
  <2>1. /\ filled \cup adding[x] = Instances(inst) /\ Stored
        /\ Placed(counts, width) = Groups
    BY <1>3, <1>4 DEF SecondPassCompletes
  <2>2. adding'[x] = adding[x]
    BY <1>3
  <2>3. QED BY <1>1, <2>1, <2>2
<1>11. QED BY <1>5, <1>6, <1>7, <1>8, <1>9, <1>10 DEF InFlight

LEMMA ReshapeInv ==
  ASSUME RefreshInv, NEW tg, NEW dropped, Reshape(tg, dropped)
  PROVE  PlacedSettled' /\ BuiltAtStride' /\ CachesCurrent' /\ InFlight'
<1> USE DEF RefreshInv
<1>1. /\ UNCHANGED <<inst, stride, counts, width, pc>>
      /\ \A t \in Pollers : pc[t] # "idle" => disturbed'[t]
      /\ Invalidate(tg, inst) /\ target' = tg
  BY DEF Reshape, taskVars
<1>2. PlacedSettled' /\ BuiltAtStride'
  BY <1>1 DEF PlacedSettled, BuiltAtStride, Placed
<1>3. CachesCurrent'
  BY <1>1, InvalidateCaches
<1>4. InFlight'
  BY <1>1 DEF InFlight, TornKnown, StaleReadsKnown, FirstPassCovers, SecondPassCompletes
<1>5. QED BY <1>2, <1>3, <1>4

LEMMA PollConflictsInv ==
  ASSUME RefreshInv, NEW t \in Pollers, PollConflicts(t)
  PROVE  PlacedSettled' /\ BuiltAtStride' /\ CachesCurrent' /\ InFlight'
<1> USE DEF RefreshInv
<1>1. /\ UNCHANGED <<target, inst, stride, value, counts, width, filled, plan, torn, pc,
                     reading, adding, disturbed>>
      /\ items' \in {items, Covers}
  BY DEF PollConflicts, layout
<1>2. Covers' = Covers /\ Own(target)' = Own(target) /\ Instances(inst)' = Instances(inst)
      /\ (Stored <=> Stored') /\ Placed(counts, width)' = Placed(counts, width)
  BY <1>1 DEF Covers, Targets, Own, Instances, Stored, Placed
<1>3. PlacedSettled' /\ BuiltAtStride'
  BY <1>1, <1>2 DEF PlacedSettled, BuiltAtStride
<1>4. CachesCurrent'
  BY <1>1, <1>2 DEF CachesCurrent, OwnPlanIsCurrent, PoolPlanIsCurrent
<1>5. TornKnown' /\ StaleReadsKnown' /\ FirstPassCovers'
  BY <1>1, <1>2 DEF TornKnown, StaleReadsKnown, FirstPassCovers
<1>6. SecondPassCompletes'
  BY <1>1, <1>2 DEF SecondPassCompletes
<1>7. QED BY <1>3, <1>4, <1>5, <1>6 DEF InFlight

\* What the end of a first pass does, in the terms the invariant is about.
LEMMA ReadReturnsKinds ==
  ASSUME TypeOK, BuiltAtStride, CachesCurrent, NEW t \in Pollers, ReadReturns(t)
  PROVE  /\ target' = target /\ pc[t] = "read"
         /\ PlacedSettled' /\ BuiltAtStride' /\ CachesCurrent'
         /\ filled' = (filled \cup reading[t].insts) \cap Instances(inst')
         /\ \/ /\ Placed(counts', width') = Groups /\ inst' = inst
               /\ UNCHANGED <<torn, disturbed>> /\ End(t, "ok")
            \/ /\ Disturb(t)
               /\ \/ End(t, "raised")
                  \/ /\ Placed(counts', width') = Groups /\ End(t, "ok")
                     /\ Instances(inst') \subseteq Instances(inst)
                  \/ /\ Placed(counts', width') = Groups /\ ~torn'
                     /\ pc' = [pc EXCEPT ![t] = "grow"]
                     /\ reading' = [reading EXCEPT ![t] = NothingRead]
                     /\ adding' = [adding EXCEPT ![t] = Instances(inst') \ Instances(inst)]
<1>1. PICK c \in Counts, w \in [Groups -> Widths \cup {0}] :
             /\ counts' = c /\ width' = w
             /\ SecondPass(t, c, w, filled \cup reading[t].insts)
  BY DEF ReadReturns
<1>2. target' = target /\ pc[t] = "read"
  BY DEF ReadReturns
<1>3. PlacedSettled' /\ BuiltAtStride'
  BY <1>1, SecondPassSettles
<1>4. CachesCurrent'
  BY <1>1, <1>2, SecondPassCaches
<1>5. QED BY <1>1, <1>2, <1>3, <1>4, SecondPassKinds

LEMMA ReadReturnsInv ==
  ASSUME RefreshInv, NEW t \in Pollers, ReadReturns(t)
  PROVE  PlacedSettled' /\ BuiltAtStride' /\ CachesCurrent' /\ InFlight'
<1>1. TypeOK /\ BuiltAtStride /\ CachesCurrent /\ TornKnown
      /\ StaleReadsKnown /\ FirstPassCovers /\ SecondPassCompletes
  BY DEF RefreshInv
<1>2. /\ target' = target /\ pc[t] = "read"
      /\ filled' = (filled \cup reading[t].insts) \cap Instances(inst')
      /\ Own(target)' = Own(target)
  BY <1>1, ReadReturnsKinds DEF Own
<1>3. ASSUME reading[t].own = Own(target) PROVE Stored'
  BY <1>1, <1>3, CurrentReadStores
<1>4. PlacedSettled' /\ BuiltAtStride' /\ CachesCurrent'
  BY <1>1, ReadReturnsKinds
<1>5. CASE /\ Placed(counts', width') = Groups /\ inst' = inst
           /\ UNCHANGED <<torn, disturbed>> /\ End(t, "ok")
  <2>1. Covers' = Covers /\ Instances(inst)' = Instances(inst)
    BY <1>2, <1>5 DEF Covers, Targets, Own, Instances
  <2>2. /\ pc'[t] = "idle"
        /\ \A u \in Pollers \ {t} : /\ pc'[u] = pc[u] /\ reading'[u] = reading[u]
                                    /\ adding'[u] = adding[u] /\ disturbed'[u] = disturbed[u]
    BY <1>1, <1>5, EndEffect
  <2>3. TornKnown'
    BY <1>1, <1>5, <2>2 DEF TornKnown
  <2>4. StaleReadsKnown'
    BY <1>1, <1>2, <2>2 DEF StaleReadsKnown
  <2>5. FirstPassCovers'
    BY <1>1, <2>1, <2>2 DEF FirstPassCovers
  <2>6. SecondPassCompletes'
    <3> SUFFICES ASSUME NEW x \in Pollers, pc'[x] = "grow", ~disturbed'[x]
                 PROVE  filled' \cup adding'[x] = Instances(inst) /\ Stored'
      BY <1>5, <2>1 DEF SecondPassCompletes, Placed
    <3>1. x \in Pollers \ {t} /\ pc[x] = "grow" /\ ~disturbed[x]
      BY <2>2
    <3>2. filled \cup adding[x] = Instances(inst) /\ adding'[x] = adding[x]
      BY <1>1, <2>2, <3>1 DEF SecondPassCompletes
    <3>3. filled \subseteq filled' /\ filled' \subseteq Instances(inst)
      BY <1>1, <1>2, <1>5 DEF TypeOK
    <3>4. reading[t].own = Own(target)
      BY <1>1, <1>2, <3>1 DEF StaleReadsKnown
    <3>5. QED BY <1>3, <3>2, <3>3, <3>4
  <2>7. QED BY <1>4, <2>3, <2>4, <2>5, <2>6 DEF InFlight
<1>6. CASE Disturb(t)
  <2>1. \/ \E how : End(t, how)
        \/ /\ Placed(counts', width') = Groups /\ ~torn'
           /\ pc' = [pc EXCEPT ![t] = "grow"]
           /\ reading' = [reading EXCEPT ![t] = NothingRead]
           /\ adding' = [adding EXCEPT ![t] = Instances(inst') \ Instances(inst)]
    BY <1>1, ReadReturnsKinds
  <2>2. /\ \/ pc'[t] = "idle"
           \/ /\ pc'[t] = "grow" /\ ~torn' /\ Placed(counts', width') = Groups
              /\ adding'[t] = Instances(inst') \ Instances(inst)
        /\ \A u \in Pollers \ {t} : /\ pc'[u] = pc[u] /\ reading'[u] = reading[u]
                                    /\ adding'[u] = adding[u]
    <3>1. CASE \E how : End(t, how)
      BY <1>1, <3>1, EndEffect
    <3>2. CASE ~\E how : End(t, how)
      BY <1>1, <2>1, <3>2 DEF TypeOK
    <3>3. QED BY <3>1, <3>2
  <2>3. /\ disturbed'[t] = disturbed[t]
        /\ \A u \in Pollers \ {t} : pc[u] # "idle" => disturbed'[u]
        /\ \A u \in Pollers : disturbed[u] => disturbed'[u]
    BY <1>1, <1>6 DEF Disturb, TypeOK
  <2>4. TornKnown'
    BY <2>2, <2>3 DEF TornKnown
  <2>5. StaleReadsKnown'
    <3> SUFFICES ASSUME NEW u \in Pollers, pc'[u] = "read", reading'[u].own # Own(target),
                        NEW x \in Pollers, pc'[x] # "idle"
                 PROVE  disturbed'[x]
      BY <1>2 DEF StaleReadsKnown
    <3>1. u \in Pollers \ {t} /\ pc[u] = "read" /\ reading[u].own # Own(target)
      BY <2>2
    <3>2. \A y \in Pollers : pc[y] # "idle" => disturbed[y]
      BY <1>1, <3>1 DEF StaleReadsKnown
    <3>3. pc[x] # "idle"
      BY <1>2, <2>2
    <3>4. QED BY <2>3, <3>2, <3>3
  <2>6. FirstPassCovers'
    BY <2>2, <2>3 DEF FirstPassCovers
  <2>7. SecondPassCompletes'
    <3> SUFFICES ASSUME NEW x \in Pollers, pc'[x] = "grow", ~disturbed'[x]
                 PROVE  /\ filled' \cup adding'[x] = Instances(inst') /\ Stored'
                        /\ Placed(counts', width') = Groups
      BY DEF SecondPassCompletes, Instances, Placed
    <3>1. x = t /\ ~disturbed[t]
      BY <2>2, <2>3
    <3>2. reading[t] = Covers
      BY <1>1, <1>2, <3>1 DEF FirstPassCovers
    <3>3. filled' = (filled \cup Instances(inst)) \cap Instances(inst')
      BY <1>2, <3>2 DEF Covers, Targets
    <3>4. adding'[t] = Instances(inst') \ Instances(inst) /\ Placed(counts', width') = Groups
      BY <2>2, <3>1
    <3>5. filled \subseteq Instances(inst)
      BY <1>1 DEF TypeOK
    <3>6. Stored'
      BY <1>3, <3>2 DEF Covers, Targets
    <3>7. QED BY <3>1, <3>3, <3>4, <3>5, <3>6
  <2>8. QED BY <1>4, <2>4, <2>5, <2>6, <2>7 DEF InFlight
<1>7. QED BY <1>1, <1>5, <1>6, ReadReturnsKinds

LEMMA NextRefreshInv == RefreshInv /\ [Next]_vars => RefreshInv'
<1> SUFFICES ASSUME RefreshInv, [Next]_vars PROVE RefreshInv'
  OBVIOUS
<1>1. TypeOK /\ TypeOK'
  BY NextTypeOK DEF RefreshInv
<1>2. CASE Edit
  BY <1>1, <1>2, EditsReshape, ReshapeInv DEF RefreshInv, InFlight
<1>3. ASSUME NEW t \in Pollers, PollerStep(t)
      PROVE  RefreshInv'
  <2>1. CASE Poll(t)
    BY <1>1, <2>1, PollInv DEF RefreshInv, InFlight
  <2>2. CASE PollConflicts(t)
    BY <1>1, <2>2, PollConflictsInv DEF RefreshInv, InFlight
  <2>3. CASE ReadFails(t) \/ GrowReturns(t) \/ ResizeGroups(t)
    BY <1>1, <2>3, ReadEndsInv DEF RefreshInv, InFlight
  <2>4. CASE ReadReturns(t)
    BY <1>1, <2>4, ReadReturnsInv DEF RefreshInv, InFlight
  <2>5. QED BY <1>3, <2>1, <2>2, <2>3, <2>4 DEF PollerStep
<1>4. CASE UNCHANGED vars
  BY <1>1, <1>4 DEF vars, RefreshInv, PlacedSettled, BuiltAtStride, Placed, CachesCurrent,
     OwnPlanIsCurrent, PoolPlanIsCurrent, TornKnown, StaleReadsKnown, FirstPassCovers,
     SecondPassCompletes, Stored, Covers, Targets, Own, Instances
<1>5. QED BY <1>2, <1>3, <1>4 DEF Next

-----------------------------------------------------------------------------
LEMMA ReturnsComplete ==
  ASSUME RefreshInv, [Next]_vars, NEW t \in Pollers, Returns(t), ~disturbed[t]
  PROVE  Complete' /\ Placed(counts', width') = Groups
<1>1. /\ TypeOK /\ BuiltAtStride /\ CachesCurrent
      /\ FirstPassCovers /\ SecondPassCompletes /\ filled \subseteq Instances(inst)
  BY DEF RefreshInv, TypeOK
<1>2. pc[t] # "idle" /\ pc'[t] = "idle" /\ outcome'[t] = "ok"
  BY DEF Returns
<1>3. CASE ReadReturns(t)
  <2>1. /\ target' = target /\ pc[t] = "read"
        /\ filled' = (filled \cup reading[t].insts) \cap Instances(inst')
        /\ Instances(inst') \subseteq Instances(inst)
        /\ Placed(counts', width') = Groups
    <3>1. ~End(t, "raised")
      BY <1>1, <1>2, EndEffect
    <3>2. ~(pc' = [pc EXCEPT ![t] = "grow"])
      BY <1>1, <1>2 DEF TypeOK
    <3>3. /\ inst' = inst \/ Instances(inst') \subseteq Instances(inst)
          /\ Placed(counts', width') = Groups
      BY <1>1, <1>3, <3>1, <3>2, ReadReturnsKinds
    <3>4. /\ target' = target /\ pc[t] = "read"
          /\ filled' = (filled \cup reading[t].insts) \cap Instances(inst')
      BY <1>1, <1>3, ReadReturnsKinds
    <3>5. QED BY <3>3, <3>4
  <2>2. reading[t] = Covers
    BY <1>1, <2>1 DEF FirstPassCovers
  <2>3. filled' = Instances(inst')
    BY <1>1, <2>1, <2>2 DEF Covers, Targets
  <2>4. Stored'
    BY <1>1, <1>3, <2>2, CurrentReadStores DEF Covers, Targets
  <2>5. QED BY <2>1, <2>3, <2>4 DEF Complete, Stored, Instances
<1>4. CASE GrowReturns(t)
  <2>1. /\ pc[t] = "grow" /\ UNCHANGED <<target, inst, value, counts, width>>
        /\ filled' = (filled \cup adding[t]) \cap Instances(inst)
    BY <1>4 DEF GrowReturns, layout
  <2>2. /\ filled \cup adding[t] = Instances(inst) /\ Stored
        /\ Placed(counts, width) = Groups
    BY <1>1, <2>1 DEF SecondPassCompletes
  <2>3. QED BY <2>1, <2>2 DEF Complete, Stored, Instances
<1>5. CASE ~(ReadReturns(t) \/ GrowReturns(t))
  <2>1. ASSUME Edit \/ UNCHANGED vars PROVE FALSE
    <3>1. pc' = pc
      <4>1. CASE Edit
        <5>1. PICK tg, dropped : Reshape(tg, dropped)
          BY <1>1, <4>1, EditsReshape
        <5>2. QED BY <5>1 DEF Reshape, taskVars
      <4>2. CASE UNCHANGED vars
        BY <4>2 DEF vars
      <4>3. QED BY <2>1, <4>1, <4>2
    <3>2. QED BY <1>2, <3>1
  <2>2. ASSUME NEW u \in Pollers, PollerStep(u) PROVE FALSE
    <3>1. CASE u = t
      <4>1. pc[t] # "idle" => ~Poll(t) /\ ~PollConflicts(t) /\ ~ResizeGroups(t)
        BY DEF Poll, PollConflicts, ResizeGroups
      <4>2. ReadFails(t)
        BY <1>2, <1>5, <2>2, <3>1, <4>1 DEF PollerStep
      <4>3. outcome'[t] = "raised"
        BY <1>1, <4>2, EndEffect DEF ReadFails
      <4>4. QED BY <1>2, <4>3
    <3>2. CASE u # t
      <4>1. \/ \E how : End(u, how)
            \/ pc' = pc \/ pc' = [pc EXCEPT ![u] = "read"] \/ pc' = [pc EXCEPT ![u] = "grow"]
        <5>1. CASE Poll(u) \/ PollConflicts(u) \/ ReadFails(u) \/ GrowReturns(u)
          BY <5>1 DEF Poll, PollConflicts, ReadFails, GrowReturns
        <5>2. CASE ReadReturns(u) \/ ResizeGroups(u)
          BY <5>2 DEF ReadReturns, ResizeGroups, SecondPass
        <5>3. QED BY <2>2, <5>1, <5>2 DEF PollerStep
      <4>2. pc'[t] = pc[t]
        <5>1. CASE \E how : End(u, how)
          BY <1>1, <3>2, <5>1, EndEffect
        <5>2. CASE ~\E how : End(u, how)
          BY <1>1, <3>2, <4>1, <5>2 DEF TypeOK
        <5>3. QED BY <5>1, <5>2
      <4>3. QED BY <1>2, <4>2
    <3>3. QED BY <3>1, <3>2
  <2>3. QED BY <2>1, <2>2 DEF Next
<1>6. QED BY <1>3, <1>4, <1>5

LEMMA ReturnsSettled ==
  ASSUME RefreshInv, [Next]_vars, NEW t \in Pollers, NEW g \in Groups,
         Returns(t), ~disturbed[t]
  PROVE  /\ Len(inst'[g]) = counts'[g]
         /\ \A n \in DOMAIN inst'[g] : inst'[g][n][2] = width'[g]
<1>1. TypeOK' /\ PlacedSettled' /\ BuiltAtStride'
  BY NextRefreshInv DEF RefreshInv
<1>2. Placed(counts', width') = Groups
  BY ReturnsComplete
<1>3. Len(inst'[g]) = counts'[g] /\ (counts'[g] > 0 => stride'[g] = width'[g])
  BY <1>1, <1>2 DEF PlacedSettled
<1>4. ASSUME NEW n \in DOMAIN inst'[g]
      PROVE  inst'[g][n][2] = width'[g]
  <2>1. inst'[g] \in Seq(Built)
    BY <1>1 DEF TypeOK
  <2>2. Len(inst'[g]) > 0
    BY <1>4, <2>1, SeqDomain
  <2>3. QED BY <1>1, <1>3, <2>2 DEF BuiltAtStride
<1>5. QED BY <1>3, <1>4

\* The plans the object and its pool cache are never stale, through edits, resizes,
\* failures and concurrent polls: only an exception out of a reshape leaves one.
THEOREM PlansAreNeverStale == Spec => []PlanIsCurrent
<1>1. RefreshInv => PlanIsCurrent
  BY DEF RefreshInv, CachesCurrent, PlanIsCurrent
<1>2. QED BY <1>1, InitRefreshInv, NextRefreshInv, PTL DEF Spec

\* An update that returns has left a value of every target and every instance of
\* now, unless someone else reshaped the object meanwhile.
THEOREM UpdatesAreComplete == Spec => UpdateIsComplete
<1>1. ASSUME RefreshInv, [Next]_vars
      PROVE  [\A t \in Pollers : Returns(t) /\ ~disturbed[t] => Complete']_vars
  BY <1>1, ReturnsComplete
<1>2. QED BY <1>1, InitRefreshInv, NextRefreshInv, PTL DEF Spec, UpdateIsComplete

\* Such an update has placed every group: the instances decoded, at one stride.
THEOREM UpdatesSettleGroups == Spec => UpdateSettlesGroups
<1>1. ASSUME RefreshInv, [Next]_vars
      PROVE  [\A t \in Pollers, g \in Groups : Returns(t) /\ ~disturbed[t] =>
                /\ Len(inst'[g]) = counts'[g]
                /\ \A n \in DOMAIN inst'[g] : inst'[g][n][2] = width'[g]]_vars
  BY <1>1, ReturnsSettled
<1>2. QED BY <1>1, InitRefreshInv, NextRefreshInv, PTL DEF Spec, UpdateSettlesGroups
=============================================================================
