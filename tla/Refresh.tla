------------------------------ MODULE Refresh ------------------------------
(***************************************************************************)
(* The model layer's update: a Component or a ManualComponent that caches   *)
(* a read plan over its own fields and over the instances of its            *)
(* register-count repeating groups, optionally pooled by a ComponentGroup   *)
(* that caches a second plan over the same targets.  Several tasks may poll *)
(* the object, by its own async_update() or through the pool.               *)
(*                                                                          *)
(* A step runs from one await to the next.  A first pass reads every target *)
(* of the plan and stores all of it at once; what it decoded then resizes   *)
(* the groups in the same step, and only the read of the instances just     *)
(* added suspends again.                                                    *)
(*                                                                          *)
(* Abstracted: addresses and blocks (a plan is the set of targets it        *)
(* covers, a read returns them all or fails), decoded values (a value is    *)
(* the version of the target that decoded it), the readable maps (SelfFits, *)
(* PoolFits) and listeners (an update that returns notifies).  Left out:    *)
(* fixed-count groups, which are more own targets, and groups of groups.    *)
(***************************************************************************)
EXTENDS Naturals, Sequences

CONSTANTS
  Pollers,     \* tasks that call async_update() or async_read_raw()
  Via,         \* per poller: "self", or "pool" for the ComponentGroup's call
  Keys,        \* the object's own targets, by field name or key
  Versions,    \* the targets a key may stand for in turn
  Initially,   \* the keys that have a target from the start, and which
  None,        \* no target, no value, no count
  NGroups,     \* register-count groups, in declaration order
  MaxCount,    \* bound: the largest count a device reports
  Widths,      \* what a group's stride resolves to; 0 stands for any it rejects
  SelfFits(_), \* do the instances' readable maps agree with the object's own?
  Pooled,      \* is the object a member of a ComponentGroup?
  PoolFits(_), \* and with those of the pool's other members, if it is?
  Edits,       \* "manual": add() and remove(); "restrict": restrict_fields()
  NoPlan,      \* a plan that is not cached
  MaxEpoch     \* bound: how often groups are resized

Groups == 1 .. NGroups
Counts == [Groups -> 0 .. MaxCount]

ASSUME RefreshAssumption ==
  /\ Via \in [Pollers -> {"self", "pool"}]
  /\ Initially \in [Keys -> Versions \cup {None}] /\ None \notin Versions
  /\ NGroups \in Nat /\ MaxCount \in Nat /\ MaxEpoch \in Nat
  /\ Widths \subseteq Nat
  \* a pool whose members conflict from the start cannot be constructed
  /\ PoolFits([g \in Groups |-> 0])
  /\ Pooled \in BOOLEAN
  /\ \A f \in Counts : IF Pooled THEN PoolFits(f) => SelfFits(f) ELSE PoolFits(f)
  /\ Pooled \/ \A t \in Pollers : Via[t] = "self"
  /\ Edits \subseteq {"manual", "restrict"}
  \* restrict_fields() raises on a component with repeating groups
  /\ "restrict" \in Edits => NGroups = 0

VARIABLES
  target,     \* per key: the target it stands for, or None
  value,      \* per key: the target whose decode is stored, or None
  counts,     \* per group: the count last decoded (0 if none)
  width,      \* per group: what its stride resolves to from the values read (0 if
              \* there is no instance to resolve it for)
  stride,     \* per group: the stride its instances were built at (0: never)
  inst,       \* per group: its instances, each <<epoch, stride>> it was built at
  epoch,      \* how often the groups were resized so far
  filled,     \* the current instances some read has stored values in
  items,      \* the targets the object caches for whoever builds a plan next
  plan,       \* the plan the object and the pool cache
  pc,         \* per poller: "idle", "read" (first pass), "grow" (second)
  reading,    \* per poller: the plan its first pass executes
  adding,     \* per poller: the instances its second pass reads
  outcome,    \* per poller: how its last update ended
  disturbed,  \* per poller: did someone else reshape the object, or fail to, during
              \* its update or one then in flight, or was it torn when it began?
  torn        \* did an exception leave a reshape half-way, a plan not dropped?

layout == <<target, stride, inst, epoch>>
caches == <<items, plan, torn>>
taskVars == <<pc, reading, adding, outcome>>
vars == <<target, value, counts, width, stride, inst, epoch, filled, items, plan,
          pc, reading, adding, outcome, disturbed, torn>>

-----------------------------------------------------------------------------
\* An instance is an object: a group, a position, the epoch and the stride.
Instances(f) ==
  UNION {{<<g, n, f[g][n]>> : n \in DOMAIN f[g]} : g \in Groups}
Own(f) == {<<k, f[k]>> : k \in {k \in Keys : f[k] # None}}
Sizes(f) == [g \in Groups |-> Len(f[g])]

\* The targets there are now.  The count registers come with every plan.
Targets(tg, f) == [own |-> Own(tg), insts |-> Instances(f)]
Covers == Targets(target, inst)
NothingRead == [own |-> {}, insts |-> {}]

Init ==
  /\ target = Initially
  /\ value = [k \in Keys |-> None]
  /\ counts = [g \in Groups |-> 0] /\ width = [g \in Groups |-> 0]
  /\ stride = [g \in Groups |-> 0] /\ inst = [g \in Groups |-> <<>>]
  /\ epoch = 0 /\ filled = {}
  /\ items = IF Pooled THEN Covers ELSE NoPlan
  /\ plan = [v \in {"self", "pool"} |-> NoPlan]
  /\ pc = [t \in Pollers |-> "idle"]
  /\ reading = [t \in Pollers |-> NothingRead]
  /\ adding = [t \in Pollers |-> {}]
  /\ outcome = [t \in Pollers |-> "none"]
  /\ disturbed = [t \in Pollers |-> FALSE]
  /\ torn = FALSE

End(t, how) ==
  /\ pc' = [pc EXCEPT ![t] = "idle"]
  /\ reading' = [reading EXCEPT ![t] = NothingRead]
  /\ adding' = [adding EXCEPT ![t] = {}]
  /\ outcome' = [outcome EXCEPT ![t] = how]

\* Every update in flight, but the one of t, sees the object reshaped.
Disturb(t) ==
  disturbed' = [u \in Pollers |-> disturbed[u] \/ (u # t /\ pc[u] # "idle")]

\* Mutant of Invalidate: the parent is not told.
InvalidateOwnOnly(tg, f) ==
  /\ plan' = [plan EXCEPT !["self"] = NoPlan]
  /\ items' = NoPlan /\ torn' = FALSE

(* _invalidate_caches(): the object's targets and plan go first.  Its pool   *)
(* then merges the members' maps again, from their targets, before it drops  *)
(* its own plan, and keeps that when they conflict, which raises ValueError. *)
Invalidate(tg, f) ==
  /\ plan' = [v \in {"self", "pool"} |->
                IF v = "pool" /\ ~PoolFits(Sizes(f)) THEN plan[v] ELSE NoPlan]
  /\ items' = IF Pooled /\ SelfFits(Sizes(f)) THEN Targets(tg, f) ELSE NoPlan
  /\ torn' = ~PoolFits(Sizes(f))

-----------------------------------------------------------------------------
\* Mutant of Placed: a stride that is not positive is not rejected.
PlacedUnchecked(c, w) == Groups

\* The groups the resize loop gets to: a stride it rejects raises and ends it.
Placed(c, w) == {g \in Groups : \A h \in 1 .. g : c[h] > 0 => w[h] > 0}

\* Mutant of Kept: a changed stride moves no instance that is there already.
KeptUnmoved(g, c, w) == inst[g]

\* A changed stride rebuilds every instance; without any it is not resolved.
Kept(g, c, w) == IF c[g] > 0 /\ w[g] # stride[g] THEN <<>> ELSE inst[g]
Changed(c, w) == {g \in Placed(c, w) : Len(Kept(g, c, w)) # c[g]}

Strided(c, w) ==
  [g \in Groups |-> IF g \in Placed(c, w) /\ c[g] > 0 THEN w[g] ELSE stride[g]]

Resized(c, w) ==
  [g \in Groups |->
    IF g \notin Changed(c, w) THEN inst[g]
    ELSE [n \in 1 .. c[g] |->
            IF n <= Len(Kept(g, c, w)) THEN Kept(g, c, w)[n]
                                       ELSE <<epoch, Strided(c, w)[g]>>]]

(* _refresh_repeating_groups(), to its first await or its end: resize the   *)
(* groups to the counts c and the strides w.                                *)
SecondPass(t, c, w, stored) ==
  LET now   == Resized(c, w)
      added == Instances(now) \ Instances(inst)
  IN /\ Changed(c, w) # {} => epoch < MaxEpoch      \* bound
     /\ inst' = now /\ stride' = Strided(c, w)
     /\ epoch' = IF Changed(c, w) = {} THEN epoch ELSE epoch + 1
     /\ filled' = stored \cap Instances(now)
     /\ IF Placed(c, w) = Groups /\ Changed(c, w) = {}
        THEN UNCHANGED disturbed ELSE Disturb(t)
     /\ \/ \* a stride that is not positive: raises out of the loop
           /\ Placed(c, w) # Groups
           /\ UNCHANGED <<items, plan>> /\ End(t, "raised")
           /\ torn' = (torn \/ Changed(c, w) # {})
        \/ /\ Placed(c, w) = Groups /\ Changed(c, w) = {}
           /\ UNCHANGED caches /\ End(t, "ok")
        \/ /\ Placed(c, w) = Groups /\ Changed(c, w) # {}
           /\ Invalidate(target, now)
           /\ \/ \* the pool's maps conflict, or those the added are planned with
                 /\ \/ ~PoolFits(Sizes(now))
                    \/ added # {} /\ ~SelfFits(Sizes(now))
                 /\ End(t, "raised")
              \/ /\ PoolFits(Sizes(now)) /\ added = {}
                 /\ End(t, "ok")
              \/ /\ PoolFits(Sizes(now)) /\ added # {} /\ SelfFits(Sizes(now))
                 /\ pc' = [pc EXCEPT ![t] = "grow"]
                 /\ reading' = [reading EXCEPT ![t] = NothingRead]
                 /\ adding' = [adding EXCEPT ![t] = added]
                 /\ outcome' = [outcome EXCEPT ![t] = "none"]

-----------------------------------------------------------------------------
(* _refresh(), to its first await: build the plan if none is cached.        *)
Poll(t) ==
  LET v == Via[t]
      builds == plan[v] = NoPlan
      cached == IF items = NoPlan THEN Covers ELSE items
      p == IF builds THEN cached ELSE plan[v]
  IN /\ pc[t] = "idle"
     /\ builds /\ v = "self" => SelfFits(Sizes(inst))
     /\ plan' = [plan EXCEPT ![v] = p]
     /\ items' = IF builds THEN cached ELSE items
     /\ disturbed' = [disturbed EXCEPT ![t] =
             torn \/ \E u \in Pollers \ {t} : pc[u] # "idle" /\ disturbed[u]]
     /\ IF p = NothingRead /\ NGroups = 0
        THEN End(t, "ok")               \* nothing to read: nothing is awaited
        ELSE /\ pc' = [pc EXCEPT ![t] = "read"]
             /\ reading' = [reading EXCEPT ![t] = p]
             /\ outcome' = [outcome EXCEPT ![t] = "none"]
             /\ UNCHANGED adding
     /\ UNCHANGED <<layout, value, counts, width, filled, torn>>

\* The object's own plan cannot be built while its maps conflict.
PollConflicts(t) ==
  /\ pc[t] = "idle"
  /\ Via[t] = "self" /\ plan["self"] = NoPlan /\ ~SelfFits(Sizes(inst))
  /\ outcome' = [outcome EXCEPT ![t] = "raised"]
  /\ items' = IF items = NoPlan THEN Covers ELSE items
  /\ UNCHANGED <<layout, value, counts, width, filled, plan, pc, reading,
                 adding, disturbed, torn>>

\* A block is refused, times out, the link is lost or the caller is cancelled,
\* in either pass: what that pass read is dropped.
ReadFails(t) ==
  /\ pc[t] # "idle"
  /\ End(t, "raised")
  /\ UNCHANGED <<layout, value, counts, width, filled, caches, disturbed>>

\* Every block of the first pass is in: store all of it, then the second pass.
ReadReturns(t) ==
  /\ pc[t] = "read"
  /\ value' = [k \in Keys |->
                 IF \E v \in Versions : <<k, v>> \in reading[t].own
                 THEN CHOOSE v \in Versions : <<k, v>> \in reading[t].own
                 ELSE value[k]]
  /\ \E c \in Counts, w \in [Groups -> Widths \cup {0}] :
        /\ \A g \in Groups : IF c[g] = 0 THEN w[g] = 0 ELSE w[g] \in Widths
        /\ counts' = c /\ width' = w
        /\ SecondPass(t, c, w, filled \cup reading[t].insts)
  /\ UNCHANGED target

\* The instances a second pass added are in.
GrowReturns(t) ==
  /\ pc[t] = "grow"
  /\ filled' = (filled \cup adding[t]) \cap Instances(inst)
  /\ End(t, "ok")
  /\ UNCHANGED <<layout, value, counts, width, caches, disturbed>>

\* async_update_repeating_groups(): the second pass on the values at hand.
ResizeGroups(t) ==
  /\ pc[t] = "idle" /\ NGroups > 0
  /\ SecondPass(t, counts, width, filled)
  /\ UNCHANGED <<target, value, counts, width>>

-----------------------------------------------------------------------------
(* A reshape from outside, between any two steps of the pollers: the new    *)
(* targets, and the keys whose stored value goes.                           *)

\* Mutant of Reshape: the plans are kept.
ReshapeKeepingPlans(tg, dropped) ==
  /\ target' = tg
  /\ value' = [k \in Keys |-> IF k \in dropped THEN None ELSE value[k]]
  /\ disturbed' = [t \in Pollers |-> disturbed[t] \/ pc[t] # "idle"]
  /\ UNCHANGED <<caches, counts, width, stride, inst, epoch, filled, taskVars>>

Reshape(tg, dropped) ==
  /\ target' = tg
  /\ value' = [k \in Keys |-> IF k \in dropped THEN None ELSE value[k]]
  /\ Invalidate(tg, inst)
  /\ disturbed' = [t \in Pollers |-> disturbed[t] \/ pc[t] # "idle"]
  /\ UNCHANGED <<counts, width, stride, inst, epoch, filled, taskVars>>

\* ManualComponent.add(): remove() what is there, then the new target.
Add(k, v) ==
  /\ "manual" \in Edits
  /\ PoolFits(Sizes(inst))                  \* else the remove() raises
  /\ Reshape([target EXCEPT ![k] = v], {k})

\* ManualComponent.remove(), also an add() that raises once it removed, drops a key;
\* Component.restrict_fields() drops all its fields but those named.
Droppable ==
  (IF "manual" \in Edits THEN {{k} : k \in Keys} ELSE {})
    \cup (IF "restrict" \in Edits THEN SUBSET {k \in Keys : target[k] # None} ELSE {})

Drop(keys) ==
  Reshape([k \in Keys |-> IF k \in keys THEN None ELSE target[k]], keys)

PollerStep(t) ==
  \/ Poll(t) \/ PollConflicts(t) \/ ReadFails(t) \/ ReadReturns(t)
  \/ GrowReturns(t) \/ ResizeGroups(t)

Edit ==
  \/ \E k \in Keys, v \in Versions : Add(k, v)
  \/ \E keys \in Droppable : Drop(keys)

Next == Edit \/ \E t \in Pollers : PollerStep(t)

Spec == Init /\ [][Next]_vars

-----------------------------------------------------------------------------
\* What an instance was built at: an epoch, and a stride that is never 0.
Built == (0 .. MaxEpoch) \X (Widths \ {0})
Objects == Groups \X (1 .. MaxCount) \X Built
Plans == [own : SUBSET (Keys \X Versions), insts : SUBSET Objects]

\* The state's types.  Every instance there is, is planned for or is being read was
\* built at a positive stride: one rejected never reaches the layout.
TypeOK ==
  /\ target \in [Keys -> Versions \cup {None}]
  /\ value \in [Keys -> Versions \cup {None}]
  /\ counts \in Counts
  /\ width \in [Groups -> Widths \cup {0}]
  /\ stride \in [Groups -> Widths \cup {0}]
  /\ inst \in [Groups -> Seq(Built)]
  /\ \A g \in Groups : Len(inst[g]) <= MaxCount
  /\ epoch \in 0 .. MaxEpoch
  /\ filled \subseteq Instances(inst)
  /\ items \in Plans \cup {NoPlan}
  /\ plan \in [{"self", "pool"} -> Plans \cup {NoPlan}]
  /\ pc \in [Pollers -> {"idle", "read", "grow"}]
  /\ reading \in [Pollers -> Plans]
  /\ adding \in [Pollers -> SUBSET Objects]
  /\ outcome \in [Pollers -> {"none", "ok", "raised"}]
  /\ disturbed \in [Pollers -> BOOLEAN] /\ torn \in BOOLEAN

OwnPlanIsCurrent == plan["self"] \in {NoPlan, Covers}
PoolPlanIsCurrent == plan["pool"] \in {NoPlan, Covers}

\* A cached plan is never stale: the object's and the pool's read exactly the
\* targets there are now, whoever reshaped the object and whenever, unless an
\* exception out of the reshape kept a plan.
PlanIsCurrent == torn \/ (OwnPlanIsCurrent /\ PoolPlanIsCurrent)

Returns(t) == pc[t] # "idle" /\ pc'[t] = "idle" /\ outcome'[t] = "ok"
Complete == /\ filled = Instances(inst)
            /\ \A k \in Keys : target[k] # None => value[k] = target[k]

\* An update that returns left a value of every target there is now, and of every
\* instance, those it added included, unless someone else reshaped the object
\* meanwhile or a plan was stale when it began: other polls that resize nothing and
\* reads that fail, before and during, do not matter.
UpdateIsComplete ==
  [][\A t \in Pollers : Returns(t) /\ ~disturbed[t] => Complete']_vars

\* Such an update left every group with the instances decoded, all of them at the
\* stride decoded, also when an earlier one failed half-way.
UpdateSettlesGroups ==
  [][\A t \in Pollers, g \in Groups : Returns(t) /\ ~disturbed[t] =>
       /\ Len(inst'[g]) = counts'[g]
       /\ \A n \in DOMAIN inst'[g] : inst'[g][n][2] = width'[g]]_vars

\* A resize invalidates the cached plan for the next poll.
ResizeDropsPlan == [][inst' # inst => plan'["self"] = NoPlan]_vars

\* Excluded fields read as None, and so does a key whose target was removed.
ExcludedReadsNone == \A k \in Keys : target[k] = None => value[k] = None
=============================================================================
