------------------------------ MODULE MCLayout ------------------------------
(* Instances of Layout for TLC: addresses below 9, blocks of at most four     *)
(* registers, gaps of at most two bridged.                                    *)
EXTENDS Layout, TLC

CONSTANTS m1, m2, m3

Register(at, count) == [space |-> "holding", at |-> at, step |-> 0, count |-> count,
                     scale |-> None, scaleStep |-> 0]
Scaled(at, scale) == [Register(at, 1) EXCEPT !.scale = scale]
Indexed(at, step) == [Register(at, 1) EXCEPT !.step = step]

Open == [s \in Spaces |-> None]
Says(ranges) == [s \in Spaces |-> [ranges |-> ranges, declared |-> TRUE]]

Of(fields, map) == [fields |-> fields, map |-> map, index |-> 1, base |-> 0, inst |-> 0,
                    scaleInBlock |-> FALSE, gap |-> 2, limit |-> 4, group |-> None]
GroupOf(sub, stride) == [of |-> sub, stride |-> stride, size |-> 1,
                         register |-> None, countInBlock |-> TRUE]

\* A class of scattered and scaled fields, at two places; and one in which a scale
\* register is also half of another field.
Spread == {Register(0, 2), Scaled(2, 5), Register(4, 1), Register(6, 2)}
Plain ==
  {[Of(Spread, map) EXCEPT !.base = 1] : map \in {Open, Says({<<0, 3>>, <<4, 7>>})}}
  \cup {Of(Spread, map) : map \in {Says({<<0, 7>>}), Says({<<0, 2>>, <<4, 7>>})}}
  \cup {[Of({Scaled(3, 4), Register(4, 2), Indexed(0, 6)}, Open) EXCEPT !.index = 2]}

\* A parent with a counted group, whose instances bring a map of their own, share the
\* parent's scale register or carry their own, or have a nested group.
Sub(map) == Of({Register(3, 1), Scaled(4, 1)}, map)
Nested == [Of({Register(3, 1)}, Open) EXCEPT
             !.group = [GroupOf(Of({Register(5, 1)}, Open), 1) EXCEPT
                          !.register = Register(2, 1), !.countInBlock = FALSE]]
Counted(sub, map) ==
  [Of({Register(0, 1)}, map) EXCEPT
     !.group = [GroupOf(sub, 2) EXCEPT !.register = Register(1, 1), !.size = 0]]
Grouped ==
  {Counted(Sub(Open), Open), Counted(Nested, Open),
   Counted(Sub(Says({<<3, 4>>})), Says({<<0, 2>>})), Counted(Sub(Says({<<3, 4>>})), Says({<<0, 7>>})),
   Counted([Sub(Open) EXCEPT !.scaleInBlock = TRUE], Says({<<0, 7>>})), Counted(Nested, Says({<<0, 7>>}))}

ByHand == {Of({}, map) : map \in {Open, Says({<<4, 7>>})}}

\* Three neighbours, and a scaled field whose scale register is the one in the middle.
Shared == {Of({Register(3, 1), Register(4, 1), Register(5, 1), Scaled(7, 4)}, Open)}

Start(m) == CASE m = m1 -> Plain \cup Shared [] m = m2 -> Grouped [] m = m3 -> ByHand

\* The classes whose groups nest at most n deep.
AtRest ==
  LET flat == Plain \cup Shared \cup ByHand \cup
              {[Sub(map) EXCEPT !.scaleInBlock = b] : map \in {Open, Says({<<3, 4>>})}, b \in BOOLEAN}
              \cup {Nested.group.of}
      one == flat \cup {Nested} \cup {c \in Grouped : c.group.of \in flat}
  IN 0 :> flat @@ 1 :> one @@ 2 :> one \cup Grouped

Handed == {Register(4, 2)}
=============================================================================
