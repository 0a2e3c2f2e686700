--------------------------- MODULE SunSpecProofs ----------------------------
(* Theorems about SunSpec for every value of its constants: any maps, any   *)
(* classes, any number of components, moves and failures.                   *)
EXTENDS SunSpec, WellFoundedInduction, FiniteSetTheorems, TLAPS

-----------------------------------------------------------------------------
(* Data.                                                                   *)

\* A nonempty set of natural numbers has a least one.
LEMMA LeastNatural ==
  ASSUME NEW T, T \subseteq Nat, T # {}
  PROVE  Min(T) \in T /\ \A n \in T : Min(T) <= n
<1> DEFINE Below == OpToRel(<, Nat)
<1>1. IsWellFoundedOn(Below, Nat)
  BY NatLessThanWellFounded, Zenon
<1>2. \A m, n \in Nat : n < m => <<n, m>> \in Below
  BY Zenon DEF OpToRel
<1> HIDE DEF Below
<1>3. PICK m \in T : \A n \in T : ~ (<<n, m>> \in Below)
  BY <1>1, WFMin, Zenon
<1>4. \A n \in T : m \in Nat /\ n \in Nat /\ ~ (n < m)
  BY <1>2, <1>3
<1>5. \A n \in T : m <= n
  BY <1>4
<1>6. QED BY <1>5 DEF Min

\* Induction over the natural numbers up to a bound, for the set of those that satisfy
\* what is to be shown.
LEMMA UpTo ==
  ASSUME NEW n \in Nat, NEW T, T \subseteq Nat, 1 \in T,
         \A i \in 1 .. n : i \in T => i + 1 \in T
  PROVE  1 .. n + 1 \subseteq T
<1> DEFINE F == (1 .. n + 1) \ T
<1> SUFFICES ASSUME F # {} PROVE FALSE
  OBVIOUS
<1>1. F \subseteq Nat
  OBVIOUS
<1>2. PICK m \in F : \A i \in F : m <= i
  <2> HIDE DEF F
  <2>1. QED BY <1>1, LeastNatural
<1>3. m - 1 \in 1 .. n /\ m - 1 \notin F
  BY <1>2
<1>4. QED BY <1>2, <1>3

-----------------------------------------------------------------------------
(* A map: where its models lie.                                            *)

ChainModel == [id : Nat \ {EndId}, length : Nat]
Chains == Seq(ChainModel)

LEMMA ChainType ==
  ASSUME NEW chain \in Chains
  PROVE  /\ Len(chain) \in Nat /\ DOMAIN chain = 1 .. Len(chain)
         /\ \A i \in 1 .. Len(chain) : chain[i] \in ChainModel /\ Span(chain[i]) \in Nat \ {0}
<1>1. Len(chain) \in Nat /\ \A i \in 1 .. Len(chain) : chain[i] \in ChainModel
  BY DEF Chains
<1>2. \A model \in ChainModel : Span(model) \in Nat \ {0}
  BY DEF ChainModel, Span
<1>3. QED BY <1>1, <1>2 DEF Chains

\* The recursion behind Addresses on the first n places, as an equation.
Lays(chain, n, at) ==
  at = [i \in 1 .. n |-> IF i = 1 THEN Base + 2 ELSE at[i - 1] + Span(chain[i - 1])]

\* The recursion has a solution on every prefix of the chain, so Addresses is one.
LEMMA LaysAll ==
  ASSUME NEW chain \in Chains
  PROVE  \A n \in 1 .. Len(chain) + 1 : \E at \in [1 .. n -> Nat] : Lays(chain, n, at)
<1> DEFINE T == {n \in Nat : \E at \in [1 .. n -> Nat] : Lays(chain, n, at)}
<1>1. Len(chain) \in Nat /\ \A i \in 1 .. Len(chain) : Span(chain[i]) \in Nat
  BY ChainType
<1>2. 1 \in T
  <2>1. [i \in 1 .. 1 |-> Base + 2] \in [1 .. 1 -> Nat]
    BY SunSpecAssumption
  <2>2. Lays(chain, 1, [i \in 1 .. 1 |-> Base + 2])
    BY DEF Lays
  <2>3. QED BY <2>1, <2>2
<1>3. ASSUME NEW n \in 1 .. Len(chain), n \in T PROVE n + 1 \in T
  <2>1. PICK at \in [1 .. n -> Nat] : Lays(chain, n, at)
    BY <1>3
  <2> DEFINE longer == [i \in 1 .. n + 1 |-> IF i = n + 1 THEN at[n] + Span(chain[n]) ELSE at[i]]
  <2>2. longer \in [1 .. n + 1 -> Nat]
    BY <1>1
  <2>3. \A i \in 1 .. n : longer[i] = at[i]
    OBVIOUS
  <2>4. \A i \in 1 .. n : at[i] = IF i = 1 THEN Base + 2 ELSE at[i - 1] + Span(chain[i - 1])
    BY <2>1 DEF Lays
  <2>5. \A i \in 1 .. n + 1 :
          longer[i] = IF i = 1 THEN Base + 2 ELSE longer[i - 1] + Span(chain[i - 1])
    <3> SUFFICES ASSUME NEW i \in 1 .. n + 1
                 PROVE  longer[i] = IF i = 1 THEN Base + 2 ELSE longer[i - 1] + Span(chain[i - 1])
      OBVIOUS
    <3>1. CASE i = n + 1
      BY <2>3, <3>1
    <3>2. CASE i # n + 1
      BY <2>3, <2>4, <3>2
    <3>3. QED BY <3>1, <3>2
  <2>6. DOMAIN longer = 1 .. n + 1
    OBVIOUS
  <2> HIDE DEF longer
  <2>7. Lays(chain, n + 1, longer)
    BY <2>2, <2>5 DEF Lays
  <2>8. QED BY <2>2, <2>7
<1>4. T \subseteq Nat
  OBVIOUS
<1> HIDE DEF T
<1>5. 1 .. Len(chain) + 1 \subseteq T
  BY <1>1, <1>2, <1>3, <1>4, UpTo
<1>6. QED BY <1>5 DEF T

LEMMA AddressesDef ==
  ASSUME NEW chain \in Chains
  PROVE  LET at == Addresses(chain) IN
         /\ at[1] = Base + 2
         /\ \A i \in 1 .. Len(chain) : at[i + 1] = at[i] + Span(chain[i])
         /\ \A i \in 1 .. Len(chain) + 1 : at[i] \in Nat
<1> DEFINE N == Len(chain) + 1
           at == Addresses(chain)
<1>1. at = CHOOSE a : Lays(chain, N, a)
  BY DEF Addresses, Lays
<1>2. Len(chain) \in Nat
  BY ChainType
<1>3. \E a : Lays(chain, N, a)
  BY <1>2, LaysAll
<1> HIDE DEF at
<1>4. Lays(chain, N, at)
  BY <1>1, <1>3, Zenon
<1>5. \A i \in 1 .. N : at[i] = IF i = 1 THEN Base + 2 ELSE at[i - 1] + Span(chain[i - 1])
  BY <1>4 DEF Lays
<1>6. at[1] = Base + 2
  BY <1>2, <1>5
<1>7. ASSUME NEW i \in 1 .. Len(chain) PROVE at[i + 1] = at[i] + Span(chain[i])
  BY <1>2, <1>5
<1>8. 1 .. N \subseteq {i \in Nat : at[i] \in Nat}
  <2> DEFINE T == {i \in Nat : at[i] \in Nat}
  <2>1. 1 \in T
    BY <1>6, SunSpecAssumption
  <2>2. \A i \in 1 .. Len(chain) : Span(chain[i]) \in Nat
    BY ChainType
  <2>3. \A i \in 1 .. Len(chain) : i \in T => i + 1 \in T
    BY <1>7, <2>2
  <2>4. T \subseteq Nat
    OBVIOUS
  <2> HIDE DEF T
  <2>5. 1 .. N \subseteq T
    BY <1>2, <2>1, <2>3, <2>4, UpTo
  <2>6. QED BY <2>5 DEF T
<1>9. QED BY <1>6, <1>7, <1>8 DEF at

\* The models of a chain lie one behind the other.
LEMMA AddressesRise ==
  ASSUME NEW chain \in Chains
  PROVE  \A i, j \in 1 .. Len(chain) + 1 : i < j => Addresses(chain)[i] < Addresses(chain)[j]
<1> DEFINE at == Addresses(chain)
           T == {j \in Nat : \A i \in 1 .. j - 1 : at[i] < at[j]}
<1>1. Len(chain) \in Nat /\ \A i \in 1 .. Len(chain) : Span(chain[i]) \in Nat \ {0}
  BY ChainType
<1>2. /\ \A i \in 1 .. Len(chain) : at[i + 1] = at[i] + Span(chain[i])
      /\ \A i \in 1 .. Len(chain) + 1 : at[i] \in Nat
  BY AddressesDef
<1> HIDE DEF at
<1>3. 1 \in T
  OBVIOUS
<1>4. ASSUME NEW j \in 1 .. Len(chain), j \in T PROVE j + 1 \in T
  <2>1. at[j] < at[j + 1]
    BY <1>1, <1>2
  <2>2. ASSUME NEW i \in 1 .. j PROVE at[i] < at[j + 1]
    <3>1. i = j \/ at[i] < at[j]
      BY <1>4
    <3>2. /\ i \in 1 .. Len(chain) + 1 /\ j \in 1 .. Len(chain) + 1
          /\ j + 1 \in 1 .. Len(chain) + 1
      BY <1>1
    <3>3. at[i] \in Nat /\ at[j] \in Nat /\ at[j + 1] \in Nat
      BY <1>2, <3>2
    <3>4. QED BY <2>1, <3>1, <3>3
  <2>3. QED BY <2>2
<1>5. T \subseteq Nat
  OBVIOUS
<1> HIDE DEF T
<1>6. 1 .. Len(chain) + 1 \subseteq T
  BY <1>1, <1>3, <1>4, <1>5, UpTo
<1>7. QED BY <1>1, <1>6 DEF T, at

\* What the device answers to a read of a header.
LEMMA LayoutType ==
  ASSUME map.models \in Chains
  PROVE  /\ Len(map.models) \in Nat /\ DOMAIN Layout = 1 .. Len(map.models)
         /\ \A i \in 1 .. Len(map.models) :
              /\ Layout[i] \in ModelType /\ Layout[i].id \in Nat \ {EndId}
              /\ Layout[i].address = Addresses(map.models)[i]
              /\ Addresses(map.models)[i + 1] = Layout[i].address + Layout[i].length + 2
         /\ End \in Nat
         /\ \A i, j \in 1 .. Len(map.models) : i < j => Layout[i].address < Layout[j].address
         /\ \A i \in 1 .. Len(map.models) : Layout[i].address < End
<1> DEFINE N == Len(map.models)
           at == Addresses(map.models)
<1>1. /\ N \in Nat /\ DOMAIN map.models = 1 .. N
      /\ \A i \in 1 .. N : map.models[i] \in ChainModel
  BY ChainType
<1>2. /\ \A i \in 1 .. N : at[i + 1] = at[i] + Span(map.models[i])
      /\ \A i \in 1 .. N + 1 : at[i] \in Nat
  BY AddressesDef
<1>3. \A i, j \in 1 .. N + 1 : i < j => at[i] < at[j]
  BY AddressesRise
<1> HIDE DEF at
<1>4. /\ DOMAIN Layout = 1 .. N
      /\ \A i \in 1 .. N : Layout[i] = [id |-> map.models[i].id, length |-> map.models[i].length,
                                        address |-> at[i]]
  BY <1>1 DEF Layout, at
<1>5. ASSUME NEW i \in 1 .. N
      PROVE  /\ Layout[i] \in ModelType /\ Layout[i].id \in Nat \ {EndId}
             /\ Layout[i].address = at[i]
             /\ at[i + 1] = Layout[i].address + Layout[i].length + 2
  <2>1. map.models[i].id \in Nat \ {EndId} /\ map.models[i].length \in Nat
    BY <1>1 DEF ChainModel
  <2>2. at[i] \in Nat
    BY <1>1, <1>2
  <2> DEFINE m == map.models[i]
  <2>3. Layout[i] = [id |-> m.id, length |-> m.length, address |-> at[i]]
    BY <1>4, Zenon
  <2> HIDE DEF m
  <2>4. /\ Layout[i].id = m.id /\ Layout[i].length = m.length /\ Layout[i].address = at[i]
        /\ m.id \in Int /\ m.length \in Nat => Layout[i] \in ModelType
    BY <2>2, <2>3 DEF ModelType
  <2>5. at[i + 1] = at[i] + (map.models[i].length + 2)
    BY <1>2 DEF Span
  <2>6. QED BY <2>1, <2>2, <2>4, <2>5 DEF m
<1>7. End = at[N + 1]
  BY DEF End, at
<1>8. End \in Nat /\ \A i \in 1 .. N : at[i] < End
  BY <1>1, <1>2, <1>3, <1>7
<1>9. \A i, j \in 1 .. N : i < j => at[i] < at[j]
  BY <1>1, <1>3
<1>10. QED BY <1>1, <1>4, <1>5, <1>8, <1>9 DEF at

LEMMA HeaderType ==
  ASSUME map.models \in Chains, NEW a
  PROVE  \/ \E i \in 1 .. Len(map.models) :
              Layout[i].address = a /\ Header(a) = <<Layout[i].id, Layout[i].length>>
         \/ Header(a) = <<EndId, 0>>
         \/ Header(a) = <<Data, Data>>
<1>1. DOMAIN Layout = 1 .. Len(map.models)
  BY LayoutType
<1>2. CASE \E i \in DOMAIN Layout : Layout[i].address = a
  <2> DEFINE i == CHOOSE j \in DOMAIN Layout : Layout[j].address = a
  <2>1. i \in DOMAIN Layout /\ Layout[i].address = a
    BY <1>2
  <2>2. Header(a) = <<Layout[i].id, Layout[i].length>>
    BY <1>2 DEF Header
  <2> HIDE DEF i
  <2>3. QED BY <1>1, <2>1, <2>2
<1>3. CASE ~ \E i \in DOMAIN Layout : Layout[i].address = a
  BY <1>3 DEF Header
<1>4. QED BY <1>2, <1>3

LEMMA HeaderAt ==
  ASSUME map.models \in Chains
  PROVE  /\ \A i \in 1 .. Len(map.models) :
              Header(Layout[i].address) = <<Layout[i].id, Layout[i].length>>
         /\ Header(End) = <<EndId, 0>>
<1> DEFINE N == Len(map.models)
<1>1. /\ DOMAIN Layout = 1 .. N /\ N \in Nat /\ End \in Nat
      /\ \A i \in 1 .. N : Layout[i].address \in Nat /\ Layout[i].address < End
      /\ \A i, j \in 1 .. N : i < j => Layout[i].address < Layout[j].address
  BY LayoutType DEF ModelType
<1>2. ASSUME NEW i \in 1 .. N
      PROVE  Header(Layout[i].address) = <<Layout[i].id, Layout[i].length>>
  <2> DEFINE c == CHOOSE j \in DOMAIN Layout : Layout[j].address = Layout[i].address
  <2>1. \E j \in DOMAIN Layout : Layout[j].address = Layout[i].address
    BY <1>1
  <2>2. c \in DOMAIN Layout /\ Layout[c].address = Layout[i].address
    BY <2>1
  <2>3. Header(Layout[i].address) = <<Layout[c].id, Layout[c].length>>
    BY <2>1 DEF Header
  <2> HIDE DEF c
  <2>4. c = i
    BY <1>1, <2>2
  <2>5. QED BY <2>3, <2>4
<1>3. Header(End) = <<EndId, 0>>
  <2>1. ~ \E i \in DOMAIN Layout : Layout[i].address = End
    BY <1>1
  <2>2. QED BY <2>1 DEF Header
<1>4. QED BY <1>2, <1>3

-----------------------------------------------------------------------------
(* The models that a scan found.                                           *)

\* An id is there with at least one model, and only with models of that id.
FoundType(found) ==
  \A id \in DOMAIN found :
    /\ id \in Nat \ {EndId}
    /\ found[id] \in Seq(ModelType) /\ found[id] # <<>>
    /\ \A i \in 1 .. Len(found[id]) : found[id][i].id = id

LEMMA ConcatSet ==
  ASSUME NEW S, NEW s \in Seq(S), NEW t \in Seq(S)
  PROVE  s \o t \in Seq(S) /\ ToSet(s \o t) = ToSet(s) \cup ToSet(t)
<1>1. /\ s \o t \in Seq(S) /\ Len(s) \in Nat /\ Len(t) \in Nat
      /\ Len(s \o t) = Len(s) + Len(t)
      /\ \A i \in 1 .. Len(s) : (s \o t)[i] = s[i]
      /\ \A i \in 1 .. Len(t) : (s \o t)[Len(s) + i] = t[i]
  OBVIOUS
<1>2. /\ DOMAIN s = 1 .. Len(s) /\ DOMAIN t = 1 .. Len(t)
      /\ DOMAIN (s \o t) = 1 .. Len(s) + Len(t)
  BY <1>1
<1>3. ASSUME NEW x \in ToSet(s \o t) PROVE x \in ToSet(s) \cup ToSet(t)
  <2>1. PICK i \in 1 .. Len(s) + Len(t) : x = (s \o t)[i]
    BY <1>2 DEF ToSet
  <2>2. CASE i \in 1 .. Len(s)
    BY <1>1, <1>2, <2>1, <2>2 DEF ToSet
  <2>3. CASE i \notin 1 .. Len(s)
    <3>1. i - Len(s) \in 1 .. Len(t) /\ Len(s) + (i - Len(s)) = i
      BY <1>1, <2>3
    <3>2. x = t[i - Len(s)]
      BY <1>1, <2>1, <3>1
    <3>3. QED BY <1>2, <3>1, <3>2 DEF ToSet
  <2>4. QED BY <2>2, <2>3
<1>4. ASSUME NEW x \in ToSet(s) PROVE x \in ToSet(s \o t)
  <2>1. PICK i \in 1 .. Len(s) : x = s[i]
    BY <1>2 DEF ToSet
  <2>2. i \in 1 .. Len(s) + Len(t)
    BY <1>1
  <2>3. QED BY <1>1, <1>2, <2>1, <2>2 DEF ToSet
<1>5. ASSUME NEW x \in ToSet(t) PROVE x \in ToSet(s \o t)
  <2>1. PICK i \in 1 .. Len(t) : x = t[i]
    BY <1>2 DEF ToSet
  <2>2. Len(s) + i \in 1 .. Len(s) + Len(t)
    BY <1>1
  <2>3. QED BY <1>1, <1>2, <2>1, <2>2 DEF ToSet
<1>6. QED BY <1>1, <1>3, <1>4, <1>5

LEMMA MembersType ==
  ASSUME NEW found, FoundType(found)
  PROVE  /\ Members(found) \subseteq ModelType
         /\ \A id \in DOMAIN found :
              found[id][1] \in Members(found) /\ found[id][1].id = id
<1>1. \A id \in DOMAIN found :
        /\ ToSet(found[id]) \subseteq ModelType
        /\ found[id][1] \in ToSet(found[id]) /\ found[id][1].id = id
  <2> SUFFICES ASSUME NEW id \in DOMAIN found
               PROVE  /\ ToSet(found[id]) \subseteq ModelType
                      /\ found[id][1] \in ToSet(found[id]) /\ found[id][1].id = id
    OBVIOUS
  <2>1. found[id] \in Seq(ModelType) /\ Len(found[id]) \in Nat \ {0}
    BY DEF FoundType
  <2>2. DOMAIN found[id] = 1 .. Len(found[id]) /\ \A i \in 1 .. Len(found[id]) : found[id][i] \in ModelType
    BY <2>1
  <2>3. 1 \in 1 .. Len(found[id])
    BY <2>1
  <2>4. QED BY <2>2, <2>3, Zenon DEF ToSet, FoundType
<1>2. QED BY <1>1 DEF Members

\* Another model is one more member.
LEMMA MembersAdd ==
  ASSUME NEW found, FoundType(found), NEW model \in ModelType, model.id \in Nat \ {EndId}
  PROVE  /\ FoundType(AddModel(found, model))
         /\ Members(AddModel(found, model)) = Members(found) \cup {model}
<1> DEFINE new == AddModel(found, model)
           old(id) == IF id \in DOMAIN found THEN found[id] ELSE <<>>
           more(id) == IF id = model.id THEN <<model>> ELSE <<>>
<1>1. /\ DOMAIN new = DOMAIN found \cup {model.id}
      /\ \A id \in DOMAIN new : new[id] = old(id) \o more(id)
  BY DEF AddModel
<1>2. ASSUME NEW id \in DOMAIN new
      PROVE  /\ id \in Nat \ {EndId}
             /\ old(id) \in Seq(ModelType) /\ more(id) \in Seq(ModelType)
             /\ \A i \in 1 .. Len(old(id)) : old(id)[i].id = id
             /\ \A i \in 1 .. Len(more(id)) : more(id)[i].id = id
             /\ Len(old(id)) + Len(more(id)) > 0
  <2>1. /\ <<>> \in Seq(ModelType) /\ Len(<<>>) = 0
        /\ <<model>> \in Seq(ModelType) /\ Len(<<model>>) = 1 /\ <<model>>[1] = model
    OBVIOUS
  <2>2. /\ more(id) \in Seq(ModelType) /\ Len(more(id)) \in Nat
        /\ \A i \in 1 .. Len(more(id)) : more(id)[i].id = id
        /\ id = model.id => Len(more(id)) = 1
    BY <2>1
  <2>3. CASE id \in DOMAIN found
    <3>1. /\ id \in Nat \ {EndId} /\ old(id) = found[id]
          /\ found[id] \in Seq(ModelType) /\ found[id] # <<>>
          /\ \A i \in 1 .. Len(found[id]) : found[id][i].id = id
      BY <2>3 DEF FoundType
    <3>2. Len(old(id)) \in Nat \ {0}
      BY <3>1
    <3> HIDE DEF old, more
    <3>3. QED BY <2>2, <3>1, <3>2
  <2>4. CASE id \notin DOMAIN found
    <3>1. id = model.id /\ old(id) = <<>>
      BY <1>1, <2>4
    <3> HIDE DEF old, more
    <3>2. QED BY <2>1, <2>2, <3>1
  <2>5. QED BY <2>3, <2>4
<1>3. ToSet(<<>>) = {} /\ ToSet(<<model>>) = {model}
  BY DEF ToSet
<1> HIDE DEF new, old, more
<1>4. ASSUME NEW id \in DOMAIN new
      PROVE  /\ new[id] \in Seq(ModelType) /\ new[id] # <<>>
             /\ \A i \in 1 .. Len(new[id]) : new[id][i].id = id
             /\ ToSet(new[id]) = ToSet(old(id)) \cup ToSet(more(id))
  <2>1. old(id) \o more(id) \in Seq(ModelType)
        /\ ToSet(old(id) \o more(id)) = ToSet(old(id)) \cup ToSet(more(id))
    BY <1>2, ConcatSet
  <2>2. new[id] = old(id) \o more(id)
    BY <1>1
  <2>3. /\ Len(new[id]) = Len(old(id)) + Len(more(id))
        /\ Len(old(id)) \in Nat /\ Len(more(id)) \in Nat
        /\ \A i \in 1 .. Len(old(id)) : new[id][i] = old(id)[i]
        /\ \A i \in 1 .. Len(more(id)) : new[id][Len(old(id)) + i] = more(id)[i]
    BY <1>2, <2>2
  <2>4. ASSUME NEW i \in 1 .. Len(new[id]) PROVE new[id][i].id = id
    <3>1. CASE i \in 1 .. Len(old(id))
      BY <1>2, <2>3, <3>1
    <3>2. CASE i \notin 1 .. Len(old(id))
      <4>1. i - Len(old(id)) \in 1 .. Len(more(id)) /\ i = Len(old(id)) + (i - Len(old(id)))
        BY <2>3, <3>2
      <4>2. new[id][i] = more(id)[i - Len(old(id))]
        BY <2>3, <4>1
      <4>3. QED BY <1>2, <4>1, <4>2
    <3>3. QED BY <3>1, <3>2
  <2>5. new[id] # <<>>
    BY <1>2, <2>3
  <2>6. QED BY <2>1, <2>2, <2>4, <2>5
<1>5. FoundType(new)
  BY <1>2, <1>4 DEF FoundType
<1>6. Members(new) = Members(found) \cup {model}
  <2>1. \A id : ToSet(old(id)) = IF id \in DOMAIN found THEN ToSet(found[id]) ELSE {}
    BY <1>3 DEF old
  <2>2. \A id : ToSet(more(id)) = IF id = model.id THEN {model} ELSE {}
    BY <1>3 DEF more
  <2>3. \A id \in DOMAIN new : ToSet(new[id]) = (IF id \in DOMAIN found THEN ToSet(found[id]) ELSE {})
                                                \cup (IF id = model.id THEN {model} ELSE {})
    BY <1>4, <2>1, <2>2
  <2>4. \A x : x \in Members(new) <=> \E id \in DOMAIN new : x \in ToSet(new[id])
    BY Zenon DEF Members
  <2>5. \A x : x \in Members(found) <=> \E id \in DOMAIN found : x \in ToSet(found[id])
    BY Zenon DEF Members
  <2>6. \A x : (\E id \in DOMAIN new : x \in ToSet(new[id]))
               <=> (\E id \in DOMAIN found : x \in ToSet(found[id])) \/ x = model
    BY <1>1, <2>3
  <2>7. QED BY <2>4, <2>5, <2>6
<1>7. QED BY <1>5, <1>6 DEF new

\* The first models of the map, counted.
FirstModels(k) == {Layout[j] : j \in 1 .. k}

LEMMA FirstModelsCount ==
  ASSUME map.models \in Chains, NEW k \in 0 .. Len(map.models)
  PROVE  IsFiniteSet(FirstModels(k)) /\ Cardinality(FirstModels(k)) = k
<1> DEFINE f == [j \in 1 .. k |-> Layout[j]]
<1>1. /\ Len(map.models) \in Nat
      /\ \A i \in 1 .. Len(map.models) : Layout[i].address \in Nat
      /\ \A i, j \in 1 .. Len(map.models) : i < j => Layout[i].address < Layout[j].address
  BY LayoutType DEF ModelType
<1>2. \A i, j \in 1 .. k : i # j => Layout[i] # Layout[j]
  BY <1>1
<1>3. f \in Bijection(1 .. k, FirstModels(k))
  BY <1>2 DEF Bijection, Injection, Surjection, IsInjective, FirstModels
<1>4. ExistsBijection(1 .. k, FirstModels(k))
  BY <1>3, Zenon DEF ExistsBijection
<1>5. Cardinality(FirstModels(k)) = k
  BY <1>4, FS_CountingElements
<1>6. IsFiniteSet(FirstModels(k))
  BY <1>4, FS_NatBijection
<1>7. QED BY <1>5, <1>6

\* A scan that found just the models of the map has them in the order of the map.
LEMMA ChainIsLayout ==
  ASSUME map.models \in Chains, NEW found, Members(found) = FirstModels(Len(map.models))
  PROVE  Chain(found) = Layout
<1> DEFINE N == Len(map.models)
           Before(model) == {other \in Members(found) : other.address < model.address}
<1>1. /\ N \in Nat /\ DOMAIN Layout = 1 .. N
      /\ \A i \in 1 .. N : Layout[i].address \in Nat
      /\ \A i, j \in 1 .. N : i < j => Layout[i].address < Layout[j].address
  BY LayoutType DEF ModelType
<1>2. Cardinality(Members(found)) = N
  BY <1>1, FirstModelsCount
<1>3. ASSUME NEW i \in 1 .. N PROVE Cardinality(Before(Layout[i])) = i - 1
  <2>1. \A j \in 1 .. N : Layout[j].address < Layout[i].address <=> j \in 1 .. i - 1
    BY <1>1
  <2>2. Before(Layout[i]) = FirstModels(i - 1)
    BY <1>1, <2>1 DEF FirstModels
  <2>3. i - 1 \in 0 .. N
    BY <1>1
  <2>4. QED BY <2>2, <2>3, FirstModelsCount
<1> HIDE DEF Before
<1>4. ASSUME NEW i \in 1 .. N
      PROVE  Layout[i] = CHOOSE model \in Members(found) : Cardinality(Before(model)) = i - 1
  <2>1. Layout[i] \in Members(found)
    BY DEF FirstModels
  <2>2. ASSUME NEW model \in Members(found), Cardinality(Before(model)) = i - 1
        PROVE  model = Layout[i]
    <3>1. PICK j \in 1 .. N : model = Layout[j]
      BY DEF FirstModels
    <3>2. j - 1 = i - 1
      BY <1>3, <2>2, <3>1
    <3>3. QED BY <3>1, <3>2
  <2>3. QED BY <1>3, <2>1, <2>2
<1>5. Chain(found) = [i \in 1 .. N |-> Layout[i]]
  BY <1>2, <1>4 DEF Chain, Before
<1>6. Layout = [i \in 1 .. N |-> Layout[i]]
  BY <1>1 DEF Layout
<1>7. QED BY <1>5, <1>6

-----------------------------------------------------------------------------
(* A component and the registers that it reads.                            *)

Asked == UNION {ToSet(ids) : ids \in Wanted}

LEMMA AskedType ==
  ASSUME NEW id \in Asked
  PROVE  id \in Nat /\ Fixed(id) \in Nat \ {0, 1} /\ Stride(id) \in Nat
<1>1. PICK ids \in Wanted : id \in ToSet(ids)
  BY DEF Asked
<1>2. PICK i \in DOMAIN ids : id = ids[i]
  BY <1>1 DEF ToSet
<1>3. ids \in Seq(Nat) /\ Fixed(ids[i]) \in Nat \ {0, 1} /\ Stride(ids[i]) \in Nat
  BY SunSpecAssumption
<1>4. ids[i] \in Nat
  BY <1>3
<1>5. QED BY <1>2, <1>3, <1>4

\* A model that can be bound has room for just the instances that it is bound with.
LEMMA BindType ==
  ASSUME NEW model \in ModelType, model.id \in Asked, Bind(model) # None
  PROVE  /\ Bind(model) \in Nat
         /\ Stride(model.id) > 0 =>
              Span(model) = Fixed(model.id) + Bind(model) * Stride(model.id)
<1> DEFINE stride == Stride(model.id)
           room == Room(model)
<1>1. stride \in Nat /\ room \in Int /\ Span(model) = Fixed(model.id) + room
  BY AskedType DEF Room, Span, ModelType
<1>2. CASE stride = 0
  BY <1>2 DEF Bind
<1>3. CASE stride # 0
  <2>1. room >= 0 /\ room % stride = 0 /\ Bind(model) = room \div stride
    BY <1>1, <1>3 DEF Bind
  <2> HIDE DEF room, stride
  <2>2. room \div stride \in Nat /\ room = (room \div stride) * stride
    BY <1>1, <1>3, <2>1
  <2>3. QED BY <1>1, <2>1, <2>2 DEF stride
<1>4. QED BY <1>2, <1>3

\* Instances of equal length, one behind the other, cover their common length.
LEMMA Tiles ==
  ASSUME NEW stride \in Nat \ {0}, NEW n \in Nat
  PROVE  /\ n * stride \in Nat
         /\ \A i \in 0 .. n - 1 : i * stride \in Nat /\ i * stride + stride <= n * stride
         /\ \A x \in 0 .. n * stride - 1 :
              \E i \in 0 .. n - 1 : i * stride <= x /\ x < i * stride + stride
<1> DEFINE P(k) == /\ k * stride \in Nat
                   /\ \A i \in 0 .. k - 1 : i * stride \in Nat /\ i * stride + stride <= k * stride
                   /\ \A x \in 0 .. k * stride - 1 :
                        \E i \in 0 .. k - 1 : i * stride <= x /\ x < i * stride + stride
           T == {k \in Nat : P(k - 1)}
<1>1. 1 \in T
  OBVIOUS
<1>2. ASSUME NEW k \in 1 .. n, k \in T PROVE k + 1 \in T
  <2>1. P(k - 1)
    BY <1>2
  <2>2. k * stride = (k - 1) * stride + stride
    OBVIOUS
  <2> DEFINE a == (k - 1) * stride
             b == k * stride
  <2>3. a \in Nat /\ b \in Nat /\ b = a + stride
    BY <2>1, <2>2
  <2>4. \A i \in 0 .. k - 1 : i = k - 1 \/ i \in 0 .. (k - 1) - 1
    OBVIOUS
  <2> HIDE DEF a, b
  <2>5. \A i \in 0 .. k - 1 : i * stride \in Nat /\ i * stride + stride <= b
    BY <2>1, <2>3, <2>4 DEF a
  <2>6. ASSUME NEW x \in 0 .. b - 1
        PROVE  \E i \in 0 .. k - 1 : i * stride <= x /\ x < i * stride + stride
    <3>1. CASE x < a
      <4>1. x \in 0 .. a - 1
        BY <2>3, <3>1
      <4>2. PICK i \in 0 .. (k - 1) - 1 : i * stride <= x /\ x < i * stride + stride
        BY <2>1, <4>1 DEF a
      <4>3. QED BY <4>2
    <3>2. CASE ~ (x < a)
      <4>1. a <= x /\ x < a + stride /\ k - 1 \in 0 .. k - 1
        BY <2>3, <3>2
      <4>2. QED BY <4>1 DEF a
    <3>3. QED BY <3>1, <3>2
  <2>7. (k + 1) - 1 = k
    OBVIOUS
  <2>8. P(k)
    BY <2>3, <2>5, <2>6 DEF b
  <2> HIDE DEF P
  <2>9. QED BY <2>7, <2>8
<1>3. T \subseteq Nat
  OBVIOUS
<1> HIDE DEF P
<1>4. n + 1 \in T
  <2> HIDE DEF T
  <2>1. 1 .. n + 1 \subseteq T
    BY <1>1, <1>2, <1>3, UpTo
  <2>2. QED BY <2>1
<1>5. P(n)
  BY <1>4
<1>6. QED BY <1>5 DEF P

\* What holds of every component built: its class was asked for, it has the instances
\* that its model had room for, and it reads its header.
PartInv(part) ==
  /\ part.model \in ModelType /\ part.model.id \in Asked \ {EndId}
  /\ Bind(part.model) # None /\ part.count = Bind(part.model)
  /\ "header" \in part.reads

HeaderBlock(part) == [of |-> part, at |-> part.model.address + 0, count |-> 2]

LEMMA BlocksHaveHeader ==
  ASSUME NEW part, PartInv(part)
  PROVE  HeaderBlock(part) \in Blocks(part)
BY DEF PartInv, Blocks, HeaderBlock

\* A component with a group that is not restricted reads its model, and no neighbour.
LEMMA BlocksCover ==
  ASSUME NEW part, PartInv(part), Stride(part.model.id) > 0, "data" \in part.reads
  PROVE  UNION {Registers(block) : block \in Blocks(part)} =
           part.model.address .. part.model.address + Span(part.model) - 1
<1> DEFINE a == part.model.address
           fixed == Fixed(part.model.id)
           stride == Stride(part.model.id)
           n == part.count
           block(start, count) == [of |-> part, at |-> a + start, count |-> count]
<1>1. /\ a \in Nat /\ fixed \in Nat \ {0, 1} /\ stride \in Nat \ {0} /\ n \in Nat
      /\ Span(part.model) = fixed + n * stride
  BY AskedType, BindType DEF PartInv, ModelType
<1>2. Blocks(part) = {block(0, 2)} \cup {b \in {block(2, fixed - 2)} : b.count > 0}
                       \cup {block(fixed + i * stride, stride) : i \in 0 .. n - 1}
  BY DEF PartInv, Blocks
<1>3. \A start, count : Registers(block(start, count)) = a + start .. a + start + count - 1
  BY DEF Registers
<1>4. Registers(block(0, 2)) = a .. a + 1
  BY <1>1, <1>3
<1>5. {b \in {block(2, fixed - 2)} : b.count > 0} = IF fixed > 2 THEN {block(2, fixed - 2)} ELSE {}
  BY <1>1
<1>6. Registers(block(2, fixed - 2)) = a + 2 .. a + fixed - 1
  <2>1. Registers(block(2, fixed - 2)) = a + 2 .. a + 2 + (fixed - 2) - 1
    BY <1>3
  <2> HIDE DEF a, fixed, stride, n, block
  <2>2. a + 2 + (fixed - 2) - 1 = a + fixed - 1
    BY <1>1
  <2>3. QED BY <2>1, <2>2
<1> DEFINE all == n * stride
<1>7. /\ all \in Nat
      /\ \A i \in 0 .. n - 1 : i * stride \in Nat /\ i * stride + stride <= all
      /\ \A x \in 0 .. all - 1 : \E i \in 0 .. n - 1 : i * stride <= x /\ x < i * stride + stride
  BY <1>1, Tiles
<1> HIDE DEF all, block, fixed, stride, n, a
<1>8. \A x : x \in UNION {Registers(b) : b \in Blocks(part)}
             <=> \/ x \in Registers(block(0, 2))
                 \/ fixed > 2 /\ x \in Registers(block(2, fixed - 2))
                 \/ \E i \in 0 .. n - 1 : x \in Registers(block(fixed + i * stride, stride))
  BY <1>2, <1>5
<1>9. ASSUME NEW x
      PROVE  (\E i \in 0 .. n - 1 : x \in Registers(block(fixed + i * stride, stride)))
               <=> x \in a + fixed .. a + fixed + all - 1
  <2>1. ASSUME NEW i \in 0 .. n - 1, x \in Registers(block(fixed + i * stride, stride))
        PROVE  x \in a + fixed .. a + fixed + all - 1
    <3>1. x \in a + (fixed + i * stride) .. a + (fixed + i * stride) + stride - 1
      BY <1>3, <2>1
    <3>2. i * stride \in Nat /\ i * stride + stride <= all
      BY <1>7
    <3>3. QED BY <1>1, <1>7, <3>1, <3>2
  <2>2. ASSUME x \in a + fixed .. a + fixed + all - 1
        PROVE  \E i \in 0 .. n - 1 : x \in Registers(block(fixed + i * stride, stride))
    <3>1. x - a - fixed \in 0 .. all - 1 /\ x \in Int
      BY <1>1, <1>7, <2>2
    <3>2. PICK i \in 0 .. n - 1 : i * stride <= x - a - fixed /\ x - a - fixed < i * stride + stride
      BY <1>7, <3>1
    <3>3. i * stride \in Nat
      BY <1>7
    <3>4. x \in a + (fixed + i * stride) .. a + (fixed + i * stride) + stride - 1
      BY <1>1, <3>1, <3>2, <3>3
    <3>5. QED BY <1>3, <3>4
  <2>3. QED BY <2>1, <2>2
<1>10. \A x : (x \in a .. a + 1 \/ (fixed > 2 /\ x \in a + 2 .. a + fixed - 1)
                \/ x \in a + fixed .. a + fixed + all - 1)
              <=> x \in a .. a + (fixed + all) - 1
  BY <1>1, <1>7
<1>11. UNION {Registers(b) : b \in Blocks(part)} = a .. a + (fixed + all) - 1
  BY <1>4, <1>6, <1>8, <1>9, <1>10
<1>12. QED BY <1>1, <1>11 DEF a, all, fixed, stride, n

LEMMA FirstType ==
  ASSUME NEW found, FoundType(found), NEW ids \in Wanted, First(found, ids) # None
  PROVE  First(found, ids) \in ModelType /\ First(found, ids).id \in Asked \ {EndId}
<1> DEFINE there == {i \in DOMAIN ids : ids[i] \in DOMAIN found}
<1>1. ids \in Seq(Nat) /\ DOMAIN ids = 1 .. Len(ids) /\ Len(ids) \in Nat
  BY SunSpecAssumption
<1>2. there # {} /\ First(found, ids) = found[ids[Min(there)]][1]
  BY DEF First
<1>3. there \subseteq Nat /\ \A i \in there : i \in DOMAIN ids /\ ids[i] \in DOMAIN found
  BY <1>1
<1> HIDE DEF there
<1>4. Min(there) \in there
  BY <1>2, <1>3, LeastNatural
<1> DEFINE id == ids[Min(there)]
<1>5. id \in DOMAIN found /\ id \in Asked
  <2>1. Min(there) \in DOMAIN ids /\ id \in DOMAIN found
    BY <1>3, <1>4
  <2>2. id \in ToSet(ids)
    BY <2>1, Zenon DEF ToSet
  <2>3. QED BY <2>1, <2>2, Zenon DEF Asked
<1> HIDE DEF id
<1>6. found[id][1] \in ModelType /\ found[id][1].id = id
  BY <1>5, MembersType
<1>7. id # EndId
  BY <1>5 DEF FoundType
<1>8. QED BY <1>2, <1>5, <1>6, <1>7 DEF id

-----------------------------------------------------------------------------
(* The invariant.                                                          *)

\* A scan that has seen one map throughout has found just its first models, and
\* stands at the header behind them.
ScanInv ==
  scanning # NoScan =>
    /\ scanning.at \in Nat /\ FoundType(scanning.found)
    /\ "scan" \notin moved =>
         \E k \in 0 .. Len(map.models) :
           /\ scanning.at = Addresses(map.models)[k + 1]
           /\ Members(scanning.found) = FirstModels(k)

\* An update that has seen one map throughout has noted the header that is there for
\* every component whose header it has no more to read.
UpdateInv ==
  update # None =>
    /\ update = [of |-> update.of, left |-> update.left, header |-> update.header]
    /\ DOMAIN update.header = update.of
    /\ \A part \in update.of : PartInv(part)
    /\ "update" \notin moved =>
         \A part \in update.of : \/ HeaderBlock(part) \in update.left
                                 \/ update.header[part] = Header(part.model.address)

SunSpecInv ==
  /\ map \in Maps
  /\ moved \subseteq {"scan", "update"}
  /\ FoundType(models)
  /\ \A part \in parts : PartInv(part)
  /\ ScanInv
  /\ UpdateInv

LEMMA MapType == SunSpecInv => map.models \in Chains
BY SunSpecAssumption DEF SunSpecInv, Chains, ChainModel

LEMMA SameMap ==
  ASSUME UNCHANGED map
  PROVE  /\ \A a : Header(a)' = Header(a)
         /\ \A k : FirstModels(k)' = FirstModels(k)
BY DEF Header, FirstModels, Layout, End

LEMMA ScanStays ==
  ASSUME SunSpecInv, UNCHANGED <<map, scanning>>, "scan" \in moved => "scan" \in moved'
  PROVE  ScanInv'
BY SameMap DEF SunSpecInv, ScanInv

LEMMA UpdateStays ==
  ASSUME SunSpecInv, UNCHANGED <<map, update>>, "update" \in moved => "update" \in moved'
  PROVE  UpdateInv'
BY SameMap DEF SunSpecInv, UpdateInv

-----------------------------------------------------------------------------
(* The actions.                                                            *)

LEMMA InitInv == Init => SunSpecInv
<1>1. FoundType(NoModels)
  BY DEF FoundType, NoModels
<1>2. QED BY <1>1 DEF Init, SunSpecInv, ScanInv, UpdateInv

LEMMA MoveKeeps ==
  ASSUME SunSpecInv, Move PROVE SunSpecInv'
BY DEF Move, SunSpecInv, ScanInv, UpdateInv

LEMMA ScanKeeps ==
  ASSUME SunSpecInv, Scan PROVE SunSpecInv'
<1>1. UpdateInv'
  BY UpdateStays DEF Scan
<1>2. ScanInv'
  <2>1. CASE ~map.marker
    BY <2>1 DEF Scan, ScanInv
  <2>2. CASE map.marker
    <3>1. scanning' = [at |-> Base + 2, found |-> NoModels] /\ map' = map
      BY <2>2 DEF Scan
    <3>2. FoundType(NoModels) /\ Members(NoModels) = {}
      BY DEF FoundType, Members, NoModels
    <3>3. Base + 2 \in Nat
      BY SunSpecAssumption
    <3>4. 0 \in 0 .. Len(map.models) /\ Addresses(map.models)[0 + 1] = Base + 2
      BY MapType, LayoutType, AddressesDef
    <3>5. FirstModels(0)' = {}
      BY DEF FirstModels
    <3>6. QED BY <3>1, <3>2, <3>3, <3>4, <3>5 DEF ScanInv
  <2>3. QED BY <2>1, <2>2
<1>3. QED BY <1>1, <1>2 DEF Scan, SunSpecInv

\* What a step of the walk finds: on a map that has not moved, the next model of the
\* map, or the end of it.
LEMMA HeaderFound ==
  ASSUME SunSpecInv, scanning # NoScan
  PROVE  LET header == Header(scanning.at)
             model == [id |-> header[1], length |-> header[2], address |-> scanning.at]
         IN /\ header[1] \in Nat /\ model \in ModelType /\ Span(model) \in Nat
            /\ "scan" \notin moved /\ header[1] # EndId =>
                 \E k \in 1 .. Len(map.models) :
                   /\ scanning.at + Span(model) = Addresses(map.models)[k + 1]
                   /\ Members(scanning.found) \cup {model} = FirstModels(k)
            /\ "scan" \notin moved /\ header[1] = EndId =>
                 Members(scanning.found) = FirstModels(Len(map.models))
<1> DEFINE header == Header(scanning.at)
           model == [id |-> header[1], length |-> header[2], address |-> scanning.at]
           N == Len(map.models)
<1>1. map.models \in Chains /\ scanning.at \in Nat
  BY MapType DEF SunSpecInv, ScanInv
<1>2. /\ N \in Nat
      /\ \A i \in 1 .. N : /\ Layout[i] \in ModelType /\ Layout[i].id \in Nat \ {EndId}
                           /\ Layout[i].address = Addresses(map.models)[i]
                           /\ Addresses(map.models)[i + 1] =
                                Layout[i].address + Layout[i].length + 2
  BY <1>1, LayoutType
<1>3. header[1] \in Nat /\ header[2] \in Nat
  <2>1. CASE header = <<EndId, 0>> \/ header = <<Data, Data>>
    BY <2>1, SunSpecAssumption
  <2>2. CASE \E i \in 1 .. N : header = <<Layout[i].id, Layout[i].length>>
    BY <1>2, <2>2 DEF ModelType
  <2>3. QED BY <1>1, <2>1, <2>2, HeaderType
<1> HIDE DEF header
<1>4. model \in ModelType /\ Span(model) \in Nat
  BY <1>1, <1>3 DEF ModelType, Span
<1>5. ASSUME "scan" \notin moved
      PROVE  /\ header[1] # EndId =>
                  \E k \in 1 .. N :
                    /\ scanning.at + Span(model) = Addresses(map.models)[k + 1]
                    /\ Members(scanning.found) \cup {model} = FirstModels(k)
             /\ header[1] = EndId => Members(scanning.found) = FirstModels(N)
  <2>1. PICK k \in 0 .. N : /\ scanning.at = Addresses(map.models)[k + 1]
                            /\ Members(scanning.found) = FirstModels(k)
    BY <1>5 DEF SunSpecInv, ScanInv
  <2>2. CASE k = N
    <3>1. scanning.at = End
      BY <2>1, <2>2 DEF End
    <3>2. header = <<EndId, 0>>
      BY <1>1, <3>1, HeaderAt DEF header
    <3>3. QED BY <2>1, <2>2, <3>2
  <2>3. CASE k # N
    <3>1. k + 1 \in 1 .. N
      BY <1>2, <2>3
    <3> DEFINE next == Layout[k + 1]
    <3>2. next \in ModelType /\ next.id # EndId /\ next.address = scanning.at
      BY <1>2, <2>1, <3>1
    <3>3. header = <<next.id, next.length>>
      BY <1>1, <3>1, <3>2, HeaderAt DEF header
    <3>4. model = next
      BY <3>2, <3>3 DEF ModelType
    <3>5. FirstModels(k + 1) = FirstModels(k) \cup {next}
      <4>1. 1 .. k + 1 = (1 .. k) \cup {k + 1}
        BY <3>1
      <4>2. QED BY <4>1 DEF FirstModels
    <3>6. Addresses(map.models)[(k + 1) + 1] = scanning.at + Span(model)
      <4>1. Addresses(map.models)[(k + 1) + 1] = next.address + next.length + 2
        BY <1>2, <3>1
      <4> HIDE DEF next
      <4>2. QED BY <1>1, <3>2, <3>4, <4>1 DEF Span, ModelType
    <3> HIDE DEF next, model
    <3>7. header[1] # EndId
      BY <3>2, <3>3
    <3>8. QED BY <2>1, <3>1, <3>4, <3>5, <3>6, <3>7
  <2>4. QED BY <2>2, <2>3
<1>6. QED BY <1>3, <1>4, <1>5 DEF header

LEMMA NextHeaderKeeps ==
  ASSUME SunSpecInv, NextHeader PROVE SunSpecInv'
<1> DEFINE header == Header(scanning.at)
           model == [id |-> header[1], length |-> header[2], address |-> scanning.at]
<1>1. /\ scanning # NoScan /\ UNCHANGED <<map, parts, update, moved>>
      /\ header[1] = EndId => models' = scanning.found /\ scanning' = NoScan
      /\ header[1] # EndId =>
           /\ scanning' = [at |-> scanning.at + Span(model),
                           found |-> AddModel(scanning.found, model)]
           /\ UNCHANGED models
  BY DEF NextHeader
<1>2. FoundType(scanning.found) /\ scanning.at \in Nat
  BY <1>1 DEF SunSpecInv, ScanInv
<1>3. UpdateInv'
  BY <1>1, UpdateStays
<1> HIDE DEF header
<1>4. FoundType(models')
  BY <1>1, <1>2 DEF SunSpecInv
<1>5. ScanInv'
  <2>1. CASE header[1] = EndId
    BY <1>1, <2>1 DEF ScanInv
  <2>2. CASE header[1] # EndId
    <3>1. /\ header[1] \in Nat /\ model \in ModelType /\ Span(model) \in Nat
          /\ "scan" \notin moved =>
               \E k \in 1 .. Len(map.models) :
                 /\ scanning.at + Span(model) = Addresses(map.models)[k + 1]
                 /\ Members(scanning.found) \cup {model} = FirstModels(k)
      BY <1>1, <2>2, HeaderFound DEF header
    <3>2. /\ FoundType(AddModel(scanning.found, model))
          /\ Members(AddModel(scanning.found, model)) = Members(scanning.found) \cup {model}
      BY <1>2, <2>2, <3>1, MembersAdd
    <3> HIDE DEF model
    <3>3. /\ scanning'.at = scanning.at + Span(model)
          /\ scanning'.found = AddModel(scanning.found, model)
      BY <1>1, <2>2
    <3>4. scanning.at + Span(model) \in Nat
      BY <1>2, <3>1
    <3>5. \A k : FirstModels(k)' = FirstModels(k)
      BY <1>1, SameMap
    <3>6. ASSUME "scan" \notin moved
          PROVE  \E k \in 0 .. Len(map.models) :
                   /\ scanning'.at = Addresses(map.models)[k + 1]
                   /\ Members(scanning'.found) = FirstModels(k)
      <4>1. PICK k \in 1 .. Len(map.models) :
              /\ scanning.at + Span(model) = Addresses(map.models)[k + 1]
              /\ Members(scanning.found) \cup {model} = FirstModels(k)
        BY <3>1, <3>6
      <4>2. k \in 0 .. Len(map.models)
        OBVIOUS
      <4>3. QED BY <3>2, <3>3, <4>1, <4>2
    <3>7. /\ map' = map /\ moved' = moved
      BY <1>1
    <3>8. (\E k \in 0 .. Len(map.models) :
             /\ scanning.at = Addresses(map.models)[k + 1]
             /\ Members(scanning.found) = FirstModels(k))'
          <=> \E k \in 0 .. Len(map.models) :
                /\ scanning'.at = Addresses(map.models)[k + 1]
                /\ Members(scanning'.found) = FirstModels(k)
      BY <3>5, <3>7
    <3>9. FoundType(scanning'.found) /\ scanning'.at \in Nat
      BY <3>2, <3>3, <3>4
    <3>10. QED BY <3>6, <3>7, <3>8, <3>9 DEF ScanInv
  <2>3. QED BY <2>1, <2>2
<1>6. QED BY <1>1, <1>3, <1>4, <1>5 DEF SunSpecInv

LEMMA ScanEndsKeeps ==
  ASSUME SunSpecInv, ScanRaises \/ ScanFails PROVE SunSpecInv'
<1>1. scanning' = NoScan /\ UNCHANGED <<map, models, parts, update, moved>>
  BY DEF ScanRaises, ScanFails
<1>2. UpdateInv'
  BY <1>1, UpdateStays
<1>3. ScanInv'
  BY <1>1 DEF ScanInv
<1>4. QED BY <1>1, <1>2, <1>3 DEF SunSpecInv

LEMMA BuildKeeps ==
  ASSUME SunSpecInv, Build PROVE SunSpecInv'
<1>1. UNCHANGED <<map, scanning, models, update, moved>>
  BY DEF Build
<1>2. PICK ids \in Wanted :
        /\ First(models, ids) # None /\ Bind(First(models, ids)) # None
        /\ parts' = parts \cup {[model |-> First(models, ids), count |-> Bind(First(models, ids)),
                                 reads |-> {"header", "data"}]}
  BY DEF Build
<1> DEFINE model == First(models, ids)
           part == [model |-> model, count |-> Bind(model), reads |-> {"header", "data"}]
<1>3. model \in ModelType /\ model.id \in Asked \ {EndId}
  BY <1>2, FirstType DEF SunSpecInv
<1>4. Bind(model) # None /\ parts' = parts \cup {part}
  BY <1>2
<1> HIDE DEF model
<1>5. PartInv(part)
  BY <1>3, <1>4 DEF PartInv
<1>6. \A p \in parts' : PartInv(p)
  BY <1>4, <1>5 DEF SunSpecInv
<1>7. ScanInv' /\ UpdateInv'
  BY <1>1, ScanStays, UpdateStays
<1>8. QED BY <1>1, <1>6, <1>7 DEF SunSpecInv

LEMMA RestrictFieldsKeeps ==
  ASSUME SunSpecInv, RestrictFields PROVE SunSpecInv'
<1>1. UNCHANGED <<map, scanning, models, update, moved>>
  BY DEF RestrictFields
<1>2. PICK part \in parts, names \in SUBSET {"data"} :
        parts' = (parts \ {part}) \cup
                   {[part EXCEPT !.reads = Restricted(names) \cap part.reads]}
  BY DEF RestrictFields
<1> DEFINE new == [part EXCEPT !.reads = Restricted(names) \cap part.reads]
<1>3. PartInv(part)
  BY DEF SunSpecInv
<1>4. PartInv(new)
  <2>1. new.model = part.model /\ new.count = part.count
    OBVIOUS
  <2>2. "reads" \in DOMAIN part => new.reads = Restricted(names) \cap part.reads
    OBVIOUS
  <2>3. QED BY <1>3, <2>1, <2>2 DEF PartInv, Restricted
<1>5. \A p \in parts' : PartInv(p)
  BY <1>2, <1>4 DEF SunSpecInv
<1>6. ScanInv' /\ UpdateInv'
  BY <1>1, ScanStays, UpdateStays
<1>7. QED BY <1>1, <1>5, <1>6 DEF SunSpecInv

LEMMA UpdateKeeps ==
  ASSUME SunSpecInv, Update PROVE SunSpecInv'
<1>1. UNCHANGED <<map, scanning, models, parts>> /\ moved' = moved \ {"update"}
  BY DEF Update
<1>2. PICK group \in SUBSET parts :
        update' = [of |-> group, left |-> UNION {Blocks(part) : part \in group},
                   header |-> [part \in group |-> None]]
  BY DEF Update
<1>3. \A part \in group : PartInv(part)
  BY DEF SunSpecInv
<1>4. \A part \in group : HeaderBlock(part) \in UNION {Blocks(p) : p \in group}
  BY <1>3, BlocksHaveHeader
<1>5. UpdateInv'
  BY <1>2, <1>3, <1>4 DEF UpdateInv
<1>6. ScanInv'
  BY <1>1, ScanStays
<1>7. QED BY <1>1, <1>5, <1>6 DEF SunSpecInv

LEMMA ReadBlockKeeps ==
  ASSUME SunSpecInv, ReadBlock PROVE SunSpecInv'
<1>1. update # None /\ UNCHANGED <<map, scanning, models, parts, moved>>
  BY DEF ReadBlock
<1>2. PICK block \in update.left :
        update' = [update EXCEPT
          !.left = @ \ {block},
          !.header = IF block.at = block.of.model.address
                     THEN [@ EXCEPT ![block.of] = Header(block.at)] ELSE @]
  BY DEF ReadBlock
<1> DEFINE header == IF block.at = block.of.model.address
                     THEN [update.header EXCEPT ![block.of] = Header(block.at)]
                     ELSE update.header
<1>3. /\ update = [of |-> update.of, left |-> update.left, header |-> update.header]
      /\ DOMAIN update.header = update.of
      /\ \A part \in update.of : PartInv(part)
      /\ "update" \notin moved =>
           \A part \in update.of : \/ HeaderBlock(part) \in update.left
                                   \/ update.header[part] = Header(part.model.address)
  BY <1>1 DEF SunSpecInv, UpdateInv
<1>4. update' = [of |-> update.of, left |-> update.left \ {block}, header |-> header]
  BY <1>2, <1>3
<1>5. DOMAIN header = update.of
  BY <1>3
<1>6. ASSUME NEW part \in update.of, "update" \notin moved
      PROVE  \/ HeaderBlock(part) \in update.left \ {block}
             \/ header[part] = Header(part.model.address)
  <2>1. CASE update.header[part] = Header(part.model.address)
    BY <1>3, <2>1
  <2>2. CASE HeaderBlock(part) \in update.left /\ HeaderBlock(part) # block
    BY <2>2
  <2>3. CASE HeaderBlock(part) = block
    <3>1. part.model.address \in Nat
      BY <1>3 DEF PartInv, ModelType
    <3>2. block.of = part /\ block.at = part.model.address
      BY <2>3, <3>1 DEF HeaderBlock
    <3>3. QED BY <1>3, <3>2
  <2>4. QED BY <1>3, <1>6, <2>1, <2>2, <2>3
<1> HIDE DEF header
<1>7. \A a : Header(a)' = Header(a)
  BY <1>1, SameMap
<1>8. UpdateInv'
  BY <1>1, <1>3, <1>4, <1>5, <1>6, <1>7 DEF UpdateInv
<1>9. ScanInv'
  BY <1>1, ScanStays
<1>10. QED BY <1>1, <1>8, <1>9 DEF SunSpecInv

LEMMA UpdateEndsKeeps ==
  ASSUME SunSpecInv, UpdateFails \/ Notify \/ MapShifted PROVE SunSpecInv'
<1>1. update' = None /\ UNCHANGED <<map, scanning, models, parts, moved>>
  BY DEF UpdateFails, Notify, MapShifted
<1>2. ScanInv' /\ UpdateInv'
  BY <1>1, ScanStays DEF UpdateInv
<1>3. QED BY <1>1, <1>2 DEF SunSpecInv

LEMMA NextInv == SunSpecInv /\ [Next]_vars => SunSpecInv'
<1> SUFFICES ASSUME SunSpecInv, [Next]_vars PROVE SunSpecInv'
  OBVIOUS
<1>1. CASE Next
  BY <1>1, MoveKeeps, ScanKeeps, NextHeaderKeeps, ScanEndsKeeps, BuildKeeps,
     RestrictFieldsKeeps, UpdateKeeps, ReadBlockKeeps, UpdateEndsKeeps DEF Next
<1>2. CASE UNCHANGED vars
  BY <1>2, ScanStays, UpdateStays DEF vars, SunSpecInv
<1>3. QED BY <1>1, <1>2

LEMMA SunSpecInvariant == Spec => []SunSpecInv
<1>1. QED BY InitInv, NextInv, PTL DEF Spec

-----------------------------------------------------------------------------
(* The theorems.                                                           *)

\* The locals of scan() and of an update, and the components built, hold what they may:
\* a component never has fewer than no instances, however short its model is.
THEOREM SunSpecTypeCorrect == Spec => []TypeOK
<1>1. SunSpecInv => TypeOK
  <2> SUFFICES ASSUME SunSpecInv PROVE TypeOK
    OBVIOUS
  <2>1. scanning # NoScan => scanning.at \in Nat /\ Members(scanning.found) \subseteq ModelType
    BY MembersType DEF SunSpecInv, ScanInv
  <2>2. Members(models) \subseteq ModelType
    BY MembersType DEF SunSpecInv
  <2>3. ASSUME NEW part \in parts PROVE part.model \in ModelType /\ part.count \in Nat
    <3>1. PartInv(part)
      BY DEF SunSpecInv
    <3>2. QED BY <3>1, BindType DEF PartInv
  <2>4. QED BY <2>1, <2>2, <2>3 DEF TypeOK, SunSpecInv, UpdateInv
<1>2. QED BY <1>1, SunSpecInvariant, PTL

\* scan() returns just the models of a map that stayed as it was, in chain order, and
\* gives up only on a map that is too long or that runs beyond what the device answers.
THEOREM ScansAreExact == Spec => ScanIsExact
<1> DEFINE Exact ==
      /\ NextHeader /\ scanning' = NoScan /\ "scan" \notin moved => Chain(models') = Layout
      /\ ScanRaises /\ "scan" \notin moved =>
           Len(map.models) >= MaxModels \/ ~Answered(End, 2)
<1>1. SunSpecInv => Exact
  <2> SUFFICES ASSUME SunSpecInv PROVE Exact
    OBVIOUS
  <2>1. ASSUME NextHeader, scanning' = NoScan, "scan" \notin moved
        PROVE  Chain(models') = Layout
    <3> DEFINE header == Header(scanning.at)
               model == [id |-> header[1], length |-> header[2], address |-> scanning.at]
    <3>1. scanning # NoScan /\ scanning.at \in Nat
      BY <2>1 DEF NextHeader, SunSpecInv, ScanInv
    <3>2. model \in ModelType /\ Span(model) \in Nat
      BY <3>1, HeaderFound
    <3>3. header[1] = EndId
      <4>1. SUFFICES ASSUME header[1] # EndId PROVE FALSE
        OBVIOUS
      <4>2. scanning' = [at |-> scanning.at + Span(model),
                         found |-> AddModel(scanning.found, model)]
        BY <2>1, <4>1 DEF NextHeader
      <4> HIDE DEF model
      <4>3. scanning'.at \in Nat
        BY <3>1, <3>2, <4>2
      <4>4. QED BY <2>1, <4>3, SunSpecAssumption DEF NoScan
    <3>4. models' = scanning.found
      BY <2>1, <3>3 DEF NextHeader
    <3>5. Members(scanning.found) = FirstModels(Len(map.models))
      BY <2>1, <3>1, <3>3, HeaderFound
    <3>6. QED BY <3>4, <3>5, MapType, ChainIsLayout
  <2>2. ASSUME ScanRaises, "scan" \notin moved
        PROVE  Len(map.models) >= MaxModels \/ ~Answered(End, 2)
    <3>1. scanning # NoScan /\ (FoundAll \/ ~Answered(scanning.at, 2))
      BY <2>2 DEF ScanRaises
    <3>2. PICK k \in 0 .. Len(map.models) : /\ scanning.at = Addresses(map.models)[k + 1]
                                            /\ Members(scanning.found) = FirstModels(k)
      BY <2>2, <3>1 DEF SunSpecInv, ScanInv
    <3>3. Len(map.models) \in Nat
      BY MapType, LayoutType
    <3>4. CASE FoundAll
      <4>1. k = MaxModels
        BY <3>2, <3>4, MapType, FirstModelsCount DEF FoundAll
      <4>2. QED BY <3>3, <4>1
    <3>5. CASE ~Answered(scanning.at, 2)
      <4>1. scanning.at \in Nat /\ End \in Nat /\ scanning.at <= End
        <5>1. CASE k = Len(map.models)
          BY <3>2, <5>1, MapType, LayoutType DEF End
        <5>2. CASE k # Len(map.models)
          <6>1. k + 1 \in 1 .. Len(map.models)
            BY <3>3, <5>2
          <6>2. QED BY <3>2, <6>1, MapType, LayoutType DEF ModelType
        <5>3. QED BY <5>1, <5>2
      <4>2. QED BY <3>5, <4>1, SunSpecAssumption DEF Answered
    <3>6. QED BY <3>1, <3>4, <3>5
  <2>3. QED BY <2>1, <2>2
<1>2. SunSpecInv => [Exact]_vars
  BY <1>1
<1>3. QED BY <1>2, SunSpecInvariant, PTL DEF ScanIsExact

\* What the header of a component says, on a map that an update has seen throughout.
LEMMA HeaderSays ==
  ASSUME SunSpecInv, NEW part, PartInv(part)
  PROVE  /\ part.model \in ToSet(Layout) =>
              Header(part.model.address) = <<part.model.id, part.model.length>>
         /\ /\ Header(part.model.address) = <<part.model.id, part.model.length>>
            /\ Data \notin Asked
            => part.model \in ToSet(Layout)
<1>1. /\ map.models \in Chains /\ part.model \in ModelType /\ part.model.id \in Asked
      /\ part.model.id # EndId
  BY MapType DEF PartInv
<1>2. /\ DOMAIN Layout = 1 .. Len(map.models)
      /\ \A i \in 1 .. Len(map.models) : Layout[i] \in ModelType
  BY <1>1, LayoutType
<1>3. ASSUME part.model \in ToSet(Layout)
      PROVE  Header(part.model.address) = <<part.model.id, part.model.length>>
  <2>1. PICK i \in 1 .. Len(map.models) : part.model = Layout[i]
    BY <1>2, <1>3 DEF ToSet
  <2>2. QED BY <1>1, <2>1, HeaderAt
<1>4. ASSUME Header(part.model.address) = <<part.model.id, part.model.length>>,
             Data \notin Asked
      PROVE  part.model \in ToSet(Layout)
  <2>1. PICK i \in 1 .. Len(map.models) :
          /\ Layout[i].address = part.model.address
          /\ Header(part.model.address) = <<Layout[i].id, Layout[i].length>>
    BY <1>1, <1>4, HeaderType
  <2>2. Layout[i].id = part.model.id /\ Layout[i].length = part.model.length
    BY <1>4, <2>1
  <2>3. \A m, n \in ModelType :
          m.id = n.id /\ m.length = n.length /\ m.address = n.address => m = n
    BY DEF ModelType
  <2>4. Layout[i] = part.model
    BY <1>1, <1>2, <2>1, <2>2, <2>3
  <2>5. QED BY <1>2, <2>4 DEF ToSet
<1>5. QED BY <1>3, <1>4

\* An update that saw one map tells its listeners only when every component still stands
\* at its model, and a component with a group has read that model and no neighbour.  The
\* header is all that is compared: where data may look like the header of a class, no
\* comparison tells them apart.
THEOREM ToldUpdatesAreUnmoved ==
  ASSUME Data \notin Asked
  PROVE  Spec => ToldMeansUnmoved
<1> DEFINE Told ==
      Notify /\ "update" \notin moved =>
        \A part \in update.of :
          /\ part.model \in ToSet(Layout)
          /\ Stride(part.model.id) > 0 /\ "data" \in part.reads =>
               UNION {Registers(block) : block \in Blocks(part)} =
                 part.model.address .. part.model.address + Span(part.model) - 1
<1>1. SunSpecInv => Told
  <2> SUFFICES ASSUME SunSpecInv, Notify, "update" \notin moved, NEW part \in update.of
               PROVE  /\ part.model \in ToSet(Layout)
                      /\ Stride(part.model.id) > 0 /\ "data" \in part.reads =>
                           UNION {Registers(block) : block \in Blocks(part)} =
                             part.model.address .. part.model.address + Span(part.model) - 1
    OBVIOUS
  <2>1. /\ update # None /\ update.left = {}
        /\ update.header[part] = <<part.model.id, part.model.length>>
    BY DEF Notify, Done, AllVerified, Verified
  <2>2. PartInv(part) /\ update.header[part] = Header(part.model.address)
    BY <2>1 DEF SunSpecInv, UpdateInv
  <2>3. part.model \in ToSet(Layout)
    BY <2>1, <2>2, HeaderSays
  <2>4. QED BY <2>2, <2>3, BlocksCover
<1> HIDE DEF Told
<1>2. SunSpecInv => [Told]_vars
  BY <1>1
<1>3. QED BY <1>2, SunSpecInvariant, PTL DEF ToldMeansUnmoved, Told

\* SunSpecMapShiftError is raised only when a component's model is gone from its place
\* or the map moved under the update: a restricted component is no cause of it.
THEOREM ShiftsAreReal == Spec => ShiftIsReal
<1> DEFINE Real == MapShifted => "update" \in moved
                                 \/ \E part \in update.of : part.model \notin ToSet(Layout)
<1>1. SunSpecInv => Real
  <2> SUFFICES ASSUME SunSpecInv, MapShifted, "update" \notin moved
               PROVE  \E part \in update.of : part.model \notin ToSet(Layout)
    OBVIOUS
  <2>1. PICK part \in update.of : /\ update # None /\ update.left = {}
                                  /\ update.header[part] # <<part.model.id, part.model.length>>
    BY DEF MapShifted, Done, AllVerified, Verified
  <2>2. PartInv(part) /\ update.header[part] = Header(part.model.address)
    BY <2>1 DEF SunSpecInv, UpdateInv
  <2>3. QED BY <2>1, <2>2, HeaderSays
<1> HIDE DEF Real
<1>2. SunSpecInv => [Real]_vars
  BY <1>1
<1>3. QED BY <1>2, SunSpecInvariant, PTL DEF ShiftIsReal, Real

=============================================================================
