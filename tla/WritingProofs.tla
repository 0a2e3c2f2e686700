---------------------------- MODULE WritingProofs -----------------------------
(* Theorems about Writing for every value of its constants: any fields and  *)
(* values, any number of calls, whatever others do to the unit meanwhile.   *)
EXTENDS Writing, WellFoundedInduction, TLAPS

\* The events that tell of call c.
Told(c) == {i \in DOMAIN events : events[i].by = c}

\* The one event that tells of a call that stands as w.
EventOf(c, w) == [by |-> c, space |-> w.field.space, at |-> w.field.at, words |-> w.words]

\* What the events tell of a call that stands as w.
Reported(c, w) ==
  IF w.at \notin {Written, Unheard} THEN Told(c) = {}
  ELSE \E i \in Told(c) : Told(c) = {i} /\ events[i] = EventOf(c, w)

\* What a call is made of.
Keys == {"at", "field", "value", "exponent", "words"}

WritingType ==
  /\ \E S : events \in Seq(S)
  /\ DOMAIN call = Calls
  /\ \A c \in Calls : DOMAIN call[c] = Keys

WritingInv == WritingType /\ \A c \in Calls : Reported(c, call[c])

\* Stages at which nothing has been told.
Silent == {Ready, Reading, Sending, Rejected, Failed}

LEMMA StagesDiffer == Silent \cap {Written, Unheard} = {}
BY DEF Silent, Ready, Reading, Sending, Rejected, Failed, Written, Unheard

-----------------------------------------------------------------------------
(* The log of events.                                                      *)

\* A write adds one event at the end of the log.
LEMMA Logged ==
  ASSUME NEW S, events \in Seq(S), NEW e, events' = Append(events, e)
  PROVE  /\ \E T : events' \in Seq(T)
         /\ Len(events) + 1 \notin DOMAIN events
         /\ DOMAIN events' = DOMAIN events \cup {Len(events) + 1}
         /\ events'[Len(events) + 1] = e
         /\ \A i \in DOMAIN events : events'[i] = events[i]
<1> DEFINE T == S \cup {e}
<1>1. events \in Seq(T) /\ e \in T
  OBVIOUS
<1> HIDE DEF T
<1>2. events' \in Seq(T)
  BY <1>1
<1>3. QED BY <1>1, <1>2

\* An event by one says nothing new of another.
LEMMA ToldStays ==
  ASSUME WritingType, NEW e, events' = Append(events, e), NEW c, c # e.by
  PROVE  Told(c)' = Told(c) /\ \A i \in Told(c) : events'[i] = events[i]
BY Logged DEF WritingType, Told

-----------------------------------------------------------------------------
(* The steps.                                                              *)

LEMMA InitWritingInv == Init => WritingInv
<1> SUFFICES ASSUME Init PROVE WritingInv
  OBVIOUS
<1>1. events = <<>> /\ call = [c \in Calls |-> New]
  BY DEF Init, MockInit
<1>2. WritingType
  BY <1>1 DEF WritingType, New, Keys
<1>3. ASSUME NEW c \in Calls PROVE Reported(c, call[c])
  <2>1. Told(c) = {}
    BY <1>1 DEF Told
  <2>2. New.at \in Silent
    BY DEF New, Silent
  <2>3. QED BY <1>1, <2>1, <2>2, StagesDiffer DEF Reported
<1>4. QED BY <1>2, <1>3 DEF WritingInv

\* A step that is not a write request's tells nobody, and moves a call that nothing was
\* told of to a stage at which nothing has been told.
LEMMA SilentKeeps ==
  ASSUME WritingInv, UNCHANGED events, NEW c \in Calls, NEW w,
         call[c].at \in Silent, w.at \in Silent, DOMAIN w = Keys,
         call' = [call EXCEPT ![c] = w]
  PROVE  WritingInv'
<1>1. WritingType'
  BY DEF WritingInv, WritingType
<1>2. ASSUME NEW d \in Calls PROVE Reported(d, call[d])'
  <2>1. CASE d = c
    BY <2>1, StagesDiffer DEF WritingInv, WritingType, Reported, Told
  <2>2. CASE d # c
    BY <2>2 DEF WritingInv, WritingType, Reported, Told, EventOf
  <2>3. QED BY <2>1, <2>2
<1>3. QED BY <1>1, <1>2 DEF WritingInv

\* Sending words, or having them refused.
LEMMA SendsType ==
  ASSUME NEW w, DOMAIN w = Keys, NEW words
  PROVE  Sends(w, words).at \in Silent /\ DOMAIN Sends(w, words) = Keys
BY DEF Sends, Keys, Silent

LEMMA AskKeeps ==
  ASSUME WritingInv, NEW c \in Calls, NEW name, NEW value, Ask(c, name, value)
  PROVE  WritingInv'
<1> DEFINE f == FieldAt(name)
           vetted == IF f = None THEN Invalid ELSE Vetted(f, value)
           asked == [New EXCEPT !.field = f, !.value = vetted]
           w == IF vetted = Invalid THEN [asked EXCEPT !.at = Rejected]
                ELSE IF ReadFirst(f) # None THEN [asked EXCEPT !.at = Reading]
                ELSE Sends(asked, Encode(f, vetted, None))
<1>1. DOMAIN asked = Keys
  BY DEF New, Keys
<1>2. call[c].at \in Silent /\ call' = [call EXCEPT ![c] = w] /\ UNCHANGED events
  BY DEF Ask, mockVars, Silent
<1> HIDE DEF asked, vetted, f
<1>3. w.at \in Silent /\ DOMAIN w = Keys
  BY <1>1, SendsType DEF Keys, Silent
<1> HIDE DEF w
<1>4. QED BY <1>2, <1>3, SilentKeeps

LEMMA ReadKeeps ==
  ASSUME WritingInv, NEW c \in Calls, Read(c)
  PROVE  WritingInv'
<1> DEFINE f == call[c].field
           word == Word(holding, ReadFirst(f))
           merged == Merge(f, word, call[c].value)
           exponent == Signed(word, WordBits)
           refused == Refused("read", "holding", ReadFirst(f), 1)
           packed == f.kind \in {"bit", "bits"}
           bits == IF merged = Invalid THEN Invalid ELSE <<merged>>
           coded == Encode(f, call[c].value, exponent)
           w == IF refused THEN [call[c] EXCEPT !.at = Failed]
                ELSE IF packed THEN Sends(call[c], bits)
                ELSE Sends([call[c] EXCEPT !.exponent = exponent], coded)
<1>1. call[c].at \in Silent /\ call' = [call EXCEPT ![c] = w] /\ UNCHANGED events
  BY DEF Read, mockVars, Silent
<1>2. DOMAIN call[c] = Keys
  BY DEF WritingInv, WritingType
<1> HIDE DEF f, word, merged, exponent, refused, packed, bits, coded
<1>3. w.at \in Silent /\ DOMAIN w = Keys
  BY <1>2, SendsType DEF Keys, Silent
<1> HIDE DEF w
<1>4. QED BY <1>1, <1>3, SilentKeeps

\* A write request that is carried out is told of once, also when the callback raises.
LEMMA SendKeeps ==
  ASSUME WritingInv, NEW c \in Calls, Send(c)
  PROVE  WritingInv'
<1>1. call[c].at = Sending /\ DOMAIN call[c] = Keys /\ Told(c) = {}
  BY StagesDiffer DEF Send, WritingInv, WritingType, Reported, Silent
<1>2. CASE UNCHANGED mockVars /\ call' = [call EXCEPT ![c].at = Failed]
  <2>1. DEFINE w == [call[c] EXCEPT !.at = Failed]
  <2>2. call' = [call EXCEPT ![c] = w] /\ UNCHANGED events
    BY <1>2 DEF mockVars
  <2>3. w.at \in Silent /\ DOMAIN w = Keys /\ call[c].at \in Silent
    BY <1>1 DEF Keys, Silent
  <2> HIDE DEF w
  <2>4. QED BY <2>2, <2>3, SilentKeeps
<1>3. ASSUME NEW o \in {Written, Unheard}, call' = [call EXCEPT ![c].at = o],
             Write(c, call[c].field.space, call[c].field.at, call[c].words)
      PROVE  WritingInv'
  <2>1. DEFINE w == [call[c] EXCEPT !.at = o]
               e == EventOf(c, w)
  <2>2. call' = [call EXCEPT ![c] = w] /\ DOMAIN w = Keys /\ w.at = o
    BY <1>1, <1>3 DEF Keys
  <2>3. events' = Append(events, e) /\ e.by = c
    BY <1>1, <1>3 DEF Write, EventOf, Keys
  <2> HIDE DEF w, e
  <2>4. WritingType'
    BY <2>2, <2>3, Logged DEF WritingInv, WritingType
  <2>5. Told(c)' = {Len(events) + 1} /\ events'[Len(events) + 1] = e
    BY <1>1, <2>3, Logged DEF WritingInv, WritingType, Told
  <2>6. ASSUME NEW d \in Calls PROVE Reported(d, call[d])'
    <3>1. CASE d = c
      <4>1. call'[c] = w
        BY <2>2 DEF WritingInv, WritingType
      <4>2. EventOf(c, call[c])' = e
        BY <4>1 DEF e, EventOf
      <4>3. QED BY <2>2, <2>5, <3>1, <4>1, <4>2 DEF Reported
    <3>2. CASE d # c
      <4>1. call'[d] = call[d]
        BY <2>2, <3>2 DEF WritingInv, WritingType
      <4>2. Told(d)' = Told(d) /\ \A i \in Told(d) : events'[i] = events[i]
        BY <2>3, <3>2, ToldStays DEF WritingInv
      <4>3. QED BY <4>1, <4>2 DEF WritingInv, Reported, EventOf
    <3>3. QED BY <3>1, <3>2
  <2>7. QED BY <2>4, <2>6 DEF WritingInv
<1>4. QED BY <1>2, <1>3 DEF Send

\* Others at work, and failures that come and go, tell of no call.
LEMMA OthersKeep ==
  ASSUME WritingInv, UNCHANGED call,
         UNCHANGED events \/ \E e : events' = Append(events, e) /\ e.by = Anyone
  PROVE  WritingInv'
<1>1. CASE UNCHANGED events
  BY <1>1 DEF WritingInv, WritingType, Reported, Told, EventOf
<1>2. CASE \E e : events' = Append(events, e) /\ e.by = Anyone
  <2>1. PICK e : events' = Append(events, e) /\ e.by = Anyone
    BY <1>2
  <2>2. WritingType'
    BY <2>1, Logged DEF WritingInv, WritingType
  <2>3. ASSUME NEW d \in Calls PROVE Reported(d, call[d])'
    <3>1. Told(d)' = Told(d) /\ \A i \in Told(d) : events'[i] = events[i]
      BY <2>1, ToldStays, WritingAssumption DEF WritingInv
    <3>2. QED BY <3>1 DEF WritingInv, Reported, EventOf
  <2>4. QED BY <2>2, <2>3 DEF WritingInv
<1>3. QED BY <1>1, <1>2

LEMMA NextWritingInv == WritingInv /\ [Next]_vars => WritingInv'
<1> SUFFICES ASSUME WritingInv, [Next]_vars PROVE WritingInv'
  OBVIOUS
<1>1. ASSUME NEW c \in Calls,
             \/ \E ask \in Asks(c) : Ask(c, ask[1], ask[2])
             \/ Read(c) \/ Send(c)
      PROVE  WritingInv'
  BY <1>1, AskKeeps, ReadKeeps, SendKeeps
<1>2. ASSUME NEW x, Other(x) PROVE WritingInv'
  BY <1>2, OthersKeep DEF Other, Reseed, MaskWriteRegister, Write
<1>3. ASSUME NEW failures, Rearm(failures) PROVE WritingInv'
  BY <1>3, OthersKeep DEF Rearm, Arm
<1>4. CASE UNCHANGED vars
  BY <1>4, OthersKeep DEF vars, mockVars
<1>5. QED BY <1>1, <1>2, <1>3, <1>4 DEF Next

\* Callbacks hear of a write once, of the words it sent, whether it returned or an
\* on_write callback made it look like a failure; of one that raised before it reached
\* the device, or that the device refused, they hear nothing.
THEOREM CallbacksHearOnce == Spec => []WritesAreReportedOnce
<1>1. WritingInv => WritesAreReportedOnce
  BY DEF WritingInv, Reported, Told, EventOf, WritesAreReportedOnce
<1>2. QED BY <1>1, InitWritingInv, NextWritingInv, PTL DEF Spec

-----------------------------------------------------------------------------
(* Numbers.                                                                *)

LEMMA LeastNatural ==
  ASSUME NEW T, T \subseteq Nat, T # {}
  PROVE  \E m \in T : \A n \in T : m <= n
<1> DEFINE Below == OpToRel(<, Nat)
<1>1. IsWellFoundedOn(Below, Nat)
  BY NatLessThanWellFounded, Zenon
<1>2. \A m, n \in Nat : n < m => <<n, m>> \in Below
  BY Zenon DEF OpToRel
<1> HIDE DEF Below
<1>3. PICK m \in T : \A n \in T : ~ (<<n, m>> \in Below)
  BY <1>1, WFMin, Zenon
<1>4. \A n \in T : m \in Nat /\ n \in Nat /\ ~ (n < m)
  BY <1>2, <1>3
<1>5. QED BY <1>4

LEMMA FromZero ==
  ASSUME NEW n \in Nat, NEW T, T \subseteq Nat, 0 \in T,
         \A i \in 0 .. n - 1 : i \in T => i + 1 \in T
  PROVE  0 .. n \subseteq T
<1> DEFINE F == (0 .. n) \ T
<1> SUFFICES ASSUME F # {} PROVE FALSE
  OBVIOUS
<1>1. F \subseteq Nat
  OBVIOUS
<1>2. PICK m \in F : \A i \in F : m <= i
  <2> HIDE DEF F
  <2>1. QED BY <1>1, LeastNatural
<1>3. m \in 0 .. n /\ m # 0 /\ m - 1 \notin F
  BY <1>2
<1>4. m - 1 \in T
  BY <1>3
<1>5. QED BY <1>2, <1>3, <1>4

LEMMA LastOne ==
  ASSUME NEW n \in Nat, NEW hits \in SUBSET (1 .. n), hits # {}
  PROVE  Max(hits) \in hits
<1> DEFINE T == {n - i : i \in hits}
<1>1. T \subseteq Nat /\ T # {}
  <2>1. \A i \in hits : n - i \in Nat
    <3>1. \A i \in 1 .. n : n - i \in Nat
      OBVIOUS
    <3>2. QED BY <3>1
  <2>2. QED BY <2>1
<1>2. PICK m \in T : \A k \in T : m <= k
  <2> HIDE DEF T
  <2>1. QED BY <1>1, LeastNatural
<1>3. PICK x \in hits : m = n - x
  BY <1>2
<1>4. \A y \in hits : y <= x
  <2>1. \A y \in hits : n - x <= n - y
    BY <1>2, <1>3
  <2>2. \A y \in 1 .. n : \A z \in 1 .. n : n - z <= n - y => y <= z
    OBVIOUS
  <2>3. QED BY <2>1, <2>2
<1>5. \E y \in hits : \A z \in hits : z <= y
  BY <1>4
<1>6. Max(hits) = CHOOSE y \in hits : \A z \in hits : y >= z
  BY DEF Max
<1>7. QED BY <1>5, <1>6

-----------------------------------------------------------------------------
(* The store of the mock.                                                  *)

\* A store is a sequence of entries, each of some words from its base on.
IsStore(store) ==
  /\ \E S : store \in Seq(S)
  /\ \A i \in DOMAIN store : store[i].base \in Nat /\ Len(store[i].words) \in Nat

\* No entry that is based in own reaches b.
Shows(store, own, b) ==
  \A i \in DOMAIN store : store[i].base \in own => b \notin Covers(store[i])

Hits(store, b) == {i \in DOMAIN store : b - store[i].base \in 0 .. Len(store[i].words) - 1}

LEMMA SameHits ==
  ASSUME NEW store, IsStore(store), NEW new, NEW b,
         Hits(new, b) = Hits(store, b), \A i \in Hits(store, b) : new[i] = store[i]
  PROVE  Word(new, b) = Word(store, b)
<1> DEFINE hits == Hits(store, b)
<1>1. PICK n \in Nat : DOMAIN store = 1 .. n
  BY DEF IsStore
<1>2. hits \in SUBSET (1 .. n)
  BY <1>1 DEF Hits
<1>3. Word(store, b) = (IF hits = {} THEN 0 ELSE store[Max(hits)].words[b - store[Max(hits)].base + 1])
  BY DEF Word, Hits
<1>4. Word(new, b) = (IF hits = {} THEN 0 ELSE new[Max(hits)].words[b - new[Max(hits)].base + 1])
  BY DEF Word, Hits
<1> HIDE DEF hits
<1>5. hits # {} => Max(hits) \in hits
  BY <1>2, LastOne
<1>6. QED BY <1>3, <1>4, <1>5 DEF hits

\* What a store's setting leaves: a store, in which every address but the one set shows
\* what it did, if no list based there reached it.
LEMMA PutKeeps ==
  ASSUME NEW store, IsStore(store), NEW a \in Nat, NEW words, Len(words) \in Nat
  PROVE  IsStore(Put(store, a, words))
<1> DEFINE new == Put(store, a, words)
           entry == [base |-> a, words |-> words]
<1>1. PICK S : store \in Seq(S)
  BY DEF IsStore
<1>2. CASE \E i \in DOMAIN store : store[i].base = a
  <2> DEFINE Put1(i) == IF store[i].base = a THEN [store[i] EXCEPT !.words = words] ELSE store[i]
             T == {Put1(i) : i \in DOMAIN store}
  <2>1. new = [i \in DOMAIN store |-> Put1(i)]
    BY <1>2 DEF Put
  <2>2. \A i \in DOMAIN store : Put1(i).base = store[i].base
                             /\ Put1(i).words \in {words, store[i].words}
    OBVIOUS
  <2>3. \A i \in DOMAIN store : Put1(i) \in T
    OBVIOUS
  <2> HIDE DEF Put1, T, new
  <2>4. new \in Seq(T)
    BY <1>1, <2>1, <2>3
  <2>5. \A i \in DOMAIN new : new[i].base \in Nat /\ Len(new[i].words) \in Nat
    BY <2>1, <2>2 DEF IsStore
  <2>6. QED BY <2>4, <2>5 DEF IsStore, new
<1>3. CASE ~\E i \in DOMAIN store : store[i].base = a
  <2>1. new = Append(store, entry)
    BY <1>3 DEF Put
  <2>2. store \in Seq(S \cup {entry}) /\ entry \in S \cup {entry}
    BY <1>1
  <2>3. entry.base \in Nat /\ Len(entry.words) \in Nat
    OBVIOUS
  <2> HIDE DEF entry, new
  <2>4. new \in Seq(S \cup {entry})
    BY <2>1, <2>2
  <2>5. \A i \in DOMAIN new : new[i] = entry \/ (i \in DOMAIN store /\ new[i] = store[i])
    BY <2>1, <2>2
  <2>6. QED BY <2>3, <2>4, <2>5 DEF IsStore, new
<1>4. QED BY <1>2, <1>3

LEMMA PutShows ==
  ASSUME NEW store, IsStore(store), NEW a \in Nat, NEW word, NEW own, a \in own,
         NEW b \in Int, b # a, Shows(store, own, b)
  PROVE  /\ Shows(Put(store, a, <<word>>), own, b)
         /\ Word(Put(store, a, <<word>>), b) = Word(store, b)
<1> DEFINE new == Put(store, a, <<word>>)
           entry == [base |-> a, words |-> <<word>>]
<1>1. PICK S : store \in Seq(S)
  BY DEF IsStore
<1>2. /\ Len(<<word>>) = 1
      /\ \A e : e.base = a /\ e.words = <<word>> => b \notin Covers(e) /\ b - e.base \notin 0 .. Len(e.words) - 1
  <2>1. Len(<<word>>) = 1
    OBVIOUS
  <2>2. b \notin a .. a + 1 - 1 /\ b - a \notin 0 .. 1 - 1
    OBVIOUS
  <2>3. QED BY <2>1, <2>2, Zenon DEF Covers
<1>3. \A i \in DOMAIN store : store[i].base = a => b - store[i].base \notin 0 .. Len(store[i].words) - 1
  BY DEF Shows, Covers, IsStore
<1>4. CASE \E i \in DOMAIN store : store[i].base = a
  <2> DEFINE Put1(i) == IF store[i].base = a THEN [store[i] EXCEPT !.words = <<word>>] ELSE store[i]
  <2>1. new = [i \in DOMAIN store |-> Put1(i)]
    BY <1>4 DEF Put
  <2>2. \A i \in DOMAIN store : store[i].base # a => Put1(i) = store[i]
    OBVIOUS
  <2>3. ASSUME NEW i \in DOMAIN store, store[i].base = a
        PROVE  b \notin Covers(Put1(i)) /\ b - Put1(i).base \notin 0 .. Len(Put1(i).words) - 1
    <3>1. Put1(i).base = a
      BY <2>3
    <3>2. CASE Put1(i).words = <<word>>
      BY <1>2, <3>1, <3>2
    <3>3. CASE Put1(i).words = store[i].words
      BY <1>3, <2>3, <3>1, <3>3 DEF Shows, Covers
    <3>4. QED BY <3>2, <3>3
  <2> HIDE DEF Put1, new
  <2>4. Shows(new, own, b)
    BY <2>1, <2>2, <2>3 DEF Shows
  <2>5. Hits(new, b) = Hits(store, b)
    BY <1>3, <2>1, <2>2, <2>3 DEF Hits
  <2>6. \A i \in Hits(store, b) : new[i] = store[i]
    BY <1>3, <2>1, <2>2 DEF Hits
  <2>7. QED BY <2>4, <2>5, <2>6, SameHits DEF new
<1>5. CASE ~\E i \in DOMAIN store : store[i].base = a
  <2>1. new = Append(store, entry)
    BY <1>5 DEF Put
  <2>2. store \in Seq(S \cup {entry}) /\ entry \in S \cup {entry}
    BY <1>1
  <2>3. b \notin Covers(entry) /\ b - entry.base \notin 0 .. Len(entry.words) - 1
    BY <1>2
  <2> HIDE DEF entry, new
  <2>4. /\ DOMAIN new = DOMAIN store \cup {Len(store) + 1}
        /\ new[Len(store) + 1] = entry /\ Len(store) + 1 \notin DOMAIN store
        /\ \A i \in DOMAIN store : new[i] = store[i]
    BY <2>1, <2>2
  <2>5. Shows(new, own, b)
    BY <2>3, <2>4 DEF Shows
  <2>6. Hits(new, b) = Hits(store, b)
    BY <2>3, <2>4 DEF Hits
  <2>7. \A i \in Hits(store, b) : new[i] = store[i]
    BY <2>4 DEF Hits
  <2>8. QED BY <2>5, <2>6, <2>7, SameHits DEF new
<1>6. QED BY <1>4, <1>5

-----------------------------------------------------------------------------
(* Words set one by one.                                                   *)

Stores(store, a, words, stored) ==
  stored = [n \in 0 .. Len(words) |->
              IF n = 0 THEN store ELSE Put(stored[n - 1], a + n - 1, <<words[n]>>)]

LEMMA StoresExist ==
  ASSUME NEW store, NEW a, NEW words, Len(words) \in Nat
  PROVE  \E stored : Stores(store, a, words, stored)
<1> DEFINE N == Len(words)
           Onward(n, s) == Put(s, a + n - 1, <<words[n]>>)
           Sol(n, f) == f = [i \in 0 .. n |-> IF i = 0 THEN store ELSE Onward(i, f[i - 1])]
           T == {n \in Nat : \E f : Sol(n, f)}
<1> HIDE DEF Onward
<1>1. 0 \in T
  <2>1. Sol(0, [i \in 0 .. 0 |-> store])
    OBVIOUS
  <2>2. QED BY <2>1
<1>2. ASSUME NEW n \in 0 .. N - 1, n \in T PROVE n + 1 \in T
  <2>1. PICK f : Sol(n, f)
    BY <1>2
  <2> DEFINE longer == [i \in 0 .. n + 1 |-> IF i = n + 1 THEN Onward(n + 1, f[n]) ELSE f[i]]
  <2>2. \A i \in 0 .. n : longer[i] = f[i]
    OBVIOUS
  <2>3. \A i \in 0 .. n : f[i] = IF i = 0 THEN store ELSE Onward(i, f[i - 1])
    BY <2>1
  <2>4. ASSUME NEW i \in 0 .. n + 1
        PROVE  longer[i] = IF i = 0 THEN store ELSE Onward(i, longer[i - 1])
    <3>1. CASE i = n + 1
      BY <2>2, <3>1
    <3>2. CASE i # n + 1
      BY <2>2, <2>3, <3>2
    <3>3. QED BY <3>1, <3>2
  <2>5. longer = [i \in 0 .. n + 1 |-> longer[i]]
    OBVIOUS
  <2> HIDE DEF longer
  <2>6. Sol(n + 1, longer)
    BY <2>4, <2>5
  <2>7. QED BY <2>6
<1>3. T \subseteq Nat
  OBVIOUS
<1> HIDE DEF T
<1>4. 0 .. N \subseteq T
  BY <1>1, <1>2, <1>3, FromZero
<1>5. N \in T
  BY <1>4
<1>6. QED BY <1>5 DEF T, Stores, Onward

LEMMA PutEachKeeps ==
  ASSUME NEW store, IsStore(store), NEW a \in Nat, NEW words, Len(words) \in Nat
  PROVE  /\ IsStore(PutEach(store, a, words))
         /\ \A b \in Int : LET own == a .. a + Len(words) - 1 IN
              b \notin own /\ Shows(store, own, b) => Word(PutEach(store, a, words), b) = Word(store, b)
<1> DEFINE N == Len(words)
           own == a .. a + N - 1
           stored == CHOOSE f : Stores(store, a, words, f)
           Kept(s) == /\ IsStore(s)
                      /\ \A b \in Int : b \notin own /\ Shows(store, own, b) =>
                           Shows(s, own, b) /\ Word(s, b) = Word(store, b)
           T == {n \in 0 .. N : Kept(stored[n])}
<1>1. PutEach(store, a, words) = stored[N]
  BY DEF PutEach, Stores
<1>2. Stores(store, a, words, stored)
  BY StoresExist, Zenon
<1> HIDE DEF stored
<1>3. stored[0] = store /\ \A n \in 0 .. N - 1 : stored[n + 1] = Put(stored[n], a + n, <<words[n + 1]>>)
  <2>1. \A n \in 0 .. N : stored[n] = IF n = 0 THEN store ELSE Put(stored[n - 1], a + n - 1, <<words[n]>>)
    BY <1>2 DEF Stores
  <2>2. ASSUME NEW n \in 0 .. N - 1 PROVE stored[n + 1] = Put(stored[n], a + n, <<words[n + 1]>>)
    <3>1. n + 1 \in 0 .. N /\ n + 1 # 0 /\ (n + 1) - 1 = n /\ a + (n + 1) - 1 = a + n
      OBVIOUS
    <3>2. QED BY <2>1, <3>1
  <2>3. stored[0] = store
    <3>1. 0 \in 0 .. N
      OBVIOUS
    <3>2. QED BY <2>1, <3>1
  <2>4. QED BY <2>2, <2>3
<1>4. 0 \in T
  BY <1>3
<1>5. ASSUME NEW n \in 0 .. N - 1, n \in T PROVE n + 1 \in T
  <2> DEFINE s == stored[n]
             word == words[n + 1]
             at == a + n
  <2>1. Kept(s) /\ stored[n + 1] = Put(s, at, <<word>>)
    BY <1>3, <1>5
  <2>2. at \in Nat /\ at \in own /\ Len(<<word>>) \in Nat /\ n + 1 \in 0 .. N
    OBVIOUS
  <2> HIDE DEF s, word, at, own
  <2>3. IsStore(Put(s, at, <<word>>))
    BY <2>1, <2>2, PutKeeps
  <2>4. ASSUME NEW b \in Int, b \notin own, Shows(store, own, b)
        PROVE  Shows(Put(s, at, <<word>>), own, b) /\ Word(Put(s, at, <<word>>), b) = Word(store, b)
    BY <2>1, <2>2, <2>4, PutShows
  <2>5. QED BY <2>1, <2>2, <2>3, <2>4
<1>6. T \subseteq Nat
  OBVIOUS
<1>7. N \in T
  <2> HIDE DEF T
  <2>1. 0 .. N \subseteq T
    BY <1>4, <1>5, <1>6, FromZero
  <2>2. QED BY <2>1
<1>8. QED BY <1>1, <1>7

-----------------------------------------------------------------------------
(* The words that a write sends.                                           *)

\* A field's encoding fills its registers.
LEMMA EncodeFills ==
  ASSUME NEW f, IsField(f), f.kind \in {"number", "raw", "string", "coil"},
         NEW value, NEW exponent, Encode(f, value, exponent) # Invalid
  PROVE  Len(Encode(f, value, exponent)) = f.count
<1>1. f.count \in Nat /\ (f.kind = "coil" => f.count = 1)
  BY DEF IsField
<1>2. ASSUME NEW words, words \in [1 .. f.count -> {words[i] : i \in 1 .. f.count}], NEW order
      PROVE  Len(InOrder(words, order)) = f.count
  <2>1. Len(words) = f.count
    BY <1>1, <1>2
  <2>2. Len(Reverse(words)) = f.count
    BY <1>1, <2>1 DEF Reverse
  <2>3. QED BY <2>1, <2>2 DEF InOrder
<1>3. ASSUME NEW raw, NEW order PROVE Len(SplitWords(raw, f.count, order)) = f.count
  <2> DEFINE words == [i \in 1 .. f.count |-> (raw \div 2 ^ (WordBits * (f.count - i))) % 2 ^ WordBits]
  <2>1. words \in [1 .. f.count -> {words[i] : i \in 1 .. f.count}]
    OBVIOUS
  <2>2. SplitWords(raw, f.count, order) = InOrder(words, order)
    BY DEF SplitWords
  <2> HIDE DEF words
  <2>3. QED BY <1>2, <2>1, <2>2
<1>4. ASSUME NEW raw, EncodeInt(raw, f.count, f.order) # Invalid
      PROVE  Len(EncodeInt(raw, f.count, f.order)) = f.count
  <2>1. EncodeInt(raw, f.count, f.order) = SplitWords(raw % 2 ^ (WordBits * f.count), f.count, f.order)
    BY <1>4, Zenon DEF EncodeInt
  <2>2. QED BY <1>3, <2>1
<1>5. CASE f.kind = "number"
  <2>1. Encode(f, value, exponent) = EncodeNumber(f, value, exponent)
    BY <1>5 DEF Encode
  <2>2. Factor(f, exponent) # Invalid
    BY <2>1 DEF EncodeNumber
  <2>3. EncodeNumber(f, value, exponent) = EncodeInt(Unscale(f, value, Factor(f, exponent)), f.count, f.order)
    BY <2>2 DEF EncodeNumber
  <2>4. QED BY <1>4, <2>1, <2>3
<1>6. CASE f.kind = "raw"
  <2>1. Encode(f, value, exponent) = EncodeInt(Whole(value), f.count, f.order)
    BY <1>6 DEF Encode
  <2>2. QED BY <1>4, <2>1
<1>7. CASE f.kind = "string"
  <2> DEFINE At(i) == IF i <= Len(Plain(value)) THEN Plain(value)[i] ELSE 0
             words == [i \in 1 .. f.count |-> At(2 * i - 1) * Char + At(2 * i)]
  <2>1. Encode(f, value, exponent) = words
    BY <1>7 DEF Encode, EncodeString
  <2> HIDE DEF At
  <2>2. Len(words) = f.count
    BY <1>1
  <2>3. QED BY <2>1, <2>2
<1>8. CASE f.kind = "coil"
  <2>1. Encode(f, value, exponent) = EncodeBit(value)
    BY <1>8 DEF Encode
  <2>2. QED BY <1>1, <1>8, <2>1 DEF EncodeBit
<1>9. QED BY <1>5, <1>6, <1>7, <1>8

\* A call that has passed the checks has a field that can be written, and what it sends
\* takes up that field's registers.
CallFits(w) ==
  /\ w.at \in {Reading, Sending} => IsField(w.field) /\ w.field.space \in {"holding", "coil"}
  /\ w.at = Sending => Len(w.words) = w.field.count

StoresInv == IsStore(holding) /\ IsStore(coil)

FitInv == StoresInv /\ \A c \in Calls : CallFits(call[c])

LEMMA SendsFits ==
  ASSUME NEW w, DOMAIN w = Keys, IsField(w.field), w.field.space \in {"holding", "coil"},
         NEW words, words = Invalid \/ Len(words) = w.field.count
  PROVE  CallFits(Sends(w, words))
<1> DEFINE r == Sends(w, words)
<1>1. r.field = w.field
  BY DEF Sends, Keys
<1>2. words = Invalid => r.at = Rejected
  BY DEF Sends, Keys
<1>3. words # Invalid => r.words = words
  BY DEF Sends, Keys
<1> HIDE DEF r
<1>4. CallFits(r)
  BY <1>1, <1>2, <1>3 DEF CallFits, Rejected, Reading, Sending
<1>5. QED BY <1>4 DEF r

LEMMA InitFit == Init => FitInv
<1> SUFFICES ASSUME Init PROVE FitInv
  OBVIOUS
<1>1. holding \in Seq(Entries) /\ coil \in Seq(Entries) /\ call = [c \in Calls |-> New]
  BY WritingAssumption DEF Init, MockInit
<1>2. ASSUME NEW store \in Seq(Entries) PROVE IsStore(store)
  <2>1. \E S : store \in Seq(S)
    OBVIOUS
  <2>2. \A i \in DOMAIN store : store[i] \in Entries
    OBVIOUS
  <2>3. \A e \in Entries : e.base \in Nat /\ Len(e.words) \in Nat
    BY DEF Entries
  <2>4. QED BY <2>1, <2>2, <2>3 DEF IsStore
<1>3. CallFits(New)
  BY DEF CallFits, New, Ready, Reading, Sending
<1>4. QED BY <1>1, <1>2, <1>3 DEF FitInv, StoresInv

LEMMA CallMoves ==
  ASSUME WritingType, FitInv, StoresInv', NEW c \in Calls, NEW w, call' = [call EXCEPT ![c] = w], CallFits(w)
  PROVE  FitInv'
<1>1. \A d \in Calls : call'[d] = IF d = c THEN w ELSE call[d]
  BY DEF WritingType
<1>2. QED BY <1>1 DEF FitInv, CallFits

LEMMA AskFits ==
  ASSUME WritingInv, FitInv, NEW c \in Calls, NEW ask \in Asks(c), Ask(c, ask[1], ask[2])
  PROVE  FitInv'
<1> DEFINE f == FieldAt(ask[1])
           vetted == IF f = None THEN Invalid ELSE Vetted(f, ask[2])
           asked == [New EXCEPT !.field = f, !.value = vetted]
           words == Encode(f, vetted, None)
           w == IF vetted = Invalid THEN [asked EXCEPT !.at = Rejected]
                ELSE IF ReadFirst(f) # None THEN [asked EXCEPT !.at = Reading]
                ELSE Sends(asked, words)
<1>1. DOMAIN asked = Keys /\ asked.field = f
  BY DEF New, Keys
<1>2. call' = [call EXCEPT ![c] = w] /\ UNCHANGED <<holding, coil>>
  BY DEF Ask, mockVars
<1>3. vetted # Invalid => IsField(f) /\ f.space \in {"holding", "coil"}
  BY WritingAssumption DEF Vetted
<1> HIDE DEF asked, vetted, f, words
<1>4. CASE vetted = Invalid
  <2>1. w.at = Rejected
    BY <1>1, <1>4 DEF Keys
  <2>2. CallFits(w)
    BY <2>1 DEF CallFits, Rejected, Reading, Sending
  <2> HIDE DEF w
  <2>3. QED BY <1>2, <2>2, CallMoves DEF WritingInv, FitInv, StoresInv, IsStore
<1>5. CASE vetted # Invalid /\ ReadFirst(f) # None
  <2>1. w.at = Reading /\ w.field = f
    BY <1>1, <1>5 DEF Keys
  <2>2. CallFits(w)
    BY <1>3, <1>5, <2>1 DEF CallFits, Reading, Sending
  <2> HIDE DEF w
  <2>3. QED BY <1>2, <2>2, CallMoves DEF WritingInv, FitInv, StoresInv, IsStore
<1>6. CASE vetted # Invalid /\ ReadFirst(f) = None
  <2>1. w = Sends(asked, words)
    BY <1>6
  <2>2. f.kind \in {"number", "raw", "string", "coil"}
    BY <1>3, <1>6, WritingAssumption DEF IsField, ReadFirst
  <2>3. words = Invalid \/ Len(words) = f.count
    BY <1>3, <1>6, <2>2, EncodeFills DEF words
  <2>4. CallFits(w)
    BY <1>1, <1>3, <1>6, <2>1, <2>3, SendsFits
  <2> HIDE DEF w
  <2>5. QED BY <1>2, <2>4, CallMoves DEF WritingInv, FitInv, StoresInv, IsStore
<1>7. QED BY <1>4, <1>5, <1>6

LEMMA ReadFits ==
  ASSUME WritingInv, FitInv, NEW c \in Calls, Read(c)
  PROVE  FitInv'
<1> DEFINE f == call[c].field
           word == Word(holding, ReadFirst(f))
           merged == Merge(f, word, call[c].value)
           exponent == Signed(word, WordBits)
           refused == Refused("read", "holding", ReadFirst(f), 1)
           packed == f.kind \in {"bit", "bits"}
           bits == IF merged = Invalid THEN Invalid ELSE <<merged>>
           coded == Encode(f, call[c].value, exponent)
           scaled == [call[c] EXCEPT !.exponent = exponent]
           w == IF refused THEN [call[c] EXCEPT !.at = Failed]
                ELSE IF packed THEN Sends(call[c], bits)
                ELSE Sends(scaled, coded)
<1>1. call[c].at = Reading /\ call' = [call EXCEPT ![c] = w] /\ UNCHANGED <<holding, coil>>
  BY DEF Read, mockVars
<1>2. DOMAIN call[c] = Keys /\ DOMAIN scaled = Keys /\ scaled.field = f
  BY DEF WritingInv, WritingType, Keys
<1>3. IsField(f) /\ f.space \in {"holding", "coil"}
  BY <1>1 DEF FitInv, CallFits
<1>4. bits = Invalid \/ Len(bits) = 1
  OBVIOUS
<1>5. ~packed => coded = Invalid \/ Len(coded) = f.count
  <2>1. ~packed => f.kind \in {"number", "raw", "string", "coil"}
    BY <1>3 DEF IsField
  <2> HIDE DEF f
  <2>2. QED BY <1>3, <2>1, EncodeFills
<1>6. packed => f.count = 1
  BY <1>3 DEF IsField
<1>7. CallFits(w)
  <2>1. CASE refused
    <3>1. w.at = Failed
      BY <1>2, <2>1 DEF Keys
    <3>2. QED BY <3>1 DEF CallFits, Failed, Reading, Sending
  <2>2. CASE ~refused /\ packed
    <3> HIDE DEF bits
    <3>1. w = Sends(call[c], bits)
      BY <2>2
    <3>2. QED BY <1>2, <1>3, <1>4, <1>6, <2>2, <3>1, SendsFits
  <2>3. CASE ~refused /\ ~packed
    <3> HIDE DEF coded, scaled
    <3>1. w = Sends(scaled, coded)
      BY <2>3
    <3>2. QED BY <1>2, <1>3, <1>5, <2>3, <3>1, SendsFits
  <2>4. QED BY <2>1, <2>2, <2>3
<1> HIDE DEF w
<1>8. QED BY <1>1, <1>7, CallMoves DEF WritingInv, FitInv, StoresInv, IsStore

\* A write of a store that holds leaves stores.
LEMMA WriteKeepsStores ==
  ASSUME StoresInv, NEW by, NEW space, NEW a \in Nat, NEW words, Len(words) \in Nat,
         Write(by, space, a, words)
  PROVE  StoresInv'
<1>1. IsStore(PutEach(holding, a, words)) /\ IsStore(PutEach(coil, a, words))
  BY PutEachKeeps DEF StoresInv
<1>2. holding' \in {holding, PutEach(holding, a, words)} /\ coil' \in {coil, PutEach(coil, a, words)}
  BY DEF Write
<1>3. IsStore(holding') /\ IsStore(coil')
  BY <1>1, <1>2 DEF StoresInv
<1>4. QED BY <1>3 DEF StoresInv, IsStore

LEMMA SendFits ==
  ASSUME WritingInv, FitInv, NEW c \in Calls, Send(c)
  PROVE  FitInv'
<1> DEFINE f == call[c].field
<1>1. /\ call[c].at = Sending /\ IsField(f) /\ DOMAIN call[c] = Keys
      /\ Len(call[c].words) = f.count /\ f.count \in Nat /\ f.at \in Nat
  BY DEF Send, FitInv, CallFits, IsField, WritingInv, WritingType
<1>2. PICK o \in {Written, Unheard, Failed} : call' = [call EXCEPT ![c].at = o]
  BY DEF Send
<1> DEFINE w == [call[c] EXCEPT !.at = o]
<1>3. call' = [call EXCEPT ![c] = w]
  BY <1>2
<1>4. CallFits(w)
  <2>1. w.at = o
    BY <1>1 DEF Keys
  <2>2. QED BY <2>1 DEF CallFits, Written, Unheard, Failed, Reading, Sending
<1>5. StoresInv'
  <2>1. CASE UNCHANGED mockVars
    BY <2>1 DEF mockVars, FitInv, StoresInv, IsStore
  <2>2. CASE Write(c, f.space, f.at, call[c].words)
    BY <1>1, <2>2, WriteKeepsStores DEF FitInv
  <2>3. QED BY <2>1, <2>2 DEF Send
<1> HIDE DEF w
<1>6. QED BY <1>3, <1>4, <1>5, CallMoves DEF WritingInv

LEMMA OtherFits ==
  ASSUME WritingInv, FitInv, NEW x \in Changes, Other(x)
  PROVE  FitInv'
<1>1. x.at \in Nat /\ x.words \in Seq(Int) /\ Len(x.words) \in Nat
  BY WritingAssumption
<1>2. StoresInv'
  <2>1. CASE Reseed(x.at, x.words)
    <3>1. IsStore(Put(holding, x.at, x.words))
      BY <1>1, PutKeeps DEF FitInv, StoresInv
    <3>2. IsStore(holding') /\ coil' = coil
      BY <2>1, <3>1 DEF Reseed
    <3>3. QED BY <3>2 DEF FitInv, StoresInv, IsStore
  <2>2. CASE MaskWriteRegister(x.at, x.words[1], x.words[2])
    <3> DEFINE word == Masked(Word(holding, x.at), x.words[1], x.words[2])
    <3>1. Write(Anyone, "holding", x.at, <<word>>)
      BY <2>2 DEF MaskWriteRegister
    <3> HIDE DEF word
    <3>2. Len(<<word>>) \in Nat
      OBVIOUS
    <3>3. QED BY <1>1, <3>1, <3>2, WriteKeepsStores DEF FitInv
  <2>3. QED BY <2>1, <2>2 DEF Other
<1>3. QED BY <1>2 DEF Other, FitInv, CallFits

LEMMA NextFits == WritingInv /\ FitInv /\ [Next]_vars => FitInv'
<1> SUFFICES ASSUME WritingInv, FitInv, [Next]_vars PROVE FitInv'
  OBVIOUS
<1>1. ASSUME NEW c \in Calls,
             \/ \E ask \in Asks(c) : Ask(c, ask[1], ask[2])
             \/ Read(c) \/ Send(c)
      PROVE  FitInv'
  BY <1>1, AskFits, ReadFits, SendFits
<1>2. ASSUME NEW x \in Changes, Other(x) PROVE FitInv'
  BY <1>2, OtherFits
<1>3. ASSUME NEW failures, Rearm(failures) PROVE FitInv'
  BY <1>3 DEF Rearm, Arm, FitInv, StoresInv, IsStore, CallFits
<1>4. CASE UNCHANGED vars
  BY <1>4 DEF vars, mockVars, FitInv, StoresInv, IsStore, CallFits
<1>5. QED BY <1>1, <1>2, <1>3, <1>4 DEF Next

-----------------------------------------------------------------------------
(* What a write leaves alone.                                              *)

LEMMA StoreTouched ==
  ASSUME NEW store, IsStore(store), NEW a \in Nat, NEW words, Len(words) \in Nat
  PROVE  Touched(store, PutEach(store, a, words)) \subseteq Replaced(store, a .. a + Len(words) - 1)
<1> DEFINE own == a .. a + Len(words) - 1
           new == PutEach(store, a, words)
<1>1. IsStore(new) /\ \A b \in Int : b \notin own /\ Shows(store, own, b) => Word(new, b) = Word(store, b)
  BY PutEachKeeps
<1> HIDE DEF own, new
<1>2. ASSUME NEW b \in Touched(store, new) PROVE b \in Replaced(store, own)
  <2>1. b \in Int
    BY <1>1 DEF Touched, Reach, Covers, IsStore
  <2>2. Word(new, b) # Word(store, b)
    BY DEF Touched
  <2>3. b \in own \/ ~Shows(store, own, b)
    BY <1>1, <2>1, <2>2
  <2>4. QED BY <2>3 DEF Shows, Replaced
<1>3. QED BY <1>2 DEF own, new

\* NothingElseIsWritten: a step of a write() changes no register and no coil but those
\* of the field, and what a list based at one of them has behind its first word.
THEOREM WritesStayInside == Spec => NothingElseIsWritten
<1> DEFINE Own(c, space) == IF call[c].at # Sending \/ call[c].field.space # space THEN {}
                            ELSE call[c].field.at .. call[c].field.at + call[c].field.count - 1
           Inside(c) == call'[c] # call[c] =>
             /\ Touched(holding, holding') \subseteq Replaced(holding, Own(c, "holding"))
             /\ Touched(coil, coil') \subseteq Replaced(coil, Own(c, "coil"))
<1>1. WritingInv /\ FitInv /\ [Next]_vars => [\A c \in Calls : Inside(c)]_vars
  <2> SUFFICES ASSUME WritingInv, FitInv, Next, NEW c \in Calls, call'[c] # call[c] PROVE Inside(c)
    OBVIOUS
  <2>1. PICK d \in Calls : (\E ask \in Asks(d) : Ask(d, ask[1], ask[2])) \/ Read(d) \/ Send(d)
    BY DEF Next, Other, Rearm
  <2>2. CASE UNCHANGED <<holding, coil>>
    BY <2>2 DEF Touched
  <2>3. CASE Send(d) /\ Write(d, call[d].field.space, call[d].field.at, call[d].words)
    <3> DEFINE f == call[d].field
    <3>1. d = c
      BY <2>3 DEF Send, WritingInv, WritingType
    <3>2. /\ call[d].at = Sending /\ f.at \in Nat /\ f.count \in Nat
          /\ Len(call[d].words) = f.count
      BY <2>3 DEF Send, FitInv, CallFits, IsField
    <3>3. Own(c, f.space) = f.at .. f.at + Len(call[d].words) - 1
      BY <3>1, <3>2
    <3>4. /\ Touched(holding, PutEach(holding, f.at, call[d].words)) \subseteq
               Replaced(holding, f.at .. f.at + Len(call[d].words) - 1)
          /\ Touched(coil, PutEach(coil, f.at, call[d].words)) \subseteq
               Replaced(coil, f.at .. f.at + Len(call[d].words) - 1)
      BY <3>2, StoreTouched DEF FitInv, StoresInv
    <3>5. \A s : Touched(s, s) = {}
      BY DEF Touched
    <3>6. /\ holding' = IF f.space = "holding" THEN PutEach(holding, f.at, call[d].words) ELSE holding
          /\ coil' = IF f.space = "coil" THEN PutEach(coil, f.at, call[d].words) ELSE coil
      BY <2>3 DEF Write
    <3> HIDE DEF f, Own
    <3>7. Touched(holding, holding') \subseteq Replaced(holding, Own(c, "holding"))
      BY <3>3, <3>4, <3>5, <3>6
    <3>8. Touched(coil, coil') \subseteq Replaced(coil, Own(c, "coil"))
      BY <3>3, <3>4, <3>5, <3>6
    <3>9. QED BY <3>7, <3>8
  <2>4. QED BY <2>1, <2>2, <2>3 DEF Ask, Read, Send, mockVars
<1>2. QED BY <1>1, InitWritingInv, NextWritingInv, InitFit, NextFits, PTL DEF Spec, NothingElseIsWritten
=============================================================================
