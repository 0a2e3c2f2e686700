-------------------------------- MODULE Mock --------------------------------
(***************************************************************************)
(* The in-memory unit that ships for tests: mock.py.  A store maps a base   *)
(* address to a specification, the word there or a list of words from there *)
(* on, in the order in which the bases were first set.  A callable          *)
(* specification is one that changes from read to read (Reseed).  The link  *)
(* under the unit is the subject of Connection: here the connection is up.  *)
(***************************************************************************)
EXTENDS Fields

CONSTANTS
  Anyone,        \* a request that is not part of a write() call
  HoldingSeeds,  \* the holding registers a test may set up
  CoilSeeds,     \* the coils a test may set up
  Faults         \* what a test may arm: sets of [op, space, at], op "all" for every request

VARIABLES
  holding,  \* the two writable stores: sequences of [base, words]
  coil,
  armed,    \* the failures armed
  events    \* the WriteEvents fired: [by, space, at, words]

mockVars == <<holding, coil, armed, events>>

-----------------------------------------------------------------------------
\* A later specification hides an earlier one where they overlap; an address that
\* no specification reaches reads as 0.
Word(store, a) ==
  LET hits == {i \in DOMAIN store : a - store[i].base \in 0 .. Len(store[i].words) - 1}
      hit == store[Max(hits)]
  IN IF hits = {} THEN 0 ELSE hit.words[a - hit.base + 1]

Words(store, a, count) == [i \in 1 .. count |-> Word(store, a + i - 1)]

\* Set words at a base, by load_raw() or by assigning to the store.  A base that is set
\* again keeps its place in the order, and what a list had behind its first word is gone.
Put(store, a, words) ==
  IF \E i \in DOMAIN store : store[i].base = a
  THEN [i \in DOMAIN store |->
          IF store[i].base = a THEN [store[i] EXCEPT !.words = words] ELSE store[i]]
  ELSE Append(store, [base |-> a, words |-> words])

\* Mutant: the words go one register too far.
PutEachOneOn(store, a, words) ==
  LET stored[n \in 0 .. Len(words)] ==
        IF n = 0 THEN store ELSE Put(stored[n - 1], a + n, <<words[n]>>)
  IN stored[Len(words)]

\* Writing sets the words one by one.
PutEach(store, a, words) ==
  LET stored[n \in 0 .. Len(words)] ==
        IF n = 0 THEN store ELSE Put(stored[n - 1], a + n - 1, <<words[n]>>)
  IN stored[Len(words)]

Refused(op, space, a, count) ==
  \E f \in armed : \/ f.op = "all"
                   \/ f.op = op /\ f.space = space /\ f.at \in a .. a + count - 1

MockInit ==
  /\ holding \in HoldingSeeds /\ coil \in CoilSeeds
  /\ armed \in Faults
  /\ events = <<>>

\* Mutant: a request is refused for its first register only, and told of before that.
WriteTellingFirst(by, space, a, words) ==
  /\ events' = Append(events, [by |-> by, space |-> space, at |-> a, words |-> <<words[1]>>])
  /\ holding' = IF space = "holding" THEN PutEach(holding, a, words) ELSE holding
  /\ coil' = IF space = "coil" THEN PutEach(coil, a, words) ELSE coil
  /\ UNCHANGED armed

\* Every kind of write: nothing is stored unless all of it is accepted, and one event
\* tells of what was.
Write(by, space, a, words) ==
  /\ ~Refused("write", space, a, Len(words))
  /\ holding' = IF space = "holding" THEN PutEach(holding, a, words) ELSE holding
  /\ coil' = IF space = "coil" THEN PutEach(coil, a, words) ELSE coil
  /\ events' = Append(events, [by |-> by, space |-> space, at |-> a, words |-> words])
  /\ UNCHANGED armed

\* (current & and_mask) | (or_mask & ~and_mask)
BitOf(word, i) == (word \div 2 ^ i) % 2
Masked(word, andMask, orMask) ==
  MapThenSumSet(
    LAMBDA i : 2 ^ i * (IF BitOf(andMask, i) = 1 THEN BitOf(word, i) ELSE BitOf(orMask, i)),
    0 .. WordBits - 1)

MaskWriteRegister(a, andMask, orMask) ==
  Write(Anyone, "holding", a, <<Masked(Word(holding, a), andMask, orMask)>>)

\* fail_read(), fail_write() and fail_requests(), and their withdrawal.
Arm(failures) == armed' = failures /\ UNCHANGED <<holding, coil, events>>

\* The test sets a store, or a callable answers differently.
Reseed(a, words) == holding' = Put(holding, a, words) /\ UNCHANGED <<coil, armed, events>>
=============================================================================
