------------------------------ MODULE Writing -------------------------------
(***************************************************************************)
(* write() on components and manual components, over the mock unit: the     *)
(* checks, the request that some fields need first (the register to merge   *)
(* bits into, or the scale factor), and the write request.  Other programs, *)
(* and the device itself, change registers between the requests.            *)
(***************************************************************************)
EXTENDS Mock

CONSTANTS
  Calls,      \* the write() calls
  FieldAt(_), \* the field that a name stands for, None for an unknown name
  Asks(_),    \* the <<name, value>> a call may be made with
  Changes,    \* what others do: [op, at, words] with op "reseed" or "mask"
  MaxOthers   \* bound: how often others do it

\* A field that write() may be asked for: packed bits and coils take up one register,
\* and a field that is none of the writable kinds is in a read-only space.
IsField(f) ==
  /\ f.at \in Nat /\ f.count \in Nat
  /\ f.kind \in {"number", "raw", "string", "bit", "bits", "coil", "discrete"}
  /\ f.kind \in {"bit", "bits", "coil"} => f.count = 1
  /\ f.kind = "discrete" => f.space \notin {"holding", "coil"}

Entries == [base : Nat, words : Seq(Int)]

ASSUME WritingAssumption ==
  /\ Anyone \notin Calls
  /\ None \notin Nat
  /\ \A c \in Calls : \A ask \in Asks(c) : FieldAt(ask[1]) # None => IsField(FieldAt(ask[1]))
  /\ HoldingSeeds \cup CoilSeeds \subseteq Seq(Entries)
  /\ \A x \in Changes : x.at \in Nat /\ x.words \in Seq(Int)

VARIABLES
  call,    \* per write(): where it stands, its field and value, what it read and sends
  raced,   \* per write(): has the register it read changed since?
  others   \* how often others have acted

vars == <<mockVars, call, raced, others>>

Ready == "ready"      Reading == "reading"   Sending == "sending"
Written == "written"  Unheard == "unheard"   Rejected == "rejected"   Failed == "failed"

New == [at |-> Ready, field |-> None, value |-> None, exponent |-> None, words |-> Invalid]

Init ==
  /\ MockInit
  /\ call = [c \in Calls |-> New]
  /\ raced = [c \in Calls |-> FALSE]
  /\ others = 0

\* The register a field's write reads first, if any.
ReadFirst(f) == IF f.kind \in {"bit", "bits"} THEN f.at ELSE f.scaleAt

\* What becomes of a call once the field's encoder, of whatever kind, has returned the
\* words to send, or has raised.
Sends(c, words) ==
  IF words = Invalid THEN [c EXCEPT !.at = Rejected] ELSE [c EXCEPT !.at = Sending, !.words = words]

-----------------------------------------------------------------------------
\* A field that is not writable, one in a read-only space, and a value the validator
\* rejects go no further.
Vetted(f, value) ==
  IF ~f.writable \/ f.space \notin {"holding", "coil"} THEN Invalid
  ELSE IF f.validator = None THEN value ELSE f.validator[value]

\* write() up to its first request; an unknown name goes no further either.
Ask(c, name, value) ==
  LET f == FieldAt(name)
      vetted == IF f = None THEN Invalid ELSE Vetted(f, value)
      asked == [New EXCEPT !.field = f, !.value = vetted]
  IN /\ call[c].at = Ready
     /\ call' = [call EXCEPT ![c] =
          IF vetted = Invalid THEN [asked EXCEPT !.at = Rejected]
          ELSE IF ReadFirst(f) # None THEN [asked EXCEPT !.at = Reading]
          ELSE Sends(asked, Encode(f, vetted, None))]
     /\ UNCHANGED <<mockVars, others>>

\* The first request answers with the register's word, or fails.
Read(c) ==
  LET f == call[c].field
      word == Word(holding, ReadFirst(f))
      merged == Merge(f, word, call[c].value)
      exponent == Signed(word, WordBits)
  IN /\ call[c].at = Reading
     /\ call' = [call EXCEPT ![c] =
          IF Refused("read", "holding", ReadFirst(f), 1) THEN [@ EXCEPT !.at = Failed]
          ELSE IF f.kind \in {"bit", "bits"}
               THEN Sends(@, IF merged = Invalid THEN Invalid ELSE <<merged>>)
          ELSE Sends([@ EXCEPT !.exponent = exponent], Encode(f, call[c].value, exponent))]
     /\ UNCHANGED <<mockVars, others>>

\* The write request is refused, or carried out; an on_write callback that raises
\* makes one that was carried out look like a failure.
Send(c) ==
  LET f == call[c].field
  IN /\ call[c].at = Sending
     /\ \/ /\ Refused("write", f.space, f.at, Len(call[c].words))
           /\ call' = [call EXCEPT ![c].at = Failed]
           /\ UNCHANGED mockVars
        \/ /\ Write(c, f.space, f.at, call[c].words)
           /\ call' \in {[call EXCEPT ![c].at = o] : o \in {Written, Unheard}}
     /\ UNCHANGED others

\* Others, at any time: the device sets a register, as a test does by load_raw() or by
\* assigning to the store, another master masks bits of one, and failures come and go.
Other(x) ==
  /\ others < MaxOthers /\ others' = others + 1
  /\ \/ x.op = "reseed" /\ Reseed(x.at, x.words)
     \/ x.op = "mask" /\ MaskWriteRegister(x.at, x.words[1], x.words[2])
  /\ UNCHANGED call

Rearm(failures) ==
  /\ others < MaxOthers /\ others' = others + 1
  /\ failures # armed /\ Arm(failures)
  /\ UNCHANGED call

\* A call that has read a register is raced when the register is no longer what it was.
Notice ==
  raced' = [c \in Calls |->
    \/ raced[c]
    \/ /\ call[c].at = Sending /\ call'[c].at = Sending /\ ReadFirst(call[c].field) # None
       /\ LET a == ReadFirst(call[c].field) IN Word(holding', a) # Word(holding, a)]

Next ==
  /\ \/ \E c \in Calls :
          \/ \E ask \in Asks(c) : Ask(c, ask[1], ask[2])
          \/ Read(c) \/ Send(c)
     \/ \E x \in Changes : Other(x)
     \/ \E failures \in Faults : Rearm(failures)
  /\ Notice

Spec == Init /\ [][Next]_vars
-----------------------------------------------------------------------------
\* What a field reads as after a step.
Store(f) == IF f.space = "coil" THEN coil ELSE holding
ReadsAs(f) ==
  Decode(f, Words(Store(f), f.at, f.count),
         IF f.scaleAt = None THEN None ELSE Signed(Word(holding, f.scaleAt), WordBits))

\* Could any raw pattern stand for the value?  Those next to the exact quotient will do.
Near(f, value, factor, got) ==
  /\ got # None
  /\ IF Unscaled(f, factor) THEN got - value \in -Unit + 1 .. Unit - 1
     ELSE 2 * (got - value) \in -(factor + 10 ^ (Places - Precision(f, factor))) ..
                                 factor + 10 ^ (Places - Precision(f, factor))
Holds(f, value, exponent) ==
  LET factor == Factor(f, exponent)
      k == (value - f.offset) \div factor
      bits == WordBits * f.count
      raws == (k - 1 .. k + 2) \cap
              (IF f.signed THEN -2 ^ (bits - 1) .. 2 ^ (bits - 1) - 1 ELSE 0 .. 2 ^ bits - 1)
  IN factor # Invalid /\ \E raw \in raws :
       Near(f, value, factor, Decode(f, SplitWords(raw % 2 ^ bits, f.count, f.order), exponent))

Completes(c) == call[c].at = Sending /\ call'[c].at = Written

\* A number that the field has a step for reads back as the nearest step, with the
\* scale factor in force when the write arrives, unless that changed during the write.
NumbersReadBack ==
  [][\A c \in Calls : LET f == call[c].field IN
       /\ Completes(c) /\ ~raced[c] /\ f.kind = "number"
       /\ Holds(f, call[c].value, call[c].exponent)
       => Near(f, call[c].value, Factor(f, call[c].exponent), ReadsAs(f)')]_vars

\* Text, bits, coils and unsigned raw words read back as they were written: text as far
\* as the registers go.
ValuesReadBack ==
  [][\A c \in Calls : LET f == call[c].field  v == call[c].value IN
       Completes(c) /\ f.kind # "number" /\ (f.kind = "raw" => v >= 0) =>
         ReadsAs(f)' = CASE f.kind = "string" ->
                              LET text == Plain(v)
                              IN Stripped(SubSeq(text, 1, Min({Len(text), 2 * f.count})))
                         [] f.kind \in {"bit", "coil"} -> IF v = 0 THEN 0 ELSE Unit
                         [] OTHER -> Whole(v) * Unit]_vars

\* A step of a write() leaves alone every register that is not the field's, but for what
\* a list that a test seeded at one of them has behind its first word.
Covers(entry) == entry.base .. entry.base + Len(entry.words) - 1
Reach(store) == UNION {Covers(store[i]) : i \in DOMAIN store}
Touched(before, after) ==
  {a \in Reach(before) \cup Reach(after) : Word(before, a) # Word(after, a)}
Replaced(store, own) ==
  own \cup UNION {Covers(store[i]) : i \in {j \in DOMAIN store : store[j].base \in own}}

NothingElseIsWritten ==
  [][\A c \in Calls : call'[c] # call[c] =>
       LET f == call[c].field
           Own(space) == IF call[c].at # Sending \/ f.space # space THEN {}
                         ELSE f.at .. f.at + f.count - 1
       IN /\ Touched(holding, holding') \subseteq Replaced(holding, Own("holding"))
          /\ Touched(coil, coil') \subseteq Replaced(coil, Own("coil"))]_vars

\* The write of a packed field leaves its register's other bits alone, unless that register
\* changed since the write read it.
OtherBitsAreKept ==
  [][\A c \in Calls : LET f == call[c].field IN
       call'[c] # call[c] /\ call[c].at = Sending /\ f.kind \in {"bit", "bits"} /\ ~raced[c] =>
         \A i \in 0 .. WordBits - 1 \ f.start .. f.start + f.width - 1 :
           BitOf(Word(holding, f.at), i) = BitOf(Word(holding', f.at), i)]_vars

\* A write() that raised before it reached the device, or that the device refused,
\* has written nothing and told no callback; any other has told them once, of the
\* words it sent, whether or not it looked like a failure.
WritesAreReportedOnce ==
  \A c \in Calls :
    LET f == call[c].field
        told == {i \in DOMAIN events : events[i].by = c}
    IN IF call[c].at \notin {Written, Unheard} THEN told = {}
       ELSE \E i \in told :
              /\ told = {i}
              /\ events[i] = [by |-> c, space |-> f.space, at |-> f.at, words |-> call[c].words]
=============================================================================
