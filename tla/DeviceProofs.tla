---------------------------- MODULE DeviceProofs ----------------------------
(* Theorems about Device for every value of its constants: any number of   *)
(* callers, sub-systems, calls and errors.                                 *)
EXTENDS Device, WellFoundedInduction, TLAPS

-----------------------------------------------------------------------------
(* Data.                                                                   *)

\* A nonempty set of natural numbers has a least one.
LEMMA LeastNatural ==
  ASSUME NEW T, T \subseteq Nat, T # {}
  PROVE  Min(T) \in T /\ \A n \in T : Min(T) <= n
<1> DEFINE Below == OpToRel(<, Nat)
<1>1. IsWellFoundedOn(Below, Nat)
  BY NatLessThanWellFounded, Zenon
<1>2. \A m, n \in Nat : n < m => <<n, m>> \in Below
  BY Zenon DEF OpToRel
<1> HIDE DEF Below
<1>3. PICK m \in T : \A n \in T : ~ (<<n, m>> \in Below)
  BY <1>1, WFMin, Zenon
<1>4. \A n \in T : m \in Nat /\ n \in Nat /\ ~ (n < m)
  BY <1>2, <1>3
<1>5. \A n \in T : m <= n
  BY <1>4
<1>6. QED BY <1>5 DEF Min

LEMMA RangeType ==
  ASSUME NEW S, NEW s \in Seq(S)
  PROVE  /\ Range(s) \subseteq S
         /\ \A x \in Range(s) : \E i \in 1 .. Len(s) : s[i] = x
         /\ \A i \in 1 .. Len(s) : s[i] \in Range(s)
         /\ Len(s) \in Nat
BY DEF Range

\* The suffix of a sequence from one of its places on.
LEMMA Suffix ==
  ASSUME NEW S, NEW s \in Seq(S), NEW k \in 1 .. Len(s)
  PROVE  LET r == SubSeq(s, k, Len(s)) IN
         /\ r \in Seq(S) /\ r # <<>> /\ Head(r) = s[k]
         /\ \A i \in k .. Len(s) : s[i] \in Range(r)
<1> DEFINE r == SubSeq(s, k, Len(s))
<1>1. r \in Seq(S) /\ Len(r) = Len(s) - k + 1
  OBVIOUS
<1>2. \A i \in 1 .. Len(r) : r[i] = s[k + i - 1]
  OBVIOUS
<1> HIDE DEF r
<1>3. r # <<>> /\ Head(r) = s[k]
  BY <1>1, <1>2
<1>4. ASSUME NEW i \in k .. Len(s) PROVE s[i] \in Range(r)
  <2>1. i - k + 1 \in 1 .. Len(r) /\ r[i - k + 1] = s[i]
    BY <1>1, <1>2
  <2>2. QED BY <1>1, <2>1, RangeType
<1>5. QED BY <1>1, <1>3, <1>4 DEF r

LEMMA HeadAndTail ==
  ASSUME NEW S, NEW s \in Seq(S), s # <<>>
  PROVE  /\ Head(s) \in S /\ Tail(s) \in Seq(S)
         /\ Range(s) \subseteq {Head(s)} \cup Range(Tail(s))
<1>1. Tail(s) \in Seq(S) /\ Len(s) \in Nat \ {0} /\ Len(Tail(s)) = Len(s) - 1
  OBVIOUS
<1>2. \A i \in 2 .. Len(s) : i - 1 \in 1 .. Len(Tail(s)) /\ Tail(s)[i - 1] = s[i]
  BY <1>1
<1>3. \A i \in 2 .. Len(s) : s[i] \in Range(Tail(s))
  BY <1>1, <1>2, RangeType
<1>4. QED BY <1>1, <1>3, RangeType

-----------------------------------------------------------------------------
(* What a poll skips: the names up to the first one that can be read.      *)

LEMMA PendingSkips ==
  ASSUME NEW names \in Seq(Names), NEW here
  PROVE  LET todo == Pending(names, here) IN
         /\ todo \in Seq(Names)
         /\ todo # <<>> => Head(todo) \in here
         /\ Range(names) \cap here \subseteq Range(todo)
<1> DEFINE found == {i \in DOMAIN names : names[i] \in here}
<1>1. CASE found = {}
  <2>1. Pending(names, here) = <<>>
    BY <1>1 DEF Pending
  <2>2. Range(names) \cap here = {}
    BY <1>1 DEF Range
  <2>3. QED BY <2>1, <2>2
<1>2. CASE found # {}
  <2>1. /\ found \subseteq 1 .. Len(names) /\ found \subseteq Nat /\ Len(names) \in Nat
        /\ \A i \in 1 .. Len(names) : i \in found <=> names[i] \in here
    OBVIOUS
  <2>2. Pending(names, here) = SubSeq(names, Min(found), Len(names))
    BY <1>2 DEF Pending
  <2> HIDE DEF found
  <2>3. Min(found) \in found /\ \A i \in found : Min(found) <= i
    BY <1>2, <2>1, LeastNatural
  <2>4. ASSUME NEW x \in Range(names) \cap here PROVE x \in Range(Pending(names, here))
    <3>1. PICK i \in 1 .. Len(names) : names[i] = x
      BY RangeType
    <3>2. i \in Min(found) .. Len(names)
      BY <2>1, <2>3, <3>1
    <3>3. QED BY <2>1, <2>2, <2>3, <3>1, <3>2, Suffix
  <2>5. QED BY <2>1, <2>2, <2>3, <2>4, Suffix
<1>3. QED BY <1>1, <1>2

-----------------------------------------------------------------------------
(* The invariant.  Per call: its record is well formed, and what it says   *)
(* of its report, of the listeners and of the names that it has passed.    *)

Places == {"idle", "setup", "reading", "returned", "raised", "crashed"}
Reports == [updated : SUBSET Names, failed : UNION {[S -> Errors] : S \in SUBSET Names},
            answered : BOOLEAN]
CallType ==
  [at : Places, raw : BOOLEAN, names : Seq(Names), todo : Seq(Names \cup Errors),
   mine : Seq(Names), unsettled : SUBSET Optional, report : Reports]

Fitted == (Names \ Optional) \cup serves

\* A report says that the device answered iff something is on it, and a timeout is
\* put on record only next to something else.
ReportInv(r) ==
  /\ r.answered <=> r.updated # {} \/ r.failed # <<>>
  /\ "timeout" \in Range(r.failed) => r.answered

\* Before the setup is done nothing has been read, so nothing is on record as answered.
CallInv(c, left, done) ==
  /\ ReportInv(c.report)
  /\ c.at = "setup" => c.todo = c.names /\ ~c.report.answered
  /\ c.at \in {"reading", "returned"} \/ c.report.answered => done
  /\ c.at = "reading" =>
       /\ c.todo \in Seq(Names) /\ c.todo # <<>> /\ Head(c.todo) \in Fitted
       /\ left = Range(c.mine)
  /\ c.at = "returned" => left = {}
  /\ c.at = "raised" /\ c.todo = <<"timeout">> /\ ~c.raw => ~c.report.answered

\* What a call has passed it has updated or put on record, or it found no component.
Accounted(c, held) ==
  Range(c.names) \cap held \subseteq c.report.updated \cup DOMAIN c.report.failed \cup
    (IF c.at = "reading" THEN Range(c.todo) ELSE {})

\* The same, whether the call is still to read what it has to do or is about to.
Covers(c, held) ==
  ~c.raw => Range(c.names) \cap held \subseteq
              c.report.updated \cup DOMAIN c.report.failed \cup Range(c.todo)
SteadyInv(c, held) == c.at \in {"reading", "returned"} /\ ~c.raw => Accounted(c, held)

DeviceType ==
  /\ serves \subseteq Optional
  /\ attached \subseteq Fitted
  /\ setupDone \in BOOLEAN
  /\ poll \in [Polls -> CallType]
  /\ DOMAIN unheard = Polls /\ unheard = [p \in Polls |-> unheard[p]]
  /\ DOMAIN steady = Polls /\ steady = [p \in Polls |-> steady[p]]

DeviceInv ==
  /\ DeviceType
  /\ \A p \in Polls : CallInv(poll[p], unheard[p], setupDone) /\ SteadyInv(poll[p], steady[p])

-----------------------------------------------------------------------------
(* Records.                                                                *)

LEMMA EmptyReport ==
  /\ NoReport \in Reports /\ ReportInv(NoReport)
  /\ ~NoReport.answered /\ DOMAIN NoReport.failed = {}
<1>1. <<>> \in [{} -> Errors] /\ DOMAIN <<>> = {}
  BY DEF Errors
<1>2. NoReport \in Reports
  BY <1>1 DEF NoReport, Reports
<1>3. QED BY <1>1, <1>2 DEF NoReport, ReportInv, Range

LEMMA FailedIsKnown ==
  ASSUME NEW r \in Reports
  PROVE  /\ DOMAIN r.failed \subseteq Names
         /\ r.failed = <<>> => DOMAIN r.failed = {}
         /\ \A n \in DOMAIN r.failed : r.failed[n] \in Errors
<1>1. PICK S \in SUBSET Names : r.failed \in [S -> Errors]
  BY DEF Reports
<1>2. QED BY <1>1

\* A read that ended well is on the report, and on no record a raw read keeps.
LEMMA SuccessKeeps ==
  ASSUME NEW c \in CallType, c.todo \in Seq(Names), c.todo # <<>>, ReportInv(c.report)
  PROVE  LET d == Success(c, Head(c.todo)) IN
         /\ d \in CallType /\ d.todo = Tail(c.todo) /\ d.todo \in Seq(Names)
         /\ d.names = c.names /\ d.raw = c.raw
         /\ ReportInv(d.report)
         /\ ~c.raw => d.report.updated = c.report.updated \cup {Head(c.todo)}
         /\ DOMAIN d.report.failed = DOMAIN c.report.failed
<1> DEFINE name == Head(c.todo)
           d == Success(c, name)
<1>1. name \in Names /\ Tail(c.todo) \in Seq(Names) /\ Tail(c.todo) \in Seq(Names \cup Errors)
  BY HeadAndTail
<1>2. CASE c.raw
  BY <1>1, <1>2 DEF Success, CallType
<1>3. CASE ~c.raw
  <2>1. /\ d = [c EXCEPT !.todo = Tail(c.todo), !.mine = Append(c.mine, name),
                         !.report.updated = c.report.updated \cup {name},
                         !.report.answered = TRUE]
    BY <1>3, Zenon DEF Success
  <2>2. Append(c.mine, name) \in Seq(Names)
    BY <1>1 DEF CallType
  <2>3. /\ d.report = [c.report EXCEPT !.updated = c.report.updated \cup {name},
                                       !.answered = TRUE]
        /\ d.at = c.at /\ d.raw = c.raw /\ d.names = c.names /\ d.todo = Tail(c.todo)
        /\ d.mine = Append(c.mine, name) /\ d.unsettled = c.unsettled
    BY <2>1 DEF CallType, Reports
  <2>4. d.report \in Reports /\ ReportInv(d.report)
    BY <1>1, <2>3 DEF CallType, Reports, ReportInv
  <2>5. d \in CallType
    BY <1>1, <2>1, <2>2, <2>3, <2>4 DEF CallType
  <2>6. QED BY <1>1, <1>3, <2>3, <2>4, <2>5 DEF CallType, Reports
<1>4. QED BY <1>2, <1>3 DEF CallType

\* An error that does not end the poll is on the report.
LEMMA RecordKeeps ==
  ASSUME NEW c \in CallType, c.todo \in Seq(Names), c.todo # <<>>, ReportInv(c.report),
         NEW err \in Errors, Handled(c, err)
  PROVE  LET d == Record(c, Head(c.todo), err) IN
         /\ d \in CallType /\ d.todo = Tail(c.todo) /\ d.todo \in Seq(Names)
         /\ d.names = c.names /\ d.raw = c.raw
         /\ ReportInv(d.report)
         /\ d.report.updated = c.report.updated
         /\ DOMAIN d.report.failed = DOMAIN c.report.failed \cup {Head(c.todo)}
<1> DEFINE name == Head(c.todo)
           failed == [n \in DOMAIN c.report.failed \cup {name} |->
                        IF n = name THEN err ELSE c.report.failed[n]]
           answered == c.report.answered \/ err # "timeout"
           d == Record(c, name, err)
<1>1. name \in Names /\ Tail(c.todo) \in Seq(Names) /\ Tail(c.todo) \in Seq(Names \cup Errors)
  BY HeadAndTail
<1>2. d = [c EXCEPT !.todo = Tail(c.todo), !.report.failed = failed,
                    !.report.answered = answered]
  BY DEF Record, CallType, Reports
<1>3. c.report \in Reports
  BY DEF CallType
<1>4. /\ failed \in [DOMAIN c.report.failed \cup {name} -> Errors]
      /\ DOMAIN c.report.failed \cup {name} \in SUBSET Names
      /\ DOMAIN failed = DOMAIN c.report.failed \cup {name}
      /\ name \in DOMAIN failed
      /\ failed[name] = err
      /\ \A n \in DOMAIN failed : n # name => n \in DOMAIN c.report.failed /\ failed[n] = c.report.failed[n]
  BY <1>1, <1>3, FailedIsKnown
<1> HIDE DEF failed
<1>5. failed # <<>>
  <2>1. DOMAIN <<>> = {}
    OBVIOUS
  <2>2. QED BY <1>4, <2>1
<1>6. /\ d.report = [c.report EXCEPT !.failed = failed, !.answered = answered]
      /\ d.at = c.at /\ d.raw = c.raw /\ d.names = c.names /\ d.todo = Tail(c.todo)
      /\ d.mine = c.mine /\ d.unsettled = c.unsettled
  BY <1>2 DEF CallType, Reports
<1>7. d.report \in Reports
  <2>1. failed \in UNION {[S -> Errors] : S \in SUBSET Names}
    BY <1>4, Zenon
  <2>2. c.report.answered \in BOOLEAN
    BY <1>3 DEF Reports
  <2>3. answered \in BOOLEAN
    BY <2>2
  <2> HIDE DEF answered
  <2>4. QED BY <1>3, <1>6, <2>1, <2>3 DEF Reports
<1>8. /\ d.report.updated = c.report.updated
      /\ d.report.failed = failed /\ d.report.answered = answered
  BY <1>3, <1>6 DEF Reports
<1>9. ASSUME "timeout" \in Range(failed) PROVE c.report.answered \/ err # "timeout"
  <2>1. PICK n \in DOMAIN failed : failed[n] = "timeout"
    BY <1>9 DEF Range
  <2>2. CASE n = name
    BY <1>4, <2>1, <2>2 DEF Handled, ReportInv
  <2>3. CASE n # name
    BY <1>4, <2>1, <2>3 DEF Range, ReportInv
  <2>4. QED BY <2>2, <2>3
<1>10. err = "timeout" => c.report.answered
  BY DEF Handled, ReportInv
<1>11. ReportInv(d.report)
  BY <1>5, <1>8, <1>9, <1>10 DEF ReportInv
<1>12. d \in CallType
  BY <1>1, <1>2, <1>6, <1>7 DEF CallType
<1>13. QED BY <1>1, <1>4, <1>6, <1>8, <1>11, <1>12

-----------------------------------------------------------------------------
(* Steps.                                                                  *)

\* A step of call p that leaves d of it, with the listeners of u still to be told.
LEMMA CallKeeps ==
  ASSUME DeviceInv, Settles, UNCHANGED serves, attached' \subseteq Fitted,
         setupDone' \in BOOLEAN, setupDone => setupDone',
         NEW p \in Polls, NEW d \in CallType, NEW u,
         poll' = [poll EXCEPT ![p] = d], unheard' = [unheard EXCEPT ![p] = u],
         CallInv(d, u, setupDone'),
         \A held : held \subseteq attached' /\ (poll[p].at = "reading" => held \subseteq steady[p])
                     => SteadyInv(d, held)
  PROVE  DeviceInv'
<1> USE DEF DeviceInv, DeviceType
<1>1. Fitted' = Fitted
  BY DEF Fitted
<1>2. /\ DOMAIN steady' = Polls /\ steady' = [q \in Polls |-> steady'[q]]
      /\ \A q \in Polls : steady'[q] = IF poll[q].at = "reading" THEN steady[q] \cap attached'
                                       ELSE IF poll'[q] # poll[q] THEN attached' ELSE steady[q]
  BY DEF Settles
<1>3. poll'[p] = d /\ unheard'[p] = u
  OBVIOUS
<1>4. \A q \in Polls \ {p} : poll'[q] = poll[q] /\ unheard'[q] = unheard[q]
  OBVIOUS
<1>5. DeviceType'
  BY <1>1, <1>2
<1>6. ASSUME NEW q \in Polls \ {p}
      PROVE  CallInv(poll[q], unheard[q], setupDone') /\ SteadyInv(poll[q], steady'[q])
  <2>1. CallInv(poll[q], unheard[q], setupDone')
    BY DEF CallInv
  <2>2. steady'[q] \subseteq steady[q]
    BY <1>2, <1>4
  <2>3. SteadyInv(poll[q], steady'[q])
    BY <2>2, Zenon DEF SteadyInv, Accounted
  <2>4. QED BY <2>1, <2>3
<1>7. SteadyInv(d, steady'[p])
  <2>1. CASE poll[p].at = "reading" \/ d # poll[p]
    BY <1>2, <1>3, <2>1
  <2>2. CASE poll[p].at # "reading" /\ d = poll[p]
    BY <1>2, <1>3, <2>2
  <2>3. QED BY <2>1, <2>2
<1>8. ASSUME NEW q \in Polls
      PROVE  /\ CallInv(poll'[q], unheard'[q], setupDone')
             /\ SteadyInv(poll'[q], steady'[q])
  <2>1. CASE q = p
    BY <1>3, <1>7, <2>1
  <2>2. CASE q # p
    BY <1>4, <1>6, <2>2
  <2>3. QED BY <2>1, <2>2
<1>9. (\A q \in Polls : CallInv(poll[q], unheard[q], setupDone) /\ SteadyInv(poll[q], steady[q]))'
  BY <1>1, <1>8 DEF CallInv, SteadyInv, Accounted
<1> HIDE DEF DeviceType
<1>10. QED BY <1>5, <1>9

\* On to the next read, or to the end: whatever is passed has no component.
LEMMA ProceedsKeeps ==
  ASSUME DeviceInv, Settles, UNCHANGED serves, attached' \subseteq Fitted,
         setupDone' = TRUE,
         NEW p \in Polls, NEW c \in CallType, c.todo \in Seq(Names), ReportInv(c.report),
         Proceeds(p, c, attached'),
         \A held : held \subseteq attached' /\ (poll[p].at = "reading" => held \subseteq steady[p])
                     => Covers(c, held)
  PROVE  DeviceInv'
<1> DEFINE todo == Pending(c.todo, attached')
           d(at) == [c EXCEPT !.at = at, !.todo = todo]
<1>1. /\ todo \in Seq(Names) /\ (todo # <<>> => Head(todo) \in attached')
      /\ Range(c.todo) \cap attached' \subseteq Range(todo)
  BY PendingSkips
<1>2. todo \in Seq(Names \cup Errors) /\ (todo = <<>> => Range(todo) = {})
  BY <1>1 DEF Range
<1> HIDE DEF todo
<1>3. ASSUME NEW at \in {"reading", "returned", "crashed"}
      PROVE  /\ d(at) \in CallType /\ d(at).at = at /\ d(at).todo = todo
             /\ d(at).raw = c.raw /\ d(at).names = c.names /\ d(at).mine = c.mine
             /\ d(at).report = c.report
  BY <1>2 DEF CallType, Places
<1>4. ASSUME NEW at \in {"reading", "returned", "crashed"}, at = "returned" => todo = <<>>,
             NEW held, held \subseteq attached',
             poll[p].at = "reading" => held \subseteq steady[p]
      PROVE  SteadyInv(d(at), held)
  <2>1. Covers(c, held)
    BY <1>4, Zenon
  <2>2. Range(c.todo) \cap held \subseteq Range(todo)
    BY <1>1, <1>4
  <2>3. ~c.raw => Range(c.names) \cap held \subseteq
                    c.report.updated \cup DOMAIN c.report.failed \cup Range(todo)
    BY <2>1, <2>2 DEF Covers
  <2>4. QED BY <1>2, <1>3, <1>4, <2>3 DEF SteadyInv, Accounted
<1> HIDE DEF d
<1>5. CASE todo # <<>>
  <2>1. poll' = [poll EXCEPT ![p] = d("reading")] /\ unheard' = [unheard EXCEPT ![p] = Range(c.mine)]
    BY <1>5 DEF Proceeds, todo, d
  <2>2. CallInv(d("reading"), Range(c.mine), setupDone')
    BY <1>1, <1>3, <1>5 DEF CallInv
  <2>3. \A held : held \subseteq attached' /\ (poll[p].at = "reading" => held \subseteq steady[p])
                => SteadyInv(d("reading"), held)
    BY <1>4
  <2>4. QED BY <1>3, <2>1, <2>2, <2>3, CallKeeps
<1>6. CASE todo = <<>>
  <2>1. PICK told :
          /\ poll' = [poll EXCEPT ![p] = d(IF told = Len(c.mine) THEN "returned" ELSE "crashed")]
          /\ unheard' = [unheard EXCEPT ![p] = Range(SubSeq(c.mine, told + 1, Len(c.mine)))]
    BY <1>6, Zenon DEF Proceeds, todo, d
  <2>2. CASE told = Len(c.mine)
    <3>1. SubSeq(c.mine, told + 1, Len(c.mine)) = <<>>
      BY <2>2 DEF CallType
    <3>2. Range(SubSeq(c.mine, told + 1, Len(c.mine))) = {}
      <4>1. Range(<<>>) = {}
        BY DEF Range
      <4>2. QED BY <3>1, <4>1
    <3>3. CallInv(d("returned"), {}, setupDone')
      BY <1>3 DEF CallInv
    <3>4. \A held : held \subseteq attached' /\ (poll[p].at = "reading" => held \subseteq steady[p])
                => SteadyInv(d("returned"), held)
      BY <1>4, <1>6
    <3>5. QED BY <1>3, <2>1, <2>2, <3>2, <3>3, <3>4, CallKeeps
  <2>3. CASE told # Len(c.mine)
    <3>1. \A u : CallInv(d("crashed"), u, setupDone')
      BY <1>3 DEF CallInv
    <3>2. \A held : SteadyInv(d("crashed"), held)
      BY <1>3 DEF SteadyInv
    <3>3. QED BY <1>3, <2>1, <2>3, <3>1, <3>2, CallKeeps
  <2>4. QED BY <2>2, <2>3
<1>7. QED BY <1>5, <1>6

-----------------------------------------------------------------------------
(* The actions.                                                            *)

LEMMA InitDeviceInv == Init => DeviceInv
<1> SUFFICES ASSUME Init PROVE DeviceInv
  OBVIOUS
<1> USE DEF Init
<1>1. Idle \in CallType /\ Idle.report = NoReport /\ Idle.at = "idle"
  BY EmptyReport DEF Idle, CallType, Places
<1>2. CallInv(Idle, {}, FALSE) /\ SteadyInv(Idle, {})
  BY <1>1, EmptyReport DEF CallInv, SteadyInv
<1>3. DeviceType
  BY <1>1 DEF DeviceType, Fitted
<1>4. QED BY <1>2, <1>3 DEF DeviceInv

LEMMA BeginKeeps ==
  ASSUME DeviceInv, Settles, NEW p \in Polls, NEW names \in NameLists,
         NEW raw \in BOOLEAN, NEW carry \in BOOLEAN, Begin(p, names, raw, carry)
  PROVE  DeviceInv'
<1> DEFINE c == [at |-> "setup", raw |-> raw, names |-> names, todo |-> names, mine |-> <<>>,
                 unsettled |-> IF setupDone THEN {} ELSE Optional,
                 report |-> IF carry THEN poll[p].report ELSE NoReport]
<1>1. /\ UNCHANGED <<serves, attached, setupDone>>
      /\ carry => poll[p].at # "idle" /\ poll[p].at \in Over
      /\ setupDone => Proceeds(p, c, attached)
      /\ ~setupDone => /\ poll' = [poll EXCEPT ![p] = c]
                       /\ unheard' = [unheard EXCEPT ![p] = {}]
  BY DEF Begin
<1>2. /\ poll[p].report \in Reports /\ ReportInv(poll[p].report)
      /\ poll[p].report.answered => setupDone
      /\ attached \subseteq Fitted /\ setupDone \in BOOLEAN
  BY <1>1 DEF DeviceInv, DeviceType, CallType, CallInv
<1>3. names \in Seq(Names) /\ names \in Seq(Names \cup Errors)
  BY DeviceAssumption
<1>4. c.report \in Reports /\ ReportInv(c.report) /\ (~setupDone => ~c.report.answered)
  BY <1>2, EmptyReport
<1>5. c \in CallType
  BY <1>3, <1>4 DEF CallType, Places
<1>6. /\ c.todo = names /\ c.names = names /\ c.at = "setup"
  OBVIOUS
<1>7. Fitted' = Fitted
  BY <1>1 DEF Fitted
<1> HIDE DEF c
<1>8. CASE setupDone
  <2>1. Proceeds(p, c, attached') /\ setupDone' = TRUE /\ attached' \subseteq Fitted
    BY <1>1, <1>2, <1>8
  <2>2. \A held : Covers(c, held)
    BY <1>6 DEF Covers
  <2>3. QED BY <1>1, <1>3, <1>4, <1>5, <1>6, <2>1, <2>2, ProceedsKeeps
<1>9. CASE ~setupDone
  <2>1. CallInv(c, {}, setupDone')
    BY <1>4, <1>6, <1>9 DEF CallInv
  <2>2. \A held : SteadyInv(c, held)
    BY <1>6 DEF SteadyInv
  <2>3. attached' \subseteq Fitted /\ setupDone' \in BOOLEAN /\ (setupDone => setupDone')
    BY <1>1, <1>2
  <2>4. QED BY <1>1, <1>5, <1>9, <2>1, <2>2, <2>3, CallKeeps
<1>10. QED BY <1>8, <1>9

\* An error that ends the call, raised where it may be.
LEMMA RaiseKeeps ==
  ASSUME DeviceInv, Settles, UNCHANGED <<serves, attached, setupDone>>,
         NEW p \in Polls, NEW c \in CallType, NEW err \in Errors, Raises(p, c, err),
         ReportInv(c.report), err = "timeout" /\ ~c.raw => ~c.report.answered,
         c.report.answered => setupDone
  PROVE  DeviceInv'
<1> DEFINE d == [c EXCEPT !.at = "raised", !.todo = <<err>>]
<1>1. /\ d \in CallType /\ d.at = "raised" /\ d.todo = <<err>>
      /\ d.raw = c.raw /\ d.report = c.report
  <2>1. <<err>> \in Seq(Names \cup Errors)
    OBVIOUS
  <2>2. QED BY <2>1 DEF CallType, Places
<1>2. poll' = [poll EXCEPT ![p] = d] /\ unheard' = [unheard EXCEPT ![p] = unheard[p]]
  BY DEF Raises, DeviceInv, DeviceType
<1>3. /\ attached' \subseteq Fitted /\ setupDone' \in BOOLEAN /\ (setupDone => setupDone')
      /\ UNCHANGED serves
  BY DEF DeviceInv, DeviceType
<1> HIDE DEF d
<1>4. <<err>> = <<"timeout">> => err = "timeout"
  OBVIOUS
<1>5. CallInv(d, unheard[p], setupDone')
  BY <1>1, <1>4 DEF CallInv
<1>6. \A held : SteadyInv(d, held)
  BY <1>1 DEF SteadyInv
<1>7. QED BY <1>1, <1>2, <1>3, <1>5, <1>6, CallKeeps

LEMMA SettleKeeps ==
  ASSUME DeviceInv, Settles, NEW p \in Polls, NEW name \in Optional, Settle(p, name)
  PROVE  DeviceInv'
<1> DEFINE c == [poll[p] EXCEPT !.unsettled = @ \ {name}]
           Settled(there) ==
             /\ attached' = IF there THEN attached \cup {name} ELSE attached \ {name}
             /\ setupDone' = (setupDone \/ c.unsettled = {})
             /\ IF c.unsettled = {} THEN Proceeds(p, c, attached')
                ELSE poll' = [poll EXCEPT ![p] = c] /\ UNCHANGED unheard
<1>1. /\ poll[p].at = "setup" /\ UNCHANGED serves
      /\ \/ Settled(name \in serves)
         \/ Settled(FALSE)
         \/ \E err \in Errors : Raises(p, c, err) /\ UNCHANGED <<attached, setupDone>>
  BY Zenon DEF Settle
<1>2. poll[p] \in CallType /\ CallInv(poll[p], unheard[p], setupDone)
  BY DEF DeviceInv, DeviceType
<1>3. /\ c \in CallType /\ c.at = "setup" /\ c.todo = poll[p].todo /\ c.names = poll[p].names
      /\ c.raw = poll[p].raw /\ c.report = poll[p].report
  BY <1>1, <1>2 DEF CallType
<1>4. /\ c.todo = c.names /\ c.todo \in Seq(Names) /\ ReportInv(c.report)
      /\ ~c.report.answered
  BY <1>1, <1>2, <1>3 DEF CallInv, CallType
<1> HIDE DEF c
<1>5. ASSUME NEW there, there => name \in serves, Settled(there) PROVE DeviceInv'
  <2>1. attached' \subseteq Fitted
    BY <1>5 DEF DeviceInv, DeviceType, Fitted
  <2>2. CASE c.unsettled = {}
    <3>1. Proceeds(p, c, attached') /\ setupDone' = TRUE
      BY <1>5, <2>2
    <3>2. \A held : Covers(c, held)
      BY <1>4 DEF Covers
    <3>3. QED BY <1>1, <1>3, <1>4, <2>1, <3>1, <3>2, ProceedsKeeps
  <2>3. CASE c.unsettled # {}
    <3>1. /\ poll' = [poll EXCEPT ![p] = c] /\ unheard' = [unheard EXCEPT ![p] = unheard[p]]
          /\ setupDone' = setupDone /\ setupDone' \in BOOLEAN
      BY <1>5, <2>3 DEF DeviceInv, DeviceType
    <3>2. CallInv(c, unheard[p], setupDone')
      BY <1>3, <1>4 DEF CallInv
    <3>3. \A held : SteadyInv(c, held)
      BY <1>3 DEF SteadyInv
    <3>4. QED BY <1>1, <1>3, <2>1, <3>1, <3>2, <3>3, CallKeeps
  <2>4. QED BY <2>2, <2>3
<1> HIDE DEF Settled
<1>6. CASE Settled(name \in serves) \/ Settled(FALSE)
  BY <1>5, <1>6
<1>7. CASE \E err \in Errors : Raises(p, c, err) /\ UNCHANGED <<attached, setupDone>>
  BY <1>1, <1>3, <1>4, <1>7, RaiseKeeps
<1>8. QED BY <1>1, <1>6, <1>7

LEMMA ReadKeeps ==
  ASSUME DeviceInv, Settles, NEW p \in Polls, Read(p)
  PROVE  DeviceInv'
<1> DEFINE c == poll[p]
           name == Head(c.todo)
<1>1. /\ c.at = "reading" /\ UNCHANGED <<serves, attached, setupDone>>
      /\ \/ Proceeds(p, Success(c, name), attached)
         \/ \E err \in Errors : /\ Handled(c, err)
                                /\ Proceeds(p, Record(c, name, err), attached)
         \/ \E err \in Errors : ~Handled(c, err) /\ Raises(p, c, err)
  BY Zenon DEF Read
<1>2. c \in CallType /\ CallInv(c, unheard[p], setupDone) /\ SteadyInv(c, steady[p])
  BY DEF DeviceInv, DeviceType
<1>3. c.todo \in Seq(Names) /\ c.todo # <<>> /\ ReportInv(c.report) /\ setupDone = TRUE
  BY <1>1, <1>2 DEF CallInv, DeviceInv, DeviceType
<1>4. /\ UNCHANGED serves /\ attached' = attached /\ attached' \subseteq Fitted /\ setupDone' = TRUE
  BY <1>1, <1>3 DEF DeviceInv, DeviceType
<1>5. ~c.raw => Range(c.names) \cap steady[p] \subseteq
                  c.report.updated \cup DOMAIN c.report.failed \cup Range(c.todo)
  BY <1>1, <1>2 DEF SteadyInv, Accounted
<1>6. Range(c.todo) \subseteq {name} \cup Range(Tail(c.todo))
  BY <1>3, HeadAndTail
<1>7. CASE Proceeds(p, Success(c, name), attached)
  <2> DEFINE d == Success(c, name)
  <2>1. /\ d \in CallType /\ d.todo = Tail(c.todo) /\ d.todo \in Seq(Names)
        /\ d.names = c.names /\ d.raw = c.raw /\ ReportInv(d.report)
        /\ ~c.raw => d.report.updated = c.report.updated \cup {name}
        /\ DOMAIN d.report.failed = DOMAIN c.report.failed
    BY <1>2, <1>3, SuccessKeeps
  <2>2. Proceeds(p, d, attached')
    BY <1>4, <1>7
  <2> HIDE DEF d
  <2>3. ASSUME NEW held, held \subseteq steady[p] PROVE Covers(d, held)
    BY <1>5, <1>6, <2>1, <2>3 DEF Covers
  <2>4. QED BY <1>1, <1>4, <2>1, <2>2, <2>3, ProceedsKeeps
<1>8. ASSUME NEW err \in Errors, Handled(c, err), Proceeds(p, Record(c, name, err), attached)
      PROVE  DeviceInv'
  <2> DEFINE d == Record(c, name, err)
  <2>1. /\ d \in CallType /\ d.todo = Tail(c.todo) /\ d.todo \in Seq(Names)
        /\ d.names = c.names /\ d.raw = c.raw /\ ReportInv(d.report)
        /\ d.report.updated = c.report.updated
        /\ DOMAIN d.report.failed = DOMAIN c.report.failed \cup {name}
    BY <1>2, <1>3, <1>8, RecordKeeps
  <2>2. Proceeds(p, d, attached')
    BY <1>4, <1>8
  <2> HIDE DEF d
  <2>3. ASSUME NEW held, held \subseteq steady[p] PROVE Covers(d, held)
    BY <1>5, <1>6, <2>1, <2>3 DEF Covers
  <2>4. QED BY <1>1, <1>4, <2>1, <2>2, <2>3, ProceedsKeeps
<1>9. ASSUME NEW err \in Errors, ~Handled(c, err), Raises(p, c, err) PROVE DeviceInv'
  <2>1. err = "timeout" /\ ~c.raw => ~c.report.answered
    BY <1>3, <1>9 DEF Handled, ReportInv, Errors
  <2>2. QED BY <1>1, <1>2, <1>3, <1>9, <2>1, RaiseKeeps
<1>10. QED BY <1>1, <1>7, <1>8, <1>9

LEMMA NextDeviceInv == DeviceInv /\ [Next]_vars => DeviceInv'
<1> SUFFICES ASSUME DeviceInv, [Next]_vars PROVE DeviceInv'
  OBVIOUS
<1>1. CASE Next
  BY <1>1, BeginKeeps, SettleKeeps, ReadKeeps DEF Next
<1>2. CASE UNCHANGED vars
  BY <1>2 DEF vars, DeviceInv, DeviceType, Fitted, CallInv, SteadyInv, Accounted
<1>3. QED BY <1>1, <1>2

LEMMA DeviceInvariant == Spec => []DeviceInv
<1>1. Init => DeviceInv
  BY InitDeviceInv
<1>2. DeviceInv /\ [Next]_vars => DeviceInv'
  BY NextDeviceInv
<1>3. QED BY <1>1, <1>2, PTL DEF Spec

-----------------------------------------------------------------------------
(* The theorems.                                                           *)

\* A timeout is on a poll's report only where something has answered, and ends a poll
\* only where nothing has: async_poll() tells a dead link from a slow sub-system.
THEOREM DeadLinkIsAlwaysTold == Spec => []DeadLinkIsTold
<1>1. DeviceInv => DeadLinkIsTold
  BY DEF DeviceInv, CallInv, ReportInv, DeadLinkIsTold
<1>2. QED BY <1>1, DeviceInvariant, PTL

\* A poll tells no listener before its last read is in, and a poll that has returned
\* has told those of everything that it updated.
THEOREM UpdatesAreAlwaysTold == Spec => []UpdatesAreTold
<1>1. DeviceInv => UpdatesAreTold
  BY DEF DeviceInv, CallInv, UpdatesAreTold
<1>2. QED BY <1>1, DeviceInvariant, PTL

\* A report without a failure covers every sub-system that the poll was asked for and
\* that was there throughout; a poll reads no sub-system that the device lacks.
THEOREM CompletePollsRefreshed == Spec => []CompleteMeansRefreshed
<1>1. DeviceInv => CompleteMeansRefreshed
  <2> SUFFICES ASSUME DeviceInv, NEW p \in Polls
               PROVE  LET c == poll[p] IN
                      /\ c.at = "reading" => Head(c.todo) \in (Names \ Optional) \cup serves
                      /\ c.at = "returned" /\ ~c.raw /\ c.report.failed = <<>> =>
                           Range(c.names) \cap steady[p] \subseteq c.report.updated
    BY DEF CompleteMeansRefreshed
  <2>1. CallInv(poll[p], unheard[p], setupDone) /\ SteadyInv(poll[p], steady[p])
    BY DEF DeviceInv
  <2>2. poll[p].report.failed = <<>> => DOMAIN poll[p].report.failed = {}
    BY FailedIsKnown DEF DeviceInv, DeviceType, CallType
  <2>3. QED BY <2>1, <2>2 DEF CallInv, SteadyInv, Accounted, Fitted
<1>2. QED BY <1>1, DeviceInvariant, PTL

=============================================================================
