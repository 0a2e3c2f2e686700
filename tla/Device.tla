------------------------------- MODULE Device -------------------------------
(***************************************************************************)
(* A library's device object over its sub-systems: model/device.py.  Polls  *)
(* run concurrently and share the attributes, the setup and the listeners;  *)
(* a step is what runs between two awaits.  What a sub-system's update does *)
(* in detail is the subject of Refresh: here it ends well or in an error.   *)
(***************************************************************************)
EXTENDS Naturals, Sequences, SequencesExt, FiniteSetsExt

CONSTANTS
  Names,     \* the sub-systems, attributes of the device
  Optional,  \* those that _async_setup() settles with read_optional()
  Polls,     \* callers of async_poll() and async_read_raw()
  NameLists, \* the tuples of names a library polls
  MaxCalls,  \* bound: calls of one caller
  MaxErrors  \* bound: requests that fail

\* A device with nothing to settle has no setup to speak of.
ASSUME DeviceAssumption ==
  /\ Optional \subseteq Names /\ Optional # {}
  /\ NameLists \subseteq Seq(Names)

\* What an update may raise.  A refusal is an illegal address or function; only the
\* last is not a ModbusError: a SunSpec component's header has moved.
Errors == {"connection", "timeout", "refused", "other", "shift"}

VARIABLES
  serves,     \* the optional sub-systems the device has
  attached,   \* the attributes that hold a component, not None
  setupDone,  \* _setup_done
  poll,       \* per caller: its call in progress or its last one
  unheard,    \* per caller: the sub-systems it updated and has not told of
  steady,     \* per caller: the attributes that held a component all through its reads
  calls,      \* per caller: its calls so far
  errors      \* the requests that failed so far

vars == <<serves, attached, setupDone, poll, unheard, steady, calls, errors>>

NoReport == [updated |-> {}, failed |-> <<>>, answered |-> FALSE]
Idle == [at |-> "idle", raw |-> FALSE, names |-> <<>>, todo |-> <<>>, mine |-> <<>>,
         unsettled |-> {}, report |-> NoReport]
Over == {"idle", "returned", "raised", "crashed"}

Init ==
  /\ serves \in SUBSET Optional
  /\ attached = Names \ Optional
  /\ setupDone = FALSE
  /\ poll = [p \in Polls |-> Idle]
  /\ unheard = [p \in Polls |-> {}]
  /\ steady = [p \in Polls |-> {}]
  /\ calls = [p \in Polls |-> 0]
  /\ errors = 0

-----------------------------------------------------------------------------
\* Mutant: the first attribute that is None ends the poll.
PendingUpToNone(names, here) == IF names # <<>> /\ Head(names) \in here THEN names ELSE <<>>

\* The names from the first one on whose attribute holds a component.
Pending(names, here) ==
  LET found == {i \in DOMAIN names : names[i] \in here}
  IN IF found = {} THEN <<>> ELSE SubSeq(names, Min(found), Len(names))

\* Mutant: each sub-system's listeners are told as soon as it is read.
ProceedsTelling(p, c, here) ==
  LET todo == Pending(c.todo, here) IN
    /\ poll' = [poll EXCEPT ![p] =
         [c EXCEPT !.at = IF todo # <<>> THEN "reading" ELSE "returned", !.todo = todo]]
    /\ unheard' = [unheard EXCEPT ![p] = {}]

\* On to the next read; after the last one, and without another await, the listeners
\* are told, in the order of the reads.  A listener that raises, or a name that has
\* become None by then (an AttributeError), ends the call with the rest not told.
Proceeds(p, c, here) ==
  LET todo == Pending(c.todo, here)
      lost == {i \in DOMAIN c.mine : c.mine[i] \notin here}
      tell == IF lost = {} THEN Len(c.mine) ELSE Min(lost) - 1
  IN IF todo # <<>>
     THEN /\ poll' = [poll EXCEPT ![p] = [c EXCEPT !.at = "reading", !.todo = todo]]
          /\ unheard' = [unheard EXCEPT ![p] = Range(c.mine)]
     ELSE \E told \in 0 .. tell :
          /\ poll' = [poll EXCEPT ![p] =
               [c EXCEPT !.at = IF told = Len(c.mine) THEN "returned" ELSE "crashed",
                         !.todo = todo]]
          /\ unheard' = [unheard EXCEPT ![p] = Range(SubSeq(c.mine, told + 1, Len(c.mine)))]

Raises(p, c, err) ==
  /\ poll' = [poll EXCEPT ![p] = [c EXCEPT !.at = "raised", !.todo = <<err>>]]
  /\ UNCHANGED unheard

\* async_poll(names, report) and async_read_raw(names): setup first.  A caller may add
\* to the report of its last poll, also where that raised and the caller had given it.
Begin(p, names, raw, carry) ==
  LET c == [at |-> "setup", raw |-> raw, names |-> names, todo |-> names, mine |-> <<>>,
            unsettled |-> IF setupDone THEN {} ELSE Optional,
            report |-> IF carry THEN poll[p].report ELSE NoReport]
  IN /\ poll[p].at \in Over /\ calls[p] < MaxCalls
     /\ carry => poll[p].at # "idle" /\ ~raw /\ ~poll[p].raw
     /\ calls' = [calls EXCEPT ![p] = @ + 1]
     /\ IF setupDone THEN Proceeds(p, c, attached)
        ELSE /\ poll' = [poll EXCEPT ![p] = c]
             /\ unheard' = [unheard EXCEPT ![p] = {}]
     /\ UNCHANGED <<serves, attached, setupDone, errors>>

\* The subclass's _async_setup(): read_optional() per optional sub-system.  A refusal
\* settles that it is absent, even where the device is only not ready to serve it; any
\* other error ends the run, which is retried with what it has settled.
Settle(p, name) ==
  LET c == [poll[p] EXCEPT !.unsettled = @ \ {name}]
      Settled(there) ==
        /\ attached' = IF there THEN attached \cup {name} ELSE attached \ {name}
        /\ setupDone' = (setupDone \/ c.unsettled = {})
        /\ IF c.unsettled = {} THEN Proceeds(p, c, attached')
           ELSE poll' = [poll EXCEPT ![p] = c] /\ UNCHANGED unheard
  IN /\ poll[p].at = "setup" /\ name \in poll[p].unsettled
     /\ \/ Settled(name \in serves) /\ UNCHANGED errors
        \/ /\ errors < MaxErrors /\ errors' = errors + 1
           /\ \/ Settled(FALSE)
              \/ /\ \E err \in Errors \ {"refused"} : Raises(p, c, err)
                 /\ UNCHANGED <<attached, setupDone>>
     /\ UNCHANGED <<serves, calls>>

\* Mutant: only this poll's own reads are asked whether the device answers.
HandledByThisPoll(c, err) ==
  /\ ~c.raw /\ err \in Errors \ {"connection", "shift"}
  /\ err = "timeout" => c.mine # <<>>

\* A connection error ends the poll, a timeout does while nothing has answered; other
\* Modbus errors are put on record.  For a raw read, every error ends it.
Handled(c, err) ==
  /\ ~c.raw /\ err \in Errors \ {"connection", "shift"}
  /\ err = "timeout" => c.report.updated # {} \/ c.report.failed # <<>>

Record(c, name, err) ==
  [c EXCEPT !.todo = Tail(@),
            !.report.failed = [n \in DOMAIN @ \cup {name} |-> IF n = name THEN err ELSE @[n]],
            !.report.answered = @ \/ err # "timeout"]

Success(c, name) ==
  IF c.raw THEN [c EXCEPT !.todo = Tail(@)]
  ELSE [c EXCEPT !.todo = Tail(@), !.mine = Append(@, name),
                 !.report.updated = @ \cup {name}, !.report.answered = TRUE]

Read(p) ==
  LET c == poll[p]  name == Head(c.todo)
  IN /\ c.at = "reading"
     /\ \/ Proceeds(p, Success(c, name), attached) /\ UNCHANGED errors
        \/ /\ errors < MaxErrors /\ errors' = errors + 1
           /\ \E err \in Errors :
                IF Handled(c, err) THEN Proceeds(p, Record(c, name, err), attached)
                ELSE Raises(p, c, err)
     /\ UNCHANGED <<serves, attached, setupDone, calls>>

\* A setup that runs beside a poll may take attributes away, or bring them.
Settles ==
  steady' = [p \in Polls |-> IF poll[p].at = "reading" THEN steady[p] \cap attached'
                             ELSE IF poll'[p] # poll[p] THEN attached' ELSE steady[p]]

Next ==
  /\ \E p \in Polls :
       \/ \E names \in NameLists, raw, carry \in BOOLEAN : Begin(p, names, raw, carry)
       \/ \E name \in Optional : Settle(p, name)
       \/ Read(p)
  /\ Settles

Spec == Init /\ [][Next]_vars
-----------------------------------------------------------------------------
\* A caller can tell a dead link from a slow sub-system: a timeout is on record only
\* where something else has answered, earlier polls of the report included, and is
\* raised only where nothing has.
DeadLinkIsTold ==
  \A p \in Polls : LET c == poll[p] IN
    /\ "timeout" \in Range(c.report.failed) => c.report.answered
    /\ c.at = "raised" /\ c.todo = <<"timeout">> /\ ~c.raw => ~c.report.answered

\* Once a poll has returned, the listeners of everything it updated have been told; no
\* poll tells any of them before its last read is in.
UpdatesAreTold ==
  \A p \in Polls :
    /\ poll[p].at = "returned" => unheard[p] = {}
    /\ poll[p].at = "reading" => unheard[p] = Range(poll[p].mine)

\* A poll whose report is complete has refreshed every sub-system it was asked for
\* whose attribute held a component all along; a poll never reads one the device lacks.
CompleteMeansRefreshed ==
  \A p \in Polls : LET c == poll[p] IN
    /\ c.at = "reading" => Head(c.todo) \in (Names \ Optional) \cup serves
    /\ c.at = "returned" /\ ~c.raw /\ c.report.failed = <<>> =>
         Range(c.names) \cap steady[p] \subseteq c.report.updated
=============================================================================
