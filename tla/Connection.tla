----------------------------- MODULE Connection -----------------------------
(***************************************************************************)
(* The shared link of modbus_connection: BaseModbusConnection with its     *)
(* tmodbus and pymodbus backends, the pacing lock of Pacer and the request *)
(* wrapper _map_errors.                                                    *)
(*                                                                         *)
(* The program is asyncio code on one event loop, so a step of the model   *)
(* is the code one task runs between two suspension points.  Everything a  *)
(* task can do without suspending (take a free lock, find a finished       *)
(* flight, use a published client) happens inside the step.                *)
(***************************************************************************)
EXTENDS Naturals, SequencesExt

CONSTANTS
  Requests,       \* tasks that run a unit operation, or call connect()
  Owners,         \* tasks that call disconnect() or close()
  Recyclers,      \* background tasks of _require_timeout (bounds how many run)
  NoTask,
  Cancellable,    \* tasks their caller may cancel while they are suspended
  Units,          \* unit ids
  UnitOf,         \* the unit a request task addresses
  Clients,        \* identities of backend clients, reused once they are gone
  NoClient,
  Backend,        \* "tmodbus" or "pymodbus"
  Tls,            \* TRUE when building the client awaits an SSL context
  LateHook,       \* TRUE when the transport runs the hook of a client we tear
                  \* down after the call that closes it, FALSE when inside it
  Spaced,         \* TRUE when a request may have to wait out a message gap
  BaseDelay,      \* TRUE when the connection was given a connect delay
  DelayUnits,     \* the units whose integration asks for a connect delay
  TimeoutUnits,   \* the units whose integration asks for a timeout
  Timeouts,       \* the timeouts a unit may ask for
  BaseTimeout,    \* the timeout the connection was given, or NoTimeout
  DefaultTimeout, \* _DEFAULT_TIMEOUT
  NoTimeout

Tasks == Requests \cup Owners \cup Recyclers
TimeoutValues == Timeouts \cup ({BaseTimeout, DefaultTimeout} \ {NoTimeout})

ASSUME TasksAssumption ==
  /\ Requests \cap Owners = {}
  /\ (Requests \cup Owners) \cap Recyclers = {}
  /\ NoTask \notin Tasks
  /\ Cancellable \subseteq Requests \cup Owners
  /\ UnitOf \in [Requests -> Units]
ASSUME ClientsAssumption == NoClient \notin Clients
ASSUME VariantAssumption ==
  /\ Backend \in {"tmodbus", "pymodbus"}
  /\ {Tls, LateHook, Spaced, BaseDelay} \subseteq BOOLEAN
  /\ DelayUnits \subseteq Units /\ TimeoutUnits \subseteq Units
\* Every nonempty set of timeouts has a largest one: they are finitely many.
ASSUME TimeoutsAssumption ==
  /\ TimeoutValues \subseteq Nat
  /\ NoTimeout \notin TimeoutValues /\ DefaultTimeout # NoTimeout
  /\ \A S \in SUBSET TimeoutValues :
       S # {} => \E m \in S : \A s \in S : m >= s

VARIABLES
  closed,         \* _closed
  client,         \* _client: the published client, NoClient when the link is down
  cstate,         \* what has become of each client's transport
  hooks,          \* torn-down clients whose connection-lost hook may still run
  unitCache,      \* _unit_clients: the client each unit's cached client is bound to
  flight,         \* _connect_task: the shared connect attempt and how far it is
  flightClient,   \* the client the flight has built
  unitTimeouts,   \* _unit_timeouts
  unitDelays,     \* _unit_connect_delays: the units asking for a positive delay
  clientTimeout,  \* _client_timeout
  carried,        \* the timeout the client built last was given
  holder,         \* the task that has the pacer's lock
  waiters,        \* the lock's FIFO queue of waiting tasks
  pc,             \* where each task is suspended
  using,          \* the client a task is sending on or closing
  woken           \* outcome of the flight a suspended task was woken with

lockVars     == <<holder, waiters>>
linkVars     == <<closed, client, cstate, hooks, unitCache>>
flightVars   == <<flight, flightClient, clientTimeout, carried>>
requireVars  == <<unitTimeouts, unitDelays>>
taskVars     == <<pc, using, woken>>
vars == <<lockVars, linkVars, flightVars, requireVars, taskVars>>

InFlight == {"new", "ssl", "opening", "delay", "disposing"}
Landed   == {"ok", "fail"}
FlightStages == {"none"} \cup InFlight \cup Landed

\* Where a task may be suspended.  A teardown goes through the d-stages; dCut
\* is the teardown that stopped waiting and closes without the lock.
Joining  == {"eager", "join1", "join2", "dJoin"}
Queueing == {"queued", "dQueue"}
Holding  == {"gap", "join2", "wire", "dClose"}
PCs == {"idle", "dStart", "dCut"} \cup Joining \cup Queueing \cup Holding

ClientStates == {"gone", "opening", "open", "desync", "closing"}
Up(state) == state \in {"open", "desync"}

-----------------------------------------------------------------------------
(* The requirements the units put on the link.                             *)

\* Mutant of Resolved: the default is forgotten when nothing was asked.
ResolvedWithoutDefault(base, required, default) ==
  LET asked == ({required[u] : u \in Units} \cup {base}) \ {NoTimeout}
  IN  IF asked = {} THEN base ELSE Max(asked)

\* The largest value asked for, or the default when nothing was asked.
Resolved(base, required, default) ==
  LET asked == ({required[u] : u \in Units} \cup {base}) \ {NoTimeout}
  IN  IF asked = {} THEN default ELSE Max(asked)

Timeout == Resolved(BaseTimeout, unitTimeouts, DefaultTimeout)
ConnectDelay == BaseDelay \/ unitDelays # {}

-----------------------------------------------------------------------------
Init ==
  /\ closed = FALSE
  /\ client = NoClient
  /\ cstate = [c \in Clients |-> "gone"]
  /\ hooks = {}
  /\ unitCache = [u \in Units |-> NoClient]
  /\ flight = "none"
  /\ flightClient = NoClient
  /\ unitTimeouts = [u \in Units |-> NoTimeout]
  /\ unitDelays = {}
  /\ clientTimeout = Resolved(BaseTimeout, [u \in Units |-> NoTimeout], DefaultTimeout)
  /\ carried = clientTimeout
  /\ holder = NoTask
  /\ waiters = <<>>
  /\ pc = [t \in Tasks |-> "idle"]
  /\ using = [t \in Tasks |-> NoClient]
  /\ woken = [t \in Tasks |-> "none"]

\* Task t suspends at, or returns through, the given point.
Goes(t, to) == pc' = [pc EXCEPT ![t] = to]

\* Mutant of ClearUnitCache: the cached unit clients outlive their client.
KeepUnitCache == UNCHANGED unitCache

\* Only tmodbus keeps unit-bound clients; both the hook and the teardown drop them.
ClearUnitCache == unitCache' = [u \in Units |-> NoClient]

-----------------------------------------------------------------------------
(* A request: connect, take the lock, wait out the gap, connect again, and *)
(* put the operation on the wire.                                          *)

\* connect() with no client: start the flight or share the one under way.
JoinFlight(t, at) ==
  /\ flight \notin Landed
  /\ flight' = IF flight = "none" THEN "new" ELSE flight
  /\ Goes(t, at)

\* The client a unit sends on: its cached unit client, else the published one.
UnitClient(u) ==
  IF Backend = "tmodbus" /\ unitCache[u] # NoClient THEN unitCache[u] ELSE client

OnWire(t) ==
  /\ client # NoClient
  /\ holder' = t
  /\ Goes(t, "wire")
  /\ using' = [using EXCEPT ![t] = UnitClient(UnitOf[t])]
  /\ unitCache' = IF Backend = "tmodbus"
                  THEN [unitCache EXCEPT ![UnitOf[t]] = UnitClient(UnitOf[t])]
                  ELSE unitCache

\* Mutant of FailsWithLock: the error path leaves the lock taken.
FailsKeepingLock(t) ==
  /\ holder' = t
  /\ Goes(t, "idle")
  /\ UNCHANGED <<using, unitCache>>

\* The operation fails before it reaches the wire and releases the lock.
FailsWithLock(t) ==
  /\ holder' = NoTask
  /\ Goes(t, "idle")
  /\ UNCHANGED <<using, unitCache>>

\* Mutant of ConnectHolding: connect() no longer looks at _closed.
ConnectHoldingUnchecked(t) ==
  \/ /\ client = NoClient /\ flight \in Landed
     /\ FailsWithLock(t)
     /\ UNCHANGED flight
  \/ /\ OnWire(t)
     /\ UNCHANGED flight
  \/ /\ client = NoClient
     /\ holder' = t
     /\ JoinFlight(t, "join2")
     /\ UNCHANGED <<using, unitCache>>

\* The connect() inside the lock, and the operation if the link is up.  A flight
\* that has landed but is not cleared yet answers at once: with its failure, or
\* with success and no client any more ("connection is not established").
ConnectHolding(t) ==
  \/ /\ closed \/ (client = NoClient /\ flight \in Landed)
     /\ FailsWithLock(t)
     /\ UNCHANGED flight
  \/ /\ ~closed
     /\ OnWire(t)
     /\ UNCHANGED flight
  \/ /\ ~closed /\ client = NoClient
     /\ holder' = t
     /\ JoinFlight(t, "join2")
     /\ UNCHANGED <<using, unitCache>>

\* paced() once the lock is taken.
Paced(t) ==
  \/ /\ Spaced
     /\ holder' = t
     /\ Goes(t, "gap")
     /\ UNCHANGED <<using, unitCache, flight>>
  \/ ConnectHolding(t)

\* paced(): a free lock nobody waits for is taken without suspending.
EnterPaced(t) ==
  \/ /\ holder = NoTask /\ waiters = <<>>
     /\ Paced(t)
     /\ UNCHANGED waiters
  \/ /\ holder # NoTask \/ waiters # <<>>
     /\ waiters' = Append(waiters, t)
     /\ Goes(t, "queued")
     /\ UNCHANGED <<holder, using, unitCache, flight>>

\* A unit operation starts.  On a closed connection it raises and changes nothing.
Request(t) ==
  /\ t \in Requests /\ pc[t] = "idle"
  /\ \/ /\ closed \/ (client = NoClient /\ flight = "fail")
        /\ UNCHANGED <<lockVars, unitCache, flight, pc, using>>
     \/ /\ ~closed
        /\ client # NoClient \/ flight = "ok"
        /\ EnterPaced(t)
     \/ /\ ~closed /\ client = NoClient
        /\ JoinFlight(t, "join1")
        /\ UNCHANGED <<lockVars, unitCache, using>>
  /\ UNCHANGED <<closed, client, cstate, hooks, flightClient,
                 clientTimeout, carried, requireVars, woken>>

\* A caller connects eagerly.
Connect(t) ==
  /\ t \in Requests /\ pc[t] = "idle"
  /\ ~closed /\ client = NoClient
  /\ JoinFlight(t, "eager")
  /\ UNCHANGED <<lockVars, linkVars, flightClient, clientTimeout, carried,
                 requireVars, using, woken>>

\* A task waiting for the flight resumes with the flight's outcome.
JoinResumes(t) ==
  /\ t \in Requests /\ woken[t] # "none"
  /\ woken' = [woken EXCEPT ![t] = "none"]
  /\ \/ /\ pc[t] = "eager" \/ (pc[t] = "join1" /\ woken[t] = "fail")
        /\ Goes(t, "idle")
        /\ UNCHANGED <<lockVars, unitCache, flight, using>>
     \/ /\ pc[t] = "join1" /\ woken[t] = "ok"
        /\ EnterPaced(t)
     \/ /\ pc[t] = "join2" /\ (woken[t] = "fail" \/ client = NoClient)
        /\ FailsWithLock(t)
        /\ UNCHANGED <<waiters, flight>>
     \/ /\ pc[t] = "join2" /\ woken[t] = "ok"
        /\ OnWire(t)
        /\ UNCHANGED <<waiters, flight>>
  /\ UNCHANGED <<closed, client, cstate, hooks, flightClient,
                 clientTimeout, carried, requireVars>>

\* The lock was released and t is first in its queue: t has been woken.
Granted(t) == holder = NoTask /\ waiters # <<>> /\ Head(waiters) = t

LockResumes(t) ==
  /\ t \in Requests /\ pc[t] = "queued" /\ Granted(t)
  /\ waiters' = Tail(waiters)
  /\ Paced(t)
  /\ UNCHANGED <<closed, client, cstate, hooks, flightClient,
                 clientTimeout, carried, requireVars, woken>>

GapEnds(t) ==
  /\ t \in Requests /\ pc[t] = "gap"
  /\ ConnectHolding(t)
  /\ UNCHANGED <<waiters, closed, client, cstate, hooks,
                 flightClient, clientTimeout, carried, requireVars, woken>>

\* The operation is over: a reply, an error, the client's timeout, or a cut link.
WireEnds(t) ==
  /\ pc[t] = "wire"
  /\ holder' = NoTask
  /\ Goes(t, "idle")
  /\ using' = [using EXCEPT ![t] = NoClient]
  /\ UNCHANGED <<waiters, linkVars, flightVars, requireVars, woken>>

-----------------------------------------------------------------------------
(* disconnect(), close() and the teardown of a desynced or recycled link.  *)

\* Starting to close a client: tmodbus awaits the transport, pymodbus does not,
\* and there is nothing to wait for when the transport is already gone.
Closing(cs, c) ==
  [cs EXCEPT ![c] = IF Backend = "tmodbus" /\ Up(@) THEN "closing" ELSE "gone"]

\* Unpublish the client and start closing it: a hook that runs inside the closing
\* call finds no client and returns, a later one is still to run.
CloseClient(cs) ==
  /\ client' = NoClient
  /\ ClearUnitCache
  /\ cstate' = Closing(cs, client)
  /\ hooks' = IF LateHook /\ Up(cs[client]) THEN hooks \cup {client} ELSE hooks

\* The body of disconnect() under exclusive(): locked says whether the lock was
\* taken or the grace ran out.  cs is what is known of the clients.
TearDown(t, cs, locked) ==
  LET after == IF locked THEN NoTask ELSE holder
  IN  \/ /\ client = NoClient
         /\ cstate' = cs
         /\ holder' = after
         /\ Goes(t, "idle")
         /\ using' = [using EXCEPT ![t] = NoClient]
         /\ UNCHANGED <<client, hooks, unitCache>>
      \/ /\ client # NoClient /\ Backend = "tmodbus"
         /\ CloseClient(cs)
         /\ holder' = IF locked THEN t ELSE holder
         /\ Goes(t, IF locked THEN "dClose" ELSE "dCut")
         /\ using' = [using EXCEPT ![t] = client]
      \/ /\ client # NoClient /\ Backend = "pymodbus"
         /\ CloseClient(cs)
         /\ holder' = after
         /\ Goes(t, "idle")
         /\ using' = [using EXCEPT ![t] = NoClient]

\* Mutant of Exclusive: the teardown does not wait for the request in flight.
ExclusiveWithoutLock(t, held, cs) ==
  /\ TearDown(t, cs, held = NoTask)
  /\ UNCHANGED waiters

\* exclusive(): held is who has the lock once t has let go of it.
Exclusive(t, held, cs) ==
  \/ /\ held = NoTask /\ waiters = <<>>
     /\ TearDown(t, cs, TRUE)
     /\ UNCHANGED waiters
  \/ /\ held # NoTask \/ waiters # <<>>
     /\ waiters' = Append(waiters, t)
     /\ holder' = held
     /\ cstate' = cs
     /\ Goes(t, "dQueue")
     /\ using' = [using EXCEPT ![t] = NoClient]
     /\ UNCHANGED <<client, hooks, unitCache>>

\* Mutant of StartDisconnect: the teardown does not wait a flight out.
StartDisconnectAtOnce(t, held, cs) == Exclusive(t, held, cs)

\* disconnect() up to its first suspension: wait a flight out, then the lock.
StartDisconnect(t, held, cs) ==
  \/ /\ flight \in InFlight
     /\ holder' = held
     /\ cstate' = cs
     /\ Goes(t, "dJoin")
     /\ using' = [using EXCEPT ![t] = NoClient]
     /\ UNCHANGED <<waiters, client, hooks, unitCache>>
  \/ /\ flight \notin InFlight
     /\ Exclusive(t, held, cs)

Disconnect(t) ==
  /\ t \in Owners /\ pc[t] = "idle"
  /\ StartDisconnect(t, holder, cstate)
  /\ UNCHANGED <<closed, flightVars, requireVars, woken>>

\* close() marks the connection closed before it drops the link.
Close(t) ==
  /\ t \in Owners /\ pc[t] = "idle"
  /\ closed' = TRUE
  /\ StartDisconnect(t, holder, cstate)
  /\ UNCHANGED <<flightVars, requireVars, woken>>

\* The background disconnect of a raised timeout gets its first turn.
RecyclerStarts(t) ==
  /\ pc[t] = "dStart"
  /\ StartDisconnect(t, holder, cstate)
  /\ UNCHANGED <<closed, flightVars, requireVars, woken>>

\* The reply answers another exchange: the request releases the lock and drops
\* the link before it raises.  Only tmodbus tells such replies apart.
WireDesyncs(t) ==
  /\ pc[t] = "wire" /\ Backend = "tmodbus" /\ Up(cstate[using[t]])
  /\ StartDisconnect(t, NoTask, [cstate EXCEPT ![using[t]] = "desync"])
  /\ UNCHANGED <<closed, flightVars, requireVars, woken>>

\* The flight the teardown waited for has landed; how it ended does not matter.
DJoinResumes(t) ==
  /\ pc[t] = "dJoin" /\ woken[t] # "none"
  /\ woken' = [woken EXCEPT ![t] = "none"]
  /\ Exclusive(t, holder, cstate)
  /\ UNCHANGED <<closed, flightVars, requireVars>>

DLockResumes(t) ==
  /\ pc[t] = "dQueue" /\ Granted(t)
  /\ waiters' = Tail(waiters)
  /\ TearDown(t, cstate, TRUE)
  /\ UNCHANGED <<closed, flightVars, requireVars, woken>>

\* t gives its place in the queue up.  If it had been woken, the next is woken.
LeavesQueue(t) ==
  \E i \in DOMAIN waiters : waiters[i] = t /\ waiters' = RemoveAt(waiters, i)

\* Mutants of GraceExpires: the way out after the timeout releases a lock it never
\* got, or the wait for the lock has no bound.
GraceExpiresReleasing(t) ==
  /\ pc[t] = "dQueue"
  /\ LeavesQueue(t)
  /\ TearDown(t, cstate, TRUE)
  /\ UNCHANGED <<closed, flightVars, requireVars, woken>>
GraceNeverExpires(t) == pc[t] = "dQueue" /\ FALSE

\* _TEARDOWN_GRACE is over, granted or not: tear down without the lock.
GraceExpires(t) ==
  /\ pc[t] = "dQueue"
  /\ LeavesQueue(t)
  /\ TearDown(t, cstate, FALSE)
  /\ UNCHANGED <<closed, flightVars, requireVars, woken>>

CloseReturns(t) ==
  /\ pc[t] \in {"dClose", "dCut"} /\ cstate[using[t]] # "closing"
  /\ holder' = IF pc[t] = "dClose" THEN NoTask ELSE holder
  /\ Goes(t, "idle")
  /\ using' = [using EXCEPT ![t] = NoClient]
  /\ UNCHANGED <<waiters, linkVars, flightVars, requireVars, woken>>

\* The caller cancels the task at the point where it is suspended.  A joined
\* flight is shielded and goes on, a client being closed goes on closing.
Cancel(t) ==
  /\ t \in Cancellable /\ pc[t] # "idle"
  /\ Goes(t, "idle")
  /\ using' = [using EXCEPT ![t] = NoClient]
  /\ woken' = [woken EXCEPT ![t] = "none"]
  /\ holder' = IF pc[t] \in Holding THEN NoTask ELSE holder
  /\ IF pc[t] \in Queueing THEN LeavesQueue(t) ELSE UNCHANGED waiters
  /\ UNCHANGED <<linkVars, flightVars, requireVars>>

-----------------------------------------------------------------------------
(* The flight: the single task that establishes a client.                  *)

\* An identity no part of the program refers to any more.
Fresh(c) ==
  /\ cstate[c] = "gone" /\ c \notin hooks
  /\ c # client /\ c # flightClient
  /\ \A t \in Tasks : using[t] # c

Build(seconds) ==
  \E c \in Clients :
    /\ Fresh(c)
    /\ cstate' = [cstate EXCEPT ![c] = "opening"]
    /\ flightClient' = c
    /\ carried' = seconds
    /\ flight' = "opening"

\* _do_connect() begins: record the timeout, then build the client or first
\* await the SSL context it needs.
FlightStarts ==
  /\ flight = "new"
  /\ clientTimeout' = Timeout
  /\ \/ /\ Tls
        /\ flight' = "ssl"
        /\ UNCHANGED <<cstate, flightClient, carried>>
     \/ /\ ~Tls
        /\ Build(Timeout)
  /\ UNCHANGED <<closed, client, hooks, unitCache, lockVars,
                 requireVars, taskVars>>

\* The timeout in the constructor call: pymodbus evaluates it after the SSL
\* context it awaits, tmodbus before.
BuiltWith == IF Backend = "pymodbus" THEN Timeout ELSE clientTimeout

FlightBuilds ==
  /\ flight = "ssl"
  /\ \/ /\ Build(BuiltWith)
     \/ /\ flight' = "fail"
        /\ UNCHANGED <<cstate, flightClient, carried>>
  /\ UNCHANGED <<closed, client, hooks, unitCache, clientTimeout,
                 lockVars, requireVars, taskVars>>

FlightFails ==
  /\ flight = "opening"
  /\ flight' = "fail"
  /\ cstate' = [cstate EXCEPT ![flightClient] = "gone"]
  /\ flightClient' = NoClient
  /\ UNCHANGED <<closed, client, hooks, unitCache, clientTimeout,
                 carried, lockVars, requireVars, taskVars>>

\* Mutants of Arrives: the late close() is not noticed, or the client it finds is
\* not disposed of.
ArrivesUnchecked(cs) ==
  /\ client' = flightClient
  /\ cstate' = cs
  /\ flight' = "ok"
  /\ flightClient' = NoClient
  /\ UNCHANGED unitCache
ArrivesUndisposed(cs) ==
  /\ cstate' = cs
  /\ client' = IF closed THEN client ELSE flightClient
  /\ flight' = IF closed THEN "fail" ELSE "ok"
  /\ flightClient' = NoClient
  /\ UNCHANGED unitCache

\* The end of _do_connect(): publish the client, or dispose of it when the
\* connection was closed meanwhile.  cs is what is known of the clients.
Arrives(cs) ==
  \/ /\ ~closed
     /\ client' = flightClient
     /\ cstate' = cs
     /\ flight' = "ok"
     /\ flightClient' = NoClient
     /\ UNCHANGED unitCache
  \/ /\ closed
     /\ cstate' = Closing(cs, flightClient)
     /\ ClearUnitCache
     /\ flight' = IF Backend = "tmodbus" THEN "disposing" ELSE "fail"
     /\ flightClient' = IF Backend = "tmodbus" THEN flightClient ELSE NoClient
     /\ UNCHANGED client

\* The transport is up; a connect delay is waited out before the client is used.
FlightOpens ==
  /\ flight = "opening"
  /\ LET cs == [cstate EXCEPT ![flightClient] = "open"] IN
     \/ /\ ConnectDelay
        /\ cstate' = cs
        /\ flight' = "delay"
        /\ UNCHANGED <<client, flightClient, unitCache>>
     \/ /\ ~ConnectDelay
        /\ Arrives(cs)
  /\ UNCHANGED <<closed, hooks, clientTimeout, carried, lockVars,
                 requireVars, taskVars>>

FlightDelayEnds ==
  /\ flight = "delay"
  /\ Arrives(cstate)
  /\ UNCHANGED <<closed, hooks, clientTimeout, carried, lockVars,
                 requireVars, taskVars>>

FlightDisposes ==
  /\ flight = "disposing" /\ cstate[flightClient] # "closing"
  /\ flight' = "fail"
  /\ flightClient' = NoClient
  /\ UNCHANGED <<linkVars, clientTimeout, carried, lockVars, requireVars, taskVars>>

\* The callbacks of the finished task: _connect_done clears the flight, then the
\* shields wake the callers that wait for it.
ConnectDone ==
  /\ flight \in Landed
  /\ flight' = "none"
  /\ woken' = [t \in Tasks |-> IF pc[t] \in Joining /\ woken[t] = "none"
                               THEN flight ELSE woken[t]]
  /\ UNCHANGED <<linkVars, flightClient, clientTimeout, carried, lockVars,
                 requireVars, pc, using>>

-----------------------------------------------------------------------------
(* The transport and its connection-lost hook (_on_connection_lost,        *)
(* _on_trace_connect).  The hook belongs to the connection, not the client.*)

\* A hook takes what it hears of for a loss, and fires the callbacks, unless the
\* connection is closed or has no client.
HookReports == ~closed /\ client # NoClient

\* Mutant of HookRuns: the hook tells the callbacks but keeps the dead client.
HookKeepsClient == UNCHANGED <<client, unitCache>>

HookRuns ==
  IF HookReports
  THEN client' = NoClient /\ ClearUnitCache
  ELSE UNCHANGED <<client, unitCache>>

TransportLost(c) ==
  /\ Up(cstate[c])
  /\ cstate' = [cstate EXCEPT ![c] = "gone"]
  /\ HookRuns
  /\ UNCHANGED <<closed, hooks, flightVars, lockVars, requireVars,
                 taskVars>>

TransportCloses(c) ==
  /\ cstate[c] = "closing"
  /\ cstate' = [cstate EXCEPT ![c] = "gone"]
  /\ UNCHANGED <<closed, client, hooks, unitCache, flightVars,
                 lockVars, requireVars, taskVars>>

\* The hook of a client we closed ourselves, driven by the loop later on.
TornDownHook(c) ==
  /\ c \in hooks
  /\ hooks' = hooks \ {c}
  /\ HookRuns
  /\ UNCHANGED <<closed, cstate, flightVars, lockVars, requireVars, taskVars>>

-----------------------------------------------------------------------------
(* require_timeout() and require_connect_delay() of a unit handle.         *)

\* Mutant of NeedsRecycle: a client still being established is overlooked.
NeedsRecycleIfLive(timeout) == timeout > clientTimeout /\ client # NoClient

\* Raising the timeout above what the client was built with drops the link.
NeedsRecycle(timeout) ==
  timeout > clientTimeout /\ (client # NoClient \/ flight # "none")

RequireTimeout(u, seconds) ==
  LET required == [unitTimeouts EXCEPT ![u] = seconds]
      timeout  == Resolved(BaseTimeout, required, DefaultTimeout)
  IN  /\ unitTimeouts' = required
      /\ \/ /\ ~NeedsRecycle(timeout)
            /\ UNCHANGED pc
         \/ /\ NeedsRecycle(timeout)
            /\ \E r \in Recyclers : pc[r] = "idle" /\ Goes(r, "dStart")
      /\ UNCHANGED <<lockVars, linkVars, flightVars, unitDelays, using, woken>>

RequireConnectDelay(u, positive) ==
  /\ unitDelays' = IF positive THEN unitDelays \cup {u} ELSE unitDelays \ {u}
  /\ UNCHANGED <<lockVars, linkVars, flightVars, unitTimeouts, taskVars>>

-----------------------------------------------------------------------------
\* What the loop runs for a task once the task has been started.
TaskStep(t) ==
  \/ JoinResumes(t) \/ LockResumes(t) \/ GapEnds(t) \/ WireEnds(t) \/ WireDesyncs(t)
  \/ RecyclerStarts(t) \/ DJoinResumes(t) \/ DLockResumes(t) \/ GraceExpires(t)
  \/ CloseReturns(t)

FlightStep == FlightStarts \/ FlightBuilds \/ FlightFails \/ FlightOpens
                \/ FlightDelayEnds \/ FlightDisposes \/ ConnectDone

CallerStep(t) == Request(t) \/ Connect(t) \/ Disconnect(t) \/ Close(t) \/ Cancel(t)

TransportStep(c) == TransportLost(c) \/ TransportCloses(c) \/ TornDownHook(c)

RequireStep ==
  \/ \E u \in TimeoutUnits, s \in Timeouts \cup {NoTimeout} : RequireTimeout(u, s)
  \/ \E u \in DelayUnits, positive \in BOOLEAN : RequireConnectDelay(u, positive)

Next ==
  \/ \E t \in Tasks : CallerStep(t) \/ TaskStep(t)
  \/ FlightStep
  \/ \E c \in Clients : TransportStep(c)
  \/ RequireStep

Spec == Init /\ [][Next]_vars

-----------------------------------------------------------------------------
TypeOK ==
  /\ closed \in BOOLEAN
  /\ client \in Clients \cup {NoClient}
  /\ cstate \in [Clients -> ClientStates]
  /\ hooks \subseteq Clients
  /\ unitCache \in [Units -> Clients \cup {NoClient}]
  /\ flight \in FlightStages
  /\ flightClient \in Clients \cup {NoClient}
  /\ unitTimeouts \in [Units -> Timeouts \cup {NoTimeout}]
  /\ unitDelays \subseteq Units
  /\ clientTimeout \in TimeoutValues
  /\ carried \in TimeoutValues
  /\ holder \in Tasks \cup {NoTask}
  /\ waiters \in Seq(Tasks)
  /\ pc \in [Tasks -> PCs]
  /\ using \in [Tasks -> Clients \cup {NoClient}]
  /\ woken \in [Tasks -> {"none"} \cup Landed]

\* Requests are serialized over the link: two requests are never on the wire
\* together, through teardowns that gave up waiting and through cancellations.
OneRequestOnWire ==
  \A t, u \in Requests : pc[t] = "wire" /\ pc[u] = "wire" => t = u

\* No transport is left open behind the connection's back: a client that is open
\* or opening is the published one or belongs to the flight.
NoLeakedClient ==
  \A c \in Clients : cstate[c] \in {"opening", "open", "desync"}
                       => c \in {client, flightClient}

\* `connected` is False after a drop: a published client has a live transport.
\* (A closed connection ignores the drop, its teardown takes the client.)
PublishedIsAlive ==
  client # NoClient /\ ~closed => Up(cstate[client])

\* A raised timeout drops a link that carries less: while the published client
\* was built with less than the units ask for, a recycle is on its way.
ShortTimeoutIsRecycled ==
  client # NoClient /\ carried < Timeout
    => \E r \in Recyclers : pc[r] \in {"dStart", "dJoin", "dQueue"}

\* disconnect() and close() never fire the connection-lost callbacks: the hook of a
\* client they tore down, whenever the loop gets to it, reports no loss.
TeardownNeverFires == [][\A c \in hooks \ hooks' : ~HookReports]_vars

\* A close() that was not cancelled leaves nothing behind once it returned: no
\* client, no flight, no open transport.
CloseLeavesNothing ==
  closed /\ (\A t \in Owners : pc[t] = "idle")
    => /\ client = NoClient
       /\ flight \notin InFlight
       /\ \A c \in Clients : cstate[c] \notin {"opening", "open", "desync"}

\* Closing is permanent: a closed connection publishes no client and starts no
\* connect attempt.
ClosedStaysDown ==
  [][closed => /\ closed'
               /\ client' \in {client, NoClient}
               /\ flight = "none" => flight' = "none"]_vars

EntersWire(t) == pc[t] # "wire" /\ pc'[t] = "wire"

\* On a closed connection no further request can start: the only one that still
\* reaches the wire was already told that the flight it waited for succeeded.
ClosedStartsNoRequest ==
  [][closed => \A t \in Requests : EntersWire(t) => woken[t] = "ok"]_vars

\* A request goes out over the client that is published, never over a unit
\* client cached against an earlier one.
RequestUsesPublishedClient ==
  [][\A t \in Requests : EntersWire(t) => using'[t] = client']_vars

\* A link that answered another exchange is not used again: the request that
\* goes next finds a fresh link.
FreshLinkAfterDesync ==
  [][\A t \in Requests : EntersWire(t) => cstate[using'[t]] # "desync"]_vars

\* disconnect() lets the request in flight finish: its client is taken away only
\* by a lost transport or by a teardown that had queued and waited its grace.
OnlyGraceCutsRequest ==
  [][\A t \in Requests :
       pc[t] = "wire" /\ pc'[t] = "wire" /\ using[t] = client /\ client' = NoClient
         => \/ pc' = pc /\ cstate'[client] = "gone"
            \/ \E d \in Tasks : pc[d] = "dQueue" /\ pc'[d] # "dQueue"]_vars

\* The connection implements the abstract link.
Promise == INSTANCE Link WITH
  shut   <- closed,
  up     <- (client # NoClient),
  onWire <- {t \in Requests : pc[t] = "wire"}
ImplementsLink == Promise!Spec

\* A teardown returns to its caller, even one that a request on a silent device is
\* in the way of; and so does every request, if what is on the wire ends.
TeardownsReturn == \A t \in Owners \cup Recyclers : (pc[t] # "idle") ~> (pc[t] = "idle")
WireEmpties == \A t \in Requests : (pc[t] = "wire") ~> (pc[t] # "wire")
RequestsReturn ==
  WireEmpties => \A t \in Requests : (pc[t] # "idle") ~> (pc[t] = "idle")

\* Task t goes on from where it is suspended.  No answer is assumed: a request on
\* the wire ends only once its client is gone.
Resumes(t) ==
  \/ JoinResumes(t) \/ LockResumes(t) \/ GapEnds(t)
  \/ RecyclerStarts(t) \/ DJoinResumes(t) \/ DLockResumes(t) \/ GraceExpires(t)
  \/ CloseReturns(t)
  \/ (pc[t] = "wire" => ~Up(cstate[using[t]])) /\ WireEnds(t)

\* The loop runs what is ready, timers fire, and the transport ends what it was
\* asked for: opening fails or succeeds, a close completes.
Fairness ==
  /\ \A t \in Tasks : WF_vars(Resumes(t))
  /\ WF_vars(FlightStep)
  /\ \A c \in Clients : WF_vars(TransportCloses(c))
FairSpec == Spec /\ Fairness
=============================================================================
