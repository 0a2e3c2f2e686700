----------------------- MODULE ConnectionTeardownProofs -----------------------
(* Teardowns: what disconnect(), close() and the recycle of a short timeout *)
(* see through, what they cut, and what they leave behind; and that the     *)
(* client that is published has a live transport.                           *)
EXTENDS ConnectionProofs

-----------------------------------------------------------------------------
(* Whom a step moves.                                                      *)

Stays(u) == pc'[u] = pc[u] /\ using'[u] = using[u] /\ woken'[u] = woken[u]

OnlyMoves(t) == \A u \in Tasks \ {t} : pc'[u] = pc[u] /\ using'[u] = using[u]

LEMMA PacedOnly ==
  ASSUME TypeOK, NEW t \in Requests, Paced(t) \/ ConnectHolding(t)
  PROVE  OnlyMoves(t)
BY DEF Paced, ConnectHolding, FailsWithLock, OnWire, JoinFlight, Goes, OnlyMoves,
   TypeOK, Tasks

LEMMA EnterPacedOnly ==
  ASSUME TypeOK, NEW t \in Requests, EnterPaced(t)
  PROVE  OnlyMoves(t)
BY PacedOnly DEF EnterPaced, Goes, OnlyMoves, TypeOK, Tasks

LEMMA TearDownOnly ==
  ASSUME TypeOK, NEW t \in Tasks, NEW cs, NEW locked \in BOOLEAN, TearDown(t, cs, locked)
  PROVE  OnlyMoves(t)
BY DEF TearDown, Goes, OnlyMoves, TypeOK

LEMMA StartDisconnectOnly ==
  ASSUME TypeOK, NEW t \in Tasks, NEW held, NEW cs,
         Exclusive(t, held, cs) \/ StartDisconnect(t, held, cs)
  PROVE  OnlyMoves(t)
BY TearDownOnly DEF StartDisconnect, Exclusive, Goes, OnlyMoves, TypeOK

\* A step of a task moves nobody else.
LEMMA OthersStay ==
  ASSUME TypeOK, NEW t \in Tasks, CallerStep(t) \/ TaskStep(t), NEW u \in Tasks \ {t}
  PROVE  Stays(u)
<1> USE DEF Stays
<1>1. CASE Request(t) \/ Connect(t)
  BY <1>1, EnterPacedOnly
  DEF Request, Connect, JoinFlight, Goes, OnlyMoves, TypeOK, Tasks
<1>2. CASE JoinResumes(t)
  BY <1>2, EnterPacedOnly
  DEF JoinResumes, FailsWithLock, OnWire, Goes, OnlyMoves, TypeOK, Tasks
<1>3. CASE LockResumes(t) \/ GapEnds(t)
  BY <1>3, PacedOnly DEF LockResumes, GapEnds, OnlyMoves
<1>4. CASE WireEnds(t) \/ CloseReturns(t) \/ Cancel(t)
  BY <1>4 DEF WireEnds, CloseReturns, Cancel, Goes, TypeOK
<1>5. CASE WireDesyncs(t) \/ RecyclerStarts(t) \/ Disconnect(t) \/ Close(t) \/ DJoinResumes(t)
  BY <1>5, StartDisconnectOnly
  DEF WireDesyncs, RecyclerStarts, Disconnect, Close, DJoinResumes, OnlyMoves, TypeOK
<1>6. CASE DLockResumes(t) \/ GraceExpires(t)
  BY <1>6, TearDownOnly DEF DLockResumes, GraceExpires, OnlyMoves
<1>7. QED BY <1>1, <1>2, <1>3, <1>4, <1>5, <1>6 DEF CallerStep, TaskStep

\* Only a raised timeout moves a task without that task's doing: an idle recycler.
LEMMA RequireMoves ==
  ASSUME TypeOK, RequireStep
  PROVE  /\ UNCHANGED <<closed, client, flight, using, woken>>
         /\ \A u \in Tasks : pc'[u] = pc[u] \/ (pc[u] = "idle" /\ pc'[u] = "dStart")
BY DEF RequireStep, RequireTimeout, RequireConnectDelay, Goes, taskVars, linkVars,
   flightVars, TypeOK, Tasks

\* Nobody keeps the outcome of a flight it is not waiting for.
WokenInv == \A t \in Tasks : woken[t] # "none" => pc[t] \in Joining

LEMMA TaskForgets ==
  ASSUME TypeOK, WokenInv, NEW t \in Tasks, CallerStep(t) \/ TaskStep(t)
  PROVE  woken'[t] = "none"
<1>1. CASE JoinResumes(t) \/ DJoinResumes(t) \/ Cancel(t)
  BY <1>1 DEF JoinResumes, DJoinResumes, Cancel, TypeOK
<1>2. CASE ~(JoinResumes(t) \/ DJoinResumes(t) \/ Cancel(t))
  BY <1>2 DEF CallerStep, TaskStep, Request, Connect, LockResumes, GapEnds, WireEnds,
     WireDesyncs, RecyclerStarts, Disconnect, Close, DLockResumes, GraceExpires,
     CloseReturns, WokenInv, Joining
<1>3. QED BY <1>1, <1>2

LEMMA NextWokenInv == TypeOK /\ WokenInv /\ [Next]_vars => WokenInv'
<1> SUFFICES ASSUME TypeOK, WokenInv, [Next]_vars, NEW u \in Tasks, woken'[u] # "none"
             PROVE  pc'[u] \in Joining
  BY DEF WokenInv
<1>1. ASSUME NEW t \in Tasks, CallerStep(t) \/ TaskStep(t) PROVE pc'[u] \in Joining
  BY <1>1, TaskForgets, OthersStay DEF WokenInv, Stays
<1>2. CASE FlightStep
  BY <1>2 DEF FlightStep, FlightStarts, FlightBuilds, FlightFails, FlightOpens,
     FlightDelayEnds, FlightDisposes, ConnectDone, taskVars, WokenInv, TypeOK
<1>3. CASE RequireStep
  BY <1>3, RequireMoves DEF WokenInv, Joining
<1>4. CASE UNCHANGED vars \/ \E c \in Clients : TransportStep(c)
  BY <1>4 DEF TransportStep, TransportLost, TransportCloses, TornDownHook, taskVars,
     vars, WokenInv
<1>5. QED BY <1>1, <1>2, <1>3, <1>4 DEF Next

\* A request on the wire has a client, and keeps it until it leaves the wire.
WireInv == \A t \in Requests : pc[t] = "wire" => using[t] # NoClient

LEMMA WireKeepsClient ==
  ASSUME TypeOK, [Next]_vars, NEW t \in Requests, pc[t] = "wire", pc'[t] = "wire"
  PROVE  using'[t] = using[t]
<1>0. t \in Tasks
  BY DEF Tasks
<1>1. CASE CallerStep(t) \/ TaskStep(t)
  <2>1. WireEnds(t) \/ WireDesyncs(t) \/ Cancel(t)
    BY <1>1 DEF CallerStep, TaskStep, Request, Connect, JoinResumes, LockResumes, GapEnds,
       RecyclerStarts, Disconnect, Close, DJoinResumes, DLockResumes, GraceExpires,
       CloseReturns, Joining
  <2>2. CASE WireDesyncs(t)
    <3>1. \E cs : TeardownEffect(t, cs)
      BY <1>0, <2>2, TeardownSteps
    <3>2. QED BY <1>0, <3>1 DEF TeardownEffect, TeardownPlaces, Goes, TypeOK
  <2>3. QED BY <1>0, <2>1, <2>2 DEF WireEnds, Cancel, Goes, TypeOK
<1>2. ASSUME NEW u \in Tasks \ {t}, CallerStep(u) \/ TaskStep(u) PROVE using'[t] = using[t]
  BY <1>0, <1>2, OthersStay DEF Stays
<1>3. CASE FlightStep \/ \E c \in Clients : TransportStep(c)
  BY <1>3 DEF FlightStep, FlightStarts, FlightBuilds, FlightFails, FlightOpens,
     FlightDelayEnds, FlightDisposes, ConnectDone, TransportStep, TransportLost,
     TransportCloses, TornDownHook, taskVars
<1>4. CASE RequireStep \/ UNCHANGED vars
  BY <1>4, RequireMoves DEF vars, taskVars
<1>5. QED BY <1>1, <1>2, <1>3, <1>4 DEF Next

LEMMA NextWireInv == ClientInv /\ WireInv /\ [Next]_vars => WireInv'
<1> SUFFICES ASSUME ClientInv, WireInv, [Next]_vars, NEW t \in Requests, pc'[t] = "wire"
             PROVE  using'[t] # NoClient
  BY DEF WireInv
<1>1. CASE pc[t] = "wire"
  BY <1>1, WireKeepsClient DEF WireInv, ClientInv
<1>2. CASE pc[t] # "wire"
  BY <1>2, EntersOnWire DEF EntersWire, OnWire, UnitClient, ClientInv, TypeOK, Tasks
<1>3. QED BY <1>1, <1>2

\* What the theorems rest on.
TaskInv == ClientInv /\ LockInv /\ WokenInv /\ WireInv

LEMMA TaskInvariant == Spec => []TaskInv
<1>1. Init => WokenInv /\ WireInv
  BY DEF Init, WokenInv, WireInv, Tasks
<1>2. TaskInv /\ [Next]_vars => WokenInv' /\ WireInv'
  BY NextWokenInv, NextWireInv DEF TaskInv, ClientInv
<1>3. ClientInv /\ LockInv /\ WokenInv /\ WireInv => TaskInv
  BY DEF TaskInv
<1>4. TaskInv => ClientInv /\ LockInv
  BY DEF TaskInv
<1>5. QED BY <1>1, <1>2, <1>3, ClientInvariant, LockInvariant, PTL DEF Spec

-----------------------------------------------------------------------------
(* What a teardown cuts.                                                   *)

\* A task takes the published client away when nobody has the lock, when it leaves
\* the wire itself, or when it has queued for the lock.
LEMMA TeardownCuts ==
  ASSUME TypeOK, NEW d \in Tasks, CallerStep(d) \/ TaskStep(d), client' # client
  PROVE  \/ holder = NoTask
         \/ pc[d] = "wire" /\ pc'[d] # "wire"
         \/ pc[d] = "dQueue" /\ pc'[d] # "dQueue"
<1>1. CASE Request(d) \/ Connect(d) \/ JoinResumes(d) \/ LockResumes(d) \/ GapEnds(d) \/ WireEnds(d)
  BY <1>1, RequestSteps DEF RequestEffect, Untouched
<1>2. CASE WireDesyncs(d)
  <2>1. pc[d] = "wire" /\ \E cs : TeardownEffect(d, cs)
    BY <1>2, TeardownSteps DEF WireDesyncs
  <2>2. QED BY <2>1 DEF TeardownEffect, TeardownPlaces, Goes, TypeOK
<1>3. CASE RecyclerStarts(d) \/ Disconnect(d) \/ Close(d) \/ DJoinResumes(d)
  BY <1>3 DEF RecyclerStarts, Disconnect, Close, DJoinResumes, StartDisconnect, Exclusive
<1>4. CASE DLockResumes(d)
  BY <1>4 DEF DLockResumes, Granted
<1>5. CASE GraceExpires(d)
  BY <1>5 DEF GraceExpires, TearDown, Goes, TypeOK
<1>6. CASE CloseReturns(d) \/ Cancel(d)
  BY <1>6 DEF CloseReturns, Cancel, linkVars
<1>7. QED BY <1>1, <1>2, <1>3, <1>4, <1>5, <1>6 DEF CallerStep, TaskStep

\* disconnect() lets the request in flight finish: with a backend that runs the
\* hook inside the closing call, the client of a request on the wire is taken away
\* only by the loss of its transport or by a teardown that queued for the lock.
THEOREM RequestsAreCutByGraceOnly == ASSUME ~LateHook PROVE Spec => OnlyGraceCutsRequest
<1> DEFINE Cut(t) == pc[t] = "wire" /\ pc'[t] = "wire" /\ using[t] = client /\ client' = NoClient
           Excused == \/ pc' = pc /\ cstate'[client] = "gone"
                      \/ \E d \in Tasks : pc[d] = "dQueue" /\ pc'[d] # "dQueue"
<1>1. TaskInv /\ [Next]_vars => [\A t \in Requests : Cut(t) => Excused]_vars
  <2>1. SUFFICES ASSUME TaskInv, [Next]_vars, NEW t \in Requests, Cut(t)
                 PROVE  Excused
    OBVIOUS
  <2>2. /\ TypeOK /\ t \in Tasks /\ holder = t
        /\ client # NoClient /\ client' # client
        /\ flight \notin InFlight /\ flightClient = NoClient
    BY <2>1 DEF TaskInv, ClientInv, LockInv, WireInv, Holding, Tasks, FlightInv, InFlight
  <2>3. ASSUME NEW d \in Tasks, CallerStep(d) \/ TaskStep(d) PROVE Excused
    <3>1. ~(pc[d] = "wire" /\ pc'[d] # "wire")
      BY <2>1, <2>2 DEF TaskInv, LockInv, Holding
    <3>2. QED BY <2>2, <2>3, <3>1, TeardownCuts, TasksAssumption
  <2>4. CASE FlightStep
    BY <2>2, <2>4 DEF FlightStep, FlightStarts, FlightBuilds, FlightFails, FlightOpens,
       FlightDelayEnds, FlightDisposes, ConnectDone, linkVars, InFlight
  <2>5. ASSUME NEW c \in Clients, TransportStep(c) PROVE Excused
    <3>1. TransportLost(c)
      BY <2>1, <2>2, <2>5
      DEF TransportStep, TransportCloses, TornDownHook, TaskInv, ClientInv, HooksInv
    <3>2. c \in {client, flightClient}
      BY <2>1, <3>1 DEF TransportLost, Up, TaskInv, ClientInv, NoLeakedClient
    <3>3. c = client /\ cstate'[c] = "gone" /\ pc' = pc
      BY <2>2, <3>1, <3>2, ClientsAssumption DEF TransportLost, taskVars, TypeOK
    <3>4. QED BY <3>3
  <2>6. CASE RequireStep \/ UNCHANGED vars
    BY <2>2, <2>6, RequireMoves DEF vars, linkVars
  <2>7. QED BY <2>1, <2>3, <2>4, <2>5, <2>6 DEF Next
<1>2. QED BY <1>1, TaskInvariant, PTL DEF Spec, OnlyGraceCutsRequest

-----------------------------------------------------------------------------
(* The client that is published.                                           *)

\* Without a connect delay no flight waits one out with its transport up.
DelayInv == unitDelays = {} /\ flight # "delay"

LEMMA NextDelayInv ==
  ASSUME ~BaseDelay, DelayUnits = {}, TypeOK, DelayInv, [Next]_vars
  PROVE  DelayInv'
<1>1. unitDelays' = {}
  <2>1. CASE RequireStep
    BY <2>1 DEF RequireStep, RequireTimeout, RequireConnectDelay, DelayInv
  <2>2. CASE FlightStep \/ \E c \in Clients : TransportStep(c)
    BY <2>2 DEF FlightStep, FlightStarts, FlightBuilds, FlightFails, FlightOpens,
       FlightDelayEnds, FlightDisposes, ConnectDone, TransportStep, TransportLost,
       TransportCloses, TornDownHook, requireVars, DelayInv
  <2>3. ASSUME NEW t \in Tasks, CallerStep(t) \/ TaskStep(t) PROVE unitDelays' = {}
    BY <2>3 DEF CallerStep, TaskStep, Request, Connect, Disconnect, Close, Cancel,
       JoinResumes, LockResumes, GapEnds, WireEnds, WireDesyncs, RecyclerStarts,
       DJoinResumes, DLockResumes, GraceExpires, CloseReturns, requireVars, DelayInv
  <2>4. QED BY <2>1, <2>2, <2>3 DEF Next, vars, requireVars, DelayInv
<1>2. flight' # "delay"
  <2>1. CASE FlightStep
    BY <2>1 DEF FlightStep, FlightStarts, FlightBuilds, Build, FlightFails, FlightOpens,
       FlightDelayEnds, FlightDisposes, ConnectDone, Arrives, ConnectDelay, DelayInv
  <2>2. CASE \E c \in Clients : TransportStep(c)
    BY <2>2 DEF TransportStep, TransportLost, TransportCloses, TornDownHook, flightVars,
       DelayInv
  <2>3. QED
    BY <2>1, <2>2, StepKinds DEF RequestEffect, TeardownEffect, Untouched, DelayInv
<1>3. QED BY <1>1, <1>2 DEF DelayInv

\* A connection that knows no connect delay publishes no dead client: `connected`
\* is False after a drop.
THEOREM PublishedClientsAreAlive ==
  ASSUME ~BaseDelay, DelayUnits = {}
  PROVE  Spec => []PublishedIsAlive
<1>1. Init => DelayInv /\ PublishedIsAlive
  BY DEF Init, DelayInv, PublishedIsAlive
<1>2. ASSUME ClientInv, DelayInv, PublishedIsAlive, [Next]_vars PROVE PublishedIsAlive'
  <2> SUFFICES ASSUME client' # NoClient, ~closed' PROVE Up(cstate'[client'])
    BY DEF PublishedIsAlive
  <2> USE DEF ClientInv
  <2>1. ASSUME NEW t \in Tasks, RequestEffect(t) PROVE Up(cstate'[client'])
    BY <1>2, <2>1 DEF RequestEffect, PublishedIsAlive
  <2>2. ASSUME NEW t \in Tasks, closed' \in {closed, TRUE},
               \/ TeardownEffect(t, cstate)
               \/ Up(cstate[using[t]]) /\ TeardownEffect(t, Desynced(t))
        PROVE  Up(cstate'[client'])
    <3>1. UNCHANGED client /\ (cstate' = cstate \/ cstate' = Desynced(t))
      BY <2>2 DEF TeardownEffect, CloseClient
    <3>2. ~closed
      BY <2>2
    <3>3. Up(cstate[client])
      BY <1>2, <3>1, <3>2 DEF PublishedIsAlive
    <3>4. QED BY <1>2, <3>1, <3>3 DEF Desynced, Up, TypeOK
  <2>3. CASE FlightStep
    <3>1. CASE FlightOpens
      BY <1>2, <3>1, ClientsAssumption
      DEF FlightOpens, Arrives, ConnectDelay, Up, FlightInv, InFlight, TypeOK
    <3>2. CASE ~FlightOpens
      <4>1. UNCHANGED client /\ ~closed
        BY <1>2, <2>3, <3>2
        DEF FlightStep, FlightStarts, FlightBuilds, FlightFails, FlightDelayEnds,
            FlightDisposes, ConnectDone, linkVars, DelayInv
      <4>2. flight \notin InFlight
        BY <1>2, <4>1 DEF FlightInv
      <4>3. UNCHANGED cstate
        BY <2>3, <3>2, <4>2
        DEF FlightStep, FlightStarts, FlightBuilds, FlightFails, FlightDelayEnds,
            FlightDisposes, ConnectDone, linkVars, InFlight
      <4>4. QED BY <1>2, <4>1, <4>3 DEF PublishedIsAlive
    <3>3. QED BY <3>1, <3>2
  <2>4. ASSUME NEW c \in Clients, TransportStep(c) PROVE Up(cstate'[client'])
    <3>1. UNCHANGED <<closed, client>> /\ Up(cstate[client])
      BY <1>2, <2>4 DEF TransportStep, TransportLost, TransportCloses, TornDownHook,
         HookRuns, PublishedIsAlive
    <3>2. cstate' = cstate \/ (c # client /\ cstate' = [cstate EXCEPT ![c] = "gone"])
      BY <2>4, <3>1 DEF TransportStep, TransportLost, TransportCloses, TornDownHook,
         HookRuns, HookReports, Up
    <3>3. QED BY <1>2, <3>1, <3>2 DEF TypeOK
  <2>5. CASE UNCHANGED Untouched
    BY <1>2, <2>5 DEF Untouched, PublishedIsAlive
  <2>6. QED BY <1>2, <2>1, <2>2, <2>3, <2>4, <2>5, StepKinds
<1>3. TypeOK /\ DelayInv /\ [Next]_vars => DelayInv'
  BY NextDelayInv
<1>4. QED BY <1>1, <1>2, <1>3, ClientInvariant, TypeCorrect, PTL DEF Spec

-----------------------------------------------------------------------------
(* What a teardown sees through.  One that has been called waits for the    *)
(* flight in the air and then takes whatever client there is.               *)

\* Teardown d will still take the client: it is waiting for the lock with no flight
\* in the air, or for the flight that is.
Due(d) ==
  /\ pc[d] \in {"dJoin", "dQueue"}
  /\ flight \in InFlight => pc[d] = "dJoin" /\ woken[d] = "none"

\* The link is down, with nothing under way that could bring it up.
Down == client = NoClient /\ flight \notin InFlight

\* The flight of a caller that connects again.
FreshFlight == client = NoClient /\ flight = "new"

LEMMA ExclusiveDue ==
  ASSUME TypeOK, NEW d \in Tasks, NEW held, NEW cs, Exclusive(d, held, cs),
         UNCHANGED flight, flight \notin InFlight
  PROVE  Due(d)' \/ Down'
BY DEF Exclusive, TearDown, CloseClient, Goes, Due, Down, TypeOK

LEMMA StartDisconnectDue ==
  ASSUME TypeOK, NEW d \in Tasks, NEW held, NEW cs, StartDisconnect(d, held, cs),
         UNCHANGED flight, woken'[d] = "none"
  PROVE  Due(d)' \/ Down'
<1>1. CASE flight \in InFlight
  BY <1>1 DEF StartDisconnect, Goes, Due, TypeOK
<1>2. CASE flight \notin InFlight
  BY <1>2, ExclusiveDue DEF StartDisconnect
<1>3. QED BY <1>1, <1>2

\* A flight takes off only for a caller that finds the connection open and down.
LEMMA TakesOff ==
  ASSUME TypeOK, [Next]_vars, flight \notin InFlight, flight' \in InFlight
  PROVE  ~closed /\ flight = "none" /\ FreshFlight'
<1>1. ~FlightStep
  BY DEF FlightStep, FlightStarts, FlightBuilds, FlightFails, FlightOpens,
     FlightDelayEnds, FlightDisposes, ConnectDone, InFlight
<1>2. ~\E c \in Clients : TransportStep(c)
  BY DEF TransportStep, TransportLost, TransportCloses, TornDownHook, flightVars
<1>3. ~UNCHANGED Untouched
  BY DEF Untouched
<1>4. QED BY <1>1, <1>2, <1>3, StepKinds DEF RequestEffect, TeardownEffect, FreshFlight

\* A client is published only at the end of a flight, on an open connection.
LEMMA IsPublished ==
  ASSUME TypeOK, [Next]_vars, client' \notin {client, NoClient}
  PROVE  ~closed /\ flight \in {"opening", "delay"}
<1>1. ~\E c \in Clients : TransportStep(c)
  BY DEF TransportStep, TransportLost, TransportCloses, TornDownHook, HookRuns
<1>2. ~UNCHANGED Untouched
  BY DEF Untouched
<1>3. FlightStep
  BY <1>1, <1>2, StepKinds DEF RequestEffect, TeardownEffect, CloseClient
<1>4. QED
  BY <1>3 DEF FlightStep, FlightStarts, FlightBuilds, FlightFails, FlightOpens,
     FlightDelayEnds, FlightDisposes, ConnectDone, Arrives, linkVars

\* A teardown nobody can cancel stays due until the link is down.
LEMMA StaysDue ==
  ASSUME TypeOK, WokenInv, [Next]_vars,
         NEW d \in Tasks \ (Requests \cup Cancellable), Due(d)
  PROVE  Due(d)' \/ Down' \/ (~closed /\ FreshFlight')
<1>0. pc[d] \in {"dJoin", "dQueue"}
  BY DEF Due
<1>1. CASE CallerStep(d) \/ TaskStep(d)
  <2>1. DJoinResumes(d) \/ DLockResumes(d) \/ GraceExpires(d)
    BY <1>0, <1>1 DEF CallerStep, TaskStep, Request, Connect, Disconnect, Close, Cancel,
       JoinResumes, LockResumes, GapEnds, WireEnds, WireDesyncs, RecyclerStarts,
       CloseReturns
  <2>2. flight \notin InFlight /\ UNCHANGED flight
    BY <2>1 DEF DJoinResumes, DLockResumes, GraceExpires, Due, flightVars
  <2>3. CASE DJoinResumes(d)
    BY <2>2, <2>3, ExclusiveDue DEF DJoinResumes
  <2>4. CASE DLockResumes(d) \/ GraceExpires(d)
    BY <2>2, <2>4 DEF DLockResumes, GraceExpires, TearDown, CloseClient, Down
  <2>5. QED BY <2>1, <2>3, <2>4
<1>2. CASE ~(CallerStep(d) \/ TaskStep(d))
  <2>1. pc'[d] = pc[d]
    <3>1. ASSUME NEW u \in Tasks \ {d}, CallerStep(u) \/ TaskStep(u) PROVE pc'[d] = pc[d]
      BY <3>1, OthersStay DEF Stays
    <3>2. CASE FlightStep \/ \E c \in Clients : TransportStep(c)
      BY <3>2 DEF FlightStep, FlightStarts, FlightBuilds, FlightFails, FlightOpens,
         FlightDelayEnds, FlightDisposes, ConnectDone, TransportStep, TransportLost,
         TransportCloses, TornDownHook, taskVars
    <3>3. CASE RequireStep \/ UNCHANGED vars
      BY <1>0, <3>3, RequireMoves DEF vars, taskVars
    <3>4. QED BY <1>2, <3>1, <3>2, <3>3 DEF Next
  <2>2. woken'[d] = woken[d] \/ flight' \notin InFlight
    <3>1. ASSUME NEW u \in Tasks \ {d}, CallerStep(u) \/ TaskStep(u) PROVE woken'[d] = woken[d]
      BY <3>1, OthersStay DEF Stays
    <3>2. CASE ConnectDone
      BY <3>2 DEF ConnectDone, InFlight
    <3>3. CASE FlightStep \/ \E c \in Clients : TransportStep(c)
      BY <3>2, <3>3 DEF FlightStep, FlightStarts, FlightBuilds, FlightFails, FlightOpens,
         FlightDelayEnds, FlightDisposes, TransportStep, TransportLost,
         TransportCloses, TornDownHook, taskVars
    <3>4. CASE RequireStep \/ UNCHANGED vars
      BY <3>4, RequireMoves DEF vars, taskVars
    <3>5. QED BY <1>2, <3>1, <3>3, <3>4 DEF Next
  <2>3. CASE flight \notin InFlight /\ flight' \in InFlight
    BY <2>3, TakesOff
  <2>4. CASE flight \in InFlight \/ flight' \notin InFlight
    BY <1>0, <2>1, <2>2, <2>4 DEF Due
  <2>5. QED BY <2>3, <2>4
<1>3. QED BY <1>1, <1>2

-----------------------------------------------------------------------------
(* close().                                                                *)

\* A closed connection is down, or one of the owners is about to take it down.
CloseInv == closed => Down \/ \E o \in Owners : Due(o)

LEMMA NextCloseInv ==
  ASSUME Cancellable \cap Owners = {}, TaskInv, CloseInv, [Next]_vars, closed'
  PROVE  Down' \/ \E o \in Owners : Due(o)'
<1>0. TypeOK /\ WokenInv /\ Owners \subseteq Tasks \ (Requests \cup Cancellable)
  BY TasksAssumption DEF TaskInv, ClientInv, Tasks
<1>1. CASE closed /\ Down
  <2>1. client' = NoClient
    BY <1>0, <1>1, IsPublished DEF Down
  <2>2. flight' \notin InFlight
    BY <1>0, <1>1, TakesOff DEF Down
  <2>3. QED BY <2>1, <2>2 DEF Down
<1>2. CASE closed /\ \E o \in Owners : Due(o)
  BY <1>0, <1>2, StaysDue
<1>3. CASE ~closed
  <2>1. PICK t \in Owners : Close(t)
    <3>1. ASSUME NEW t \in Tasks, CallerStep(t) \/ TaskStep(t) PROVE Close(t)
      BY <1>3, <3>1 DEF CallerStep, TaskStep, Request, Connect, Disconnect, Cancel,
         JoinResumes, LockResumes, GapEnds, WireEnds, WireDesyncs, RecyclerStarts,
         DJoinResumes, DLockResumes, GraceExpires, CloseReturns, linkVars
    <3>2. ~FlightStep
      BY <1>3 DEF FlightStep, FlightStarts, FlightBuilds, FlightFails, FlightOpens,
         FlightDelayEnds, FlightDisposes, ConnectDone, linkVars
    <3>3. ~\E c \in Clients : TransportStep(c)
      BY <1>3 DEF TransportStep, TransportLost, TransportCloses, TornDownHook
    <3>4. ~RequireStep /\ ~UNCHANGED vars
      BY <1>0, <1>3, RequireMoves DEF vars, linkVars
    <3>5. QED BY <3>1, <3>2, <3>3, <3>4 DEF Next, Close
  <2>2. t \in Tasks /\ StartDisconnect(t, holder, cstate) /\ UNCHANGED flight
    BY <2>1 DEF Close, flightVars, Tasks
  <2>3. woken'[t] = "none"
    BY <1>0, <2>1, <2>2, TaskForgets DEF CallerStep
  <2>4. QED BY <1>0, <2>2, <2>3, StartDisconnectDue
<1>4. QED BY <1>1, <1>2, <1>3 DEF CloseInv

\* When every close() has returned and none was cancelled, nothing is left: no
\* client, no flight, and no transport open.
THEOREM CloseLeavesNothingBehind ==
  ASSUME ~LateHook, Cancellable \cap Owners = {}
  PROVE  Spec => []CloseLeavesNothing
<1>1. Init => CloseInv
  BY DEF Init, CloseInv
<1>2. TaskInv /\ CloseInv /\ [Next]_vars => CloseInv'
  BY NextCloseInv DEF CloseInv
<1>3. TaskInv /\ CloseInv => CloseLeavesNothing
  <2>1. SUFFICES ASSUME TaskInv, CloseInv, closed, \A t \in Owners : pc[t] = "idle"
                 PROVE  Down /\ \A c \in Clients : cstate[c] \notin {"opening", "open", "desync"}
    BY DEF CloseLeavesNothing, Down
  <2>2. Down
    BY <2>1 DEF CloseInv, Due
  <2>3. flightClient = NoClient
    BY <2>1, <2>2 DEF Down, TaskInv, ClientInv, FlightInv, InFlight
  <2>4. QED
    BY <2>1, <2>2, <2>3, ClientsAssumption DEF Down, TaskInv, ClientInv, NoLeakedClient
<1>4. QED BY <1>1, <1>2, <1>3, TaskInvariant, PTL DEF Spec

-----------------------------------------------------------------------------
(* The recycle of a link that carries too short a timeout.                 *)

\* The constructor was given the timeout that is recorded.
CarriedInv ==
  /\ client # NoClient \/ flight \in {"opening", "delay"} => carried = clientTimeout
  /\ flight = "ssl" => Tls

LEMMA NextCarriedInv ==
  ASSUME Backend = "tmodbus" \/ ~Tls, ClientInv, CarriedInv, [Next]_vars
  PROVE  CarriedInv'
<1> USE DEF CarriedInv
<1>1. CASE FlightStarts
  <2>1. client' = NoClient
    BY <1>1 DEF FlightStarts, ClientInv, FlightInv, InFlight
  <2>2. QED BY <1>1, <2>1 DEF FlightStarts, Build
<1>2. CASE FlightBuilds
  <2>1. client' = NoClient
    BY <1>2 DEF FlightBuilds, ClientInv, FlightInv, InFlight
  <2>2. BuiltWith = clientTimeout
    BY <1>2 DEF FlightBuilds, BuiltWith
  <2>3. QED BY <1>2, <2>1, <2>2 DEF FlightBuilds, Build
<1>3. CASE ~FlightStarts /\ ~FlightBuilds
  <2>1. UNCHANGED <<carried, clientTimeout>>
    <3>1. CASE FlightStep \/ RequireStep \/ \E c \in Clients : TransportStep(c)
      BY <1>3, <3>1 DEF FlightStep, FlightFails, FlightOpens, FlightDelayEnds,
         FlightDisposes, ConnectDone, TransportStep, TransportLost, TransportCloses,
         TornDownHook, RequireStep, RequireTimeout, RequireConnectDelay, flightVars
    <3>2. ASSUME NEW t \in Tasks, CallerStep(t) \/ TaskStep(t)
          PROVE  UNCHANGED <<carried, clientTimeout>>
      BY <3>2 DEF CallerStep, TaskStep, Request, Connect, Disconnect, Close, Cancel,
         JoinResumes, LockResumes, GapEnds, WireEnds, WireDesyncs, RecyclerStarts,
         DJoinResumes, DLockResumes, GraceExpires, CloseReturns, flightVars
    <3>3. QED BY <3>1, <3>2 DEF Next, vars, flightVars
  <2>2. client' # NoClient => client # NoClient \/ flight \in {"opening", "delay"}
    BY IsPublished DEF ClientInv
  <2>3. /\ flight' \in {"opening", "delay"} => flight \in {"opening", "delay"}
        /\ flight' = "ssl" => flight = "ssl"
    <3>1. CASE FlightStep
      BY <1>3, <3>1 DEF FlightStep, FlightFails, FlightOpens, FlightDelayEnds,
         FlightDisposes, ConnectDone, Arrives
    <3>2. CASE \E c \in Clients : TransportStep(c)
      BY <3>2 DEF TransportStep, TransportLost, TransportCloses, TornDownHook, flightVars
    <3>3. QED
      BY <3>1, <3>2, StepKinds DEF RequestEffect, TeardownEffect, Untouched, ClientInv
  <2>4. QED BY <2>1, <2>2, <2>3
<1>4. QED BY <1>1, <1>2, <1>3

\* There is a client, or one that a flight builds with the timeout it recorded.
Built == client # NoClient \/ flight \in InFlight \ {"new"}

Recycling(r) == pc[r] = "dStart" \/ Due(r)

\* A client that is built with too little is on its way to be recycled.
RecycleInv == Built /\ clientTimeout < Timeout => \E r \in Recyclers : Recycling(r)

\* A recycle that has been started goes on until the link is down or built anew.
LEMMA StaysRecycling ==
  ASSUME TypeOK, WokenInv, [Next]_vars, Built', NEW r \in Recyclers, Recycling(r)
  PROVE  Recycling(r)'
<1>0. r \in Tasks \ (Requests \cup Cancellable)
  BY TasksAssumption DEF Tasks
<1>1. ~Down' /\ ~FreshFlight'
  BY DEF Down, FreshFlight, Built
<1>2. CASE Due(r)
  BY <1>0, <1>1, <1>2, StaysDue DEF Recycling
<1>3. CASE pc[r] = "dStart"
  <2>1. CASE CallerStep(r) \/ TaskStep(r)
    <3>1. RecyclerStarts(r)
      BY <1>0, <1>3, <2>1 DEF CallerStep, TaskStep, Request, Connect, Disconnect, Close,
         Cancel, JoinResumes, LockResumes, GapEnds, WireEnds, WireDesyncs, DJoinResumes,
         DLockResumes, GraceExpires, CloseReturns
    <3>2. StartDisconnect(r, holder, cstate) /\ UNCHANGED flight
      BY <3>1 DEF RecyclerStarts, flightVars
    <3>3. woken'[r] = "none"
      BY <1>0, <2>1, TaskForgets
    <3>4. QED BY <1>0, <1>1, <3>2, <3>3, StartDisconnectDue DEF Recycling
  <2>2. ASSUME NEW u \in Tasks \ {r}, CallerStep(u) \/ TaskStep(u) PROVE pc'[r] = pc[r]
    BY <1>0, <2>2, OthersStay DEF Stays
  <2>3. CASE FlightStep \/ \E c \in Clients : TransportStep(c)
    BY <1>3, <2>3 DEF FlightStep, FlightStarts, FlightBuilds, FlightFails, FlightOpens,
       FlightDelayEnds, FlightDisposes, ConnectDone, TransportStep, TransportLost,
       TransportCloses, TornDownHook, taskVars, Recycling
  <2>4. CASE RequireStep \/ UNCHANGED vars
    BY <1>0, <1>3, <2>4, RequireMoves DEF vars, taskVars, Recycling
  <2>5. QED BY <1>3, <2>1, <2>2, <2>3, <2>4 DEF Next, Recycling
<1>4. QED BY <1>2, <1>3 DEF Recycling

LEMMA NextRecycleInv ==
  ASSUME TaskInv, RecycleInv, [Next]_vars, Built', (clientTimeout < Timeout)'
  PROVE  \E r \in Recyclers : Recycling(r)'
<1>0. TypeOK /\ WokenInv
  BY DEF TaskInv, ClientInv
<1>1. CASE FlightStarts
  <2>1. clientTimeout' = Timeout /\ Timeout' = Timeout /\ Timeout \in Nat
    BY <1>0, <1>1, ResolvedType, TimeoutsAssumption
    DEF FlightStarts, requireVars, Timeout, TypeOK
  <2>2. QED BY <2>1
<1>2. CASE RequireStep
  <2>1. UNCHANGED <<client, flight, clientTimeout>> /\ Built
    BY <1>2 DEF RequireStep, RequireTimeout, RequireConnectDelay, linkVars, flightVars, Built
  <2>2. CASE UNCHANGED unitTimeouts
    BY <1>0, <2>1, <2>2, StaysRecycling DEF RecycleInv, Timeout
  <2>3. CASE \E u \in TimeoutUnits, s \in Timeouts \cup {NoTimeout} : RequireTimeout(u, s)
    <3>1. PICK u \in TimeoutUnits, s \in Timeouts \cup {NoTimeout} : RequireTimeout(u, s)
      BY <2>3
    <3>2. DEFINE required == [unitTimeouts EXCEPT ![u] = s]
                 timeout  == Resolved(BaseTimeout, required, DefaultTimeout)
    <3>3. unitTimeouts' = required
      BY <3>1 DEF RequireTimeout
    <3>4. Timeout' = timeout
      BY <3>3 DEF Timeout
    <3>5. timeout \in Nat /\ clientTimeout \in Nat
      <4>1. required \in [Units -> Timeouts \cup {NoTimeout}]
        BY <1>0 DEF TypeOK
      <4>2. QED BY <1>0, <4>1, ResolvedType, TimeoutsAssumption DEF TypeOK
    <3>6. NeedsRecycle(timeout)
      BY <2>1, <3>4, <3>5 DEF NeedsRecycle, Built, InFlight
    <3>7. \E r \in Recyclers : pc[r] = "idle" /\ Goes(r, "dStart")
      BY <3>1, <3>6 DEF RequireTimeout
    <3>8. QED BY <1>0, <3>7 DEF Goes, Recycling, TypeOK, Tasks
  <2>4. QED BY <1>2, <2>2, <2>3 DEF RequireStep, RequireConnectDelay
<1>3. CASE ~FlightStarts /\ ~RequireStep
  <2>1. UNCHANGED <<clientTimeout, unitTimeouts>>
    <3>1. CASE FlightStep \/ \E c \in Clients : TransportStep(c)
      BY <1>3, <3>1 DEF FlightStep, FlightBuilds, FlightFails, FlightOpens,
         FlightDelayEnds, FlightDisposes, ConnectDone, TransportStep, TransportLost,
         TransportCloses, TornDownHook, flightVars, requireVars
    <3>2. ASSUME NEW t \in Tasks, CallerStep(t) \/ TaskStep(t)
          PROVE  UNCHANGED <<clientTimeout, unitTimeouts>>
      BY <3>2 DEF CallerStep, TaskStep, Request, Connect, Disconnect, Close, Cancel,
         JoinResumes, LockResumes, GapEnds, WireEnds, WireDesyncs, RecyclerStarts,
         DJoinResumes, DLockResumes, GraceExpires, CloseReturns, flightVars, requireVars
    <3>3. QED BY <1>3, <3>1, <3>2 DEF Next, vars, flightVars, requireVars
  <2>2. clientTimeout < Timeout
    BY <2>1 DEF Timeout
  <2>3. Built
    <3>1. client' # NoClient => client # NoClient \/ flight \in {"opening", "delay"}
      BY <1>0, IsPublished
    <3>2. ASSUME flight' \in InFlight \ {"new"} PROVE flight \in InFlight \ {"new"}
      <4>1. flight \in InFlight
        BY <1>0, <3>2, TakesOff DEF FreshFlight
      <4>2. CASE FlightStep
        BY <1>3, <4>1, <4>2 DEF FlightStep, FlightBuilds, FlightFails, FlightOpens,
           FlightDelayEnds, FlightDisposes, ConnectDone, InFlight, Landed
      <4>3. CASE \E c \in Clients : TransportStep(c)
        BY <3>2, <4>3 DEF TransportStep, TransportLost, TransportCloses, TornDownHook,
           flightVars
      <4>4. QED
        BY <1>0, <3>2, <4>1, <4>2, <4>3, StepKinds
        DEF RequestEffect, TeardownEffect, Untouched
    <3>3. QED BY <3>1, <3>2 DEF Built, InFlight
  <2>4. QED BY <1>0, <2>2, <2>3, StaysRecycling DEF RecycleInv
<1>4. QED BY <1>1, <1>2, <1>3

\* A raised timeout drops a link that carries less, where the backend is given the
\* timeout the connection recorded (tmodbus, or no TLS): while the published client
\* was built with less than the units ask for, a recycle is on its way.
THEOREM ShortTimeoutsAreRecycled ==
  ASSUME Backend = "tmodbus" \/ ~Tls
  PROVE  Spec => []ShortTimeoutIsRecycled
<1>1. Init => CarriedInv /\ RecycleInv
  BY DEF Init, CarriedInv, RecycleInv, Built, InFlight
<1>2. ClientInv /\ CarriedInv /\ [Next]_vars => CarriedInv'
  BY NextCarriedInv
<1>3. TaskInv /\ RecycleInv /\ [Next]_vars => RecycleInv'
  BY NextRecycleInv DEF RecycleInv
<1>4. TaskInv => ClientInv
  BY DEF TaskInv
<1>5. CarriedInv /\ RecycleInv => ShortTimeoutIsRecycled
  BY DEF CarriedInv, RecycleInv, Built, Recycling, Due, ShortTimeoutIsRecycled
<1>6. QED BY <1>1, <1>2, <1>3, <1>4, <1>5, TaskInvariant, PTL DEF Spec

=============================================================================
