-------------------------- MODULE ConnectionProofs --------------------------
(* Theorems about Connection for every value of its constants.             *)
EXTENDS Connection, TLAPS

\* Leaving the middle of a queue yields a queue of the same tasks.
LEMMA RemoveAtType ==
  ASSUME NEW S, NEW q \in Seq(S), NEW i \in DOMAIN q
  PROVE  RemoveAt(q, i) \in Seq(S)
BY DEF RemoveAt

\* The timeout the units and the connection resolve to is one that somebody asked
\* for, or the default.
LEMMA ResolvedType ==
  ASSUME NEW required \in [Units -> Timeouts \cup {NoTimeout}]
  PROVE  Resolved(BaseTimeout, required, DefaultTimeout) \in TimeoutValues
<1> DEFINE asked == ({required[u] : u \in Units} \cup {BaseTimeout}) \ {NoTimeout}
<1>1. asked \subseteq TimeoutValues
  BY DEF TimeoutValues
<1>2. CASE asked = {}
  BY <1>2, TimeoutsAssumption DEF Resolved, TimeoutValues
<1>3. CASE asked # {}
  <2>1. PICK m \in asked : \A s \in asked : m >= s
    BY <1>1, <1>3, TimeoutsAssumption
  <2>2. Max(asked) \in asked
    BY <2>1 DEF Max
  <2>3. QED BY <1>1, <1>3, <2>2 DEF Resolved
<1>4. QED BY <1>2, <1>3

-----------------------------------------------------------------------------
(* Type correctness.  The helpers an action is built from come first: each *)
(* lemma says what the helper leaves in the variables it writes.           *)

LEMMA InitTypeOK == Init => TypeOK
<1> SUFFICES ASSUME Init PROVE TypeOK
  OBVIOUS
<1>1. clientTimeout \in TimeoutValues /\ carried \in TimeoutValues
  <2>1. [u \in Units |-> NoTimeout] \in [Units -> Timeouts \cup {NoTimeout}]
    OBVIOUS
  <2>2. Resolved(BaseTimeout, [u \in Units |-> NoTimeout], DefaultTimeout) \in TimeoutValues
    BY <2>1, ResolvedType
  <2>3. QED BY <2>2 DEF Init
<1>2. /\ closed \in BOOLEAN
      /\ client \in Clients \cup {NoClient}
      /\ cstate \in [Clients -> ClientStates]
      /\ hooks \subseteq Clients
      /\ unitCache \in [Units -> Clients \cup {NoClient}]
      /\ flight \in FlightStages
      /\ flightClient \in Clients \cup {NoClient}
  BY DEF Init, FlightStages, ClientStates
<1>3. /\ unitTimeouts \in [Units -> Timeouts \cup {NoTimeout}]
      /\ unitDelays \subseteq Units
      /\ holder \in Tasks \cup {NoTask}
  BY DEF Init
<1>4. waiters \in Seq(Tasks)
  BY DEF Init
<1>5. /\ pc \in [Tasks -> PCs]
      /\ using \in [Tasks -> Clients \cup {NoClient}]
      /\ woken \in [Tasks -> {"none"} \cup Landed]
  BY DEF Init, PCs
<1>6. QED BY <1>1, <1>2, <1>3, <1>4, <1>5 DEF TypeOK

\* Where a task goes is always a place a task can be.
LEMMA PacedType ==
  ASSUME TypeOK, NEW t \in Requests, Paced(t)
  PROVE  /\ holder' \in Tasks \cup {NoTask}
         /\ pc' \in [Tasks -> PCs]
         /\ using' \in [Tasks -> Clients \cup {NoClient}]
         /\ unitCache' \in [Units -> Clients \cup {NoClient}]
         /\ flight' \in FlightStages
BY TasksAssumption DEF Paced, ConnectHolding, FailsWithLock, OnWire, UnitClient,
   JoinFlight, Goes, TypeOK, PCs, Holding, Joining, FlightStages, InFlight, Tasks

LEMMA OnWireType ==
  ASSUME TypeOK, NEW t \in Requests, OnWire(t)
  PROVE  /\ holder' \in Tasks \cup {NoTask}
         /\ pc' \in [Tasks -> PCs]
         /\ using' \in [Tasks -> Clients \cup {NoClient}]
         /\ unitCache' \in [Units -> Clients \cup {NoClient}]
BY TasksAssumption DEF OnWire, UnitClient, Goes, TypeOK, PCs, Holding, Tasks

LEMMA EnterPacedType ==
  ASSUME TypeOK, NEW t \in Requests, EnterPaced(t)
  PROVE  /\ holder' \in Tasks \cup {NoTask}
         /\ waiters' \in Seq(Tasks)
         /\ pc' \in [Tasks -> PCs]
         /\ using' \in [Tasks -> Clients \cup {NoClient}]
         /\ unitCache' \in [Units -> Clients \cup {NoClient}]
         /\ flight' \in FlightStages
<1>1. CASE Paced(t) /\ UNCHANGED waiters
  BY <1>1, PacedType DEF TypeOK
<1>2. CASE /\ waiters' = Append(waiters, t)
           /\ Goes(t, "queued")
           /\ UNCHANGED <<holder, using, unitCache, flight>>
  BY <1>2 DEF TypeOK, Goes, PCs, Queueing, Tasks
<1>3. QED BY <1>1, <1>2 DEF EnterPaced

LEMMA ClosingType ==
  ASSUME NEW cs \in [Clients -> ClientStates], NEW c
  PROVE  Closing(cs, c) \in [Clients -> ClientStates]
BY DEF Closing, ClientStates

LEMMA TearDownType ==
  ASSUME TypeOK, NEW t \in Tasks, NEW cs \in [Clients -> ClientStates],
         NEW locked \in BOOLEAN, TearDown(t, cs, locked)
  PROVE  /\ client' \in Clients \cup {NoClient}
         /\ cstate' \in [Clients -> ClientStates]
         /\ hooks' \subseteq Clients
         /\ unitCache' \in [Units -> Clients \cup {NoClient}]
         /\ holder' \in Tasks \cup {NoTask}
         /\ pc' \in [Tasks -> PCs]
         /\ using' \in [Tasks -> Clients \cup {NoClient}]
<1> USE DEF TypeOK, Goes, PCs, Holding
<1>1. CASE client = NoClient
  BY <1>1 DEF TearDown
<1>2. CASE client # NoClient
  <2>1. client \in Clients
    BY <1>2
  <2>2. CloseClient(cs)
    BY <1>2 DEF TearDown
  <2>3. /\ client' \in Clients \cup {NoClient}
        /\ cstate' \in [Clients -> ClientStates]
        /\ hooks' \subseteq Clients
        /\ unitCache' \in [Units -> Clients \cup {NoClient}]
    BY <2>1, <2>2, ClosingType DEF CloseClient, ClearUnitCache
  <2>4. QED BY <1>2, <2>1, <2>3 DEF TearDown
<1>3. QED BY <1>1, <1>2

LEMMA ExclusiveType ==
  ASSUME TypeOK, NEW t \in Tasks, NEW held \in Tasks \cup {NoTask},
         NEW cs \in [Clients -> ClientStates], Exclusive(t, held, cs)
  PROVE  /\ client' \in Clients \cup {NoClient}
         /\ cstate' \in [Clients -> ClientStates]
         /\ hooks' \subseteq Clients
         /\ unitCache' \in [Units -> Clients \cup {NoClient}]
         /\ holder' \in Tasks \cup {NoTask}
         /\ waiters' \in Seq(Tasks)
         /\ pc' \in [Tasks -> PCs]
         /\ using' \in [Tasks -> Clients \cup {NoClient}]
<1>1. CASE TearDown(t, cs, TRUE) /\ UNCHANGED waiters
  BY <1>1, TearDownType DEF TypeOK
<1>2. CASE /\ waiters' = Append(waiters, t)
           /\ holder' = held
           /\ cstate' = cs
           /\ Goes(t, "dQueue")
           /\ using' = [using EXCEPT ![t] = NoClient]
           /\ UNCHANGED <<client, hooks, unitCache>>
  BY <1>2 DEF TypeOK, Goes, PCs, Queueing
<1>3. QED BY <1>1, <1>2 DEF Exclusive

LEMMA StartDisconnectType ==
  ASSUME TypeOK, NEW t \in Tasks, NEW held \in Tasks \cup {NoTask},
         NEW cs \in [Clients -> ClientStates], StartDisconnect(t, held, cs)
  PROVE  /\ client' \in Clients \cup {NoClient}
         /\ cstate' \in [Clients -> ClientStates]
         /\ hooks' \subseteq Clients
         /\ unitCache' \in [Units -> Clients \cup {NoClient}]
         /\ holder' \in Tasks \cup {NoTask}
         /\ waiters' \in Seq(Tasks)
         /\ pc' \in [Tasks -> PCs]
         /\ using' \in [Tasks -> Clients \cup {NoClient}]
<1>1. CASE Exclusive(t, held, cs)
  BY <1>1, ExclusiveType
<1>2. CASE ~Exclusive(t, held, cs)
  BY <1>2 DEF StartDisconnect, TypeOK, Goes, PCs, Joining
<1>3. QED BY <1>1, <1>2

LEMMA ArrivesType ==
  ASSUME TypeOK, NEW cs \in [Clients -> ClientStates], Arrives(cs)
  PROVE  /\ client' \in Clients \cup {NoClient}
         /\ cstate' \in [Clients -> ClientStates]
         /\ unitCache' \in [Units -> Clients \cup {NoClient}]
         /\ flight' \in FlightStages
         /\ flightClient' \in Clients \cup {NoClient}
BY ClosingType DEF Arrives, ClearUnitCache, TypeOK, FlightStages, InFlight, Landed

\* Every step leaves the variables in their types.
LEMMA NextTypeOK == TypeOK /\ [Next]_vars => TypeOK'
<1> SUFFICES ASSUME TypeOK, [Next]_vars PROVE TypeOK'
  OBVIOUS
<1> USE DEF linkVars, lockVars, flightVars, requireVars, taskVars
<1>1. ASSUME NEW t \in Tasks, Request(t) PROVE TypeOK'
  <2>1. CASE EnterPaced(t)
    BY <1>1, <2>1, EnterPacedType DEF Request, TypeOK
  <2>2. CASE ~EnterPaced(t)
    BY <1>1, <2>2 DEF Request, JoinFlight, Goes, TypeOK, PCs, Joining,
       FlightStages, InFlight
  <2>3. QED BY <2>1, <2>2
<1>2. ASSUME NEW t \in Tasks, Connect(t) PROVE TypeOK'
  BY <1>2 DEF Connect, JoinFlight, Goes, TypeOK, PCs, Joining, FlightStages, InFlight
<1>3. ASSUME NEW t \in Tasks, JoinResumes(t) PROVE TypeOK'
  <2>1. woken' \in [Tasks -> {"none"} \cup Landed]
    BY <1>3 DEF JoinResumes, TypeOK
  <2>2. CASE EnterPaced(t)
    BY <1>3, <2>1, <2>2, EnterPacedType DEF JoinResumes, TypeOK
  <2>3. CASE ~EnterPaced(t) /\ OnWire(t)
    BY <1>3, <2>1, <2>3, OnWireType DEF JoinResumes, TypeOK
  <2>4. CASE ~EnterPaced(t) /\ ~OnWire(t)
    BY <1>3, <2>1, <2>4 DEF JoinResumes, FailsWithLock, Goes, TypeOK, PCs
  <2>5. QED BY <2>2, <2>3, <2>4
<1>4. ASSUME NEW t \in Tasks, LockResumes(t) PROVE TypeOK'
  <2>1. waiters' \in Seq(Tasks)
    BY <1>4 DEF LockResumes, Granted, TypeOK
  <2>2. t \in Requests /\ Paced(t)
    BY <1>4 DEF LockResumes
  <2>3. QED BY <1>4, <2>1, <2>2, PacedType DEF LockResumes, TypeOK
<1>5. ASSUME NEW t \in Tasks, GapEnds(t) PROVE TypeOK'
  <2>1. t \in Requests /\ Paced(t)
    BY <1>5 DEF GapEnds, Paced
  <2>2. QED BY <1>5, <2>1, PacedType DEF GapEnds, TypeOK
<1>6. ASSUME NEW t \in Tasks, WireEnds(t) PROVE TypeOK'
  BY <1>6 DEF WireEnds, Goes, TypeOK, PCs
<1>7. ASSUME NEW t \in Tasks, WireDesyncs(t) PROVE TypeOK'
  <2>1. [cstate EXCEPT ![using[t]] = "desync"] \in [Clients -> ClientStates]
    BY DEF TypeOK, ClientStates
  <2>2. QED BY <1>7, <2>1, StartDisconnectType DEF WireDesyncs, TypeOK
<1>8. ASSUME NEW t \in Tasks, RecyclerStarts(t) PROVE TypeOK'
  BY <1>8, StartDisconnectType DEF RecyclerStarts, TypeOK
<1>9. ASSUME NEW t \in Tasks, Disconnect(t) PROVE TypeOK'
  BY <1>9, StartDisconnectType DEF Disconnect, TypeOK
<1>10. ASSUME NEW t \in Tasks, Close(t) PROVE TypeOK'
  BY <1>10, StartDisconnectType DEF Close, TypeOK
<1>11. ASSUME NEW t \in Tasks, DJoinResumes(t) PROVE TypeOK'
  BY <1>11, ExclusiveType DEF DJoinResumes, TypeOK
<1>12. ASSUME NEW t \in Tasks, DLockResumes(t) PROVE TypeOK'
  <2>1. waiters' \in Seq(Tasks)
    BY <1>12 DEF DLockResumes, Granted, TypeOK
  <2>2. QED BY <1>12, <2>1, TearDownType DEF DLockResumes, TypeOK
<1>13. ASSUME NEW t \in Tasks, GraceExpires(t) PROVE TypeOK'
  <2>1. waiters' \in Seq(Tasks)
    BY <1>13, RemoveAtType DEF GraceExpires, LeavesQueue, TypeOK
  <2>2. QED BY <1>13, <2>1, TearDownType DEF GraceExpires, TypeOK
<1>14. ASSUME NEW t \in Tasks, CloseReturns(t) PROVE TypeOK'
  BY <1>14 DEF CloseReturns, Goes, TypeOK, PCs
<1>15. ASSUME NEW t \in Tasks, Cancel(t) PROVE TypeOK'
  BY <1>15, RemoveAtType DEF Cancel, LeavesQueue, Goes, TypeOK, PCs
<1>16. CASE FlightStep
  <2> USE DEF TypeOK, FlightStages, InFlight, Landed, ClientStates
  <2>1. Timeout \in TimeoutValues /\ BuiltWith \in TimeoutValues
    BY ResolvedType DEF Timeout, BuiltWith
  <2>2. CASE FlightStarts
    BY <2>1, <2>2 DEF FlightStarts, Build
  <2>3. CASE FlightBuilds
    BY <2>1, <2>3 DEF FlightBuilds, Build
  <2>4. CASE FlightFails
    BY <2>4 DEF FlightFails
  <2>5. CASE FlightOpens
    BY <2>5, ArrivesType DEF FlightOpens
  <2>6. CASE FlightDelayEnds
    BY <2>6, ArrivesType DEF FlightDelayEnds
  <2>7. CASE FlightDisposes
    BY <2>7 DEF FlightDisposes
  <2>8. CASE ConnectDone
    BY <2>8 DEF ConnectDone
  <2>9. QED BY <1>16, <2>2, <2>3, <2>4, <2>5, <2>6, <2>7, <2>8 DEF FlightStep
<1>17. ASSUME NEW c \in Clients, TransportStep(c) PROVE TypeOK'
  BY <1>17 DEF TransportStep, TransportLost, TransportCloses, TornDownHook,
     HookRuns, HookReports, ClearUnitCache, TypeOK, ClientStates
<1>18. CASE RequireStep
  BY <1>18, VariantAssumption DEF RequireStep, RequireTimeout, RequireConnectDelay,
     Goes, TypeOK, PCs
<1>19. CASE UNCHANGED vars
  BY <1>19 DEF vars, TypeOK
<1>20. QED
  BY <1>1, <1>2, <1>3, <1>4, <1>5, <1>6, <1>7, <1>8, <1>9, <1>10, <1>11, <1>12,
     <1>13, <1>14, <1>15, <1>16, <1>17, <1>18, <1>19
  DEF Next, CallerStep, TaskStep

\* Type correctness: the variables of the model keep to their sets, for any number
\* of tasks, units and clients.
THEOREM TypeCorrect == Spec => []TypeOK
BY InitTypeOK, NextTypeOK, PTL DEF Spec

-----------------------------------------------------------------------------
(* The pacing lock: who may be where when a task has it, and that requests *)
(* are serialized over the link.                                           *)

\* The lock is had by the one task that is suspended at a point inside it.
LockInv == \A t \in Tasks : pc[t] \in Holding <=> holder = t

\* What a step may do to the lock: task t moves somewhere, with the lock when the
\* place is inside it, having left the lock to nobody when it is not.
Moves(t) ==
  \E to \in PCs :
    /\ Goes(t, to)
    /\ \/ to \in Holding /\ holder \in {NoTask, t} /\ holder' = t
       \/ to \notin Holding /\ holder' = IF holder = t THEN NoTask ELSE holder

\* Such a step keeps the lock with the task inside it.
LEMMA MovesLockInv ==
  ASSUME TypeOK, LockInv, NEW t \in Tasks, Moves(t)
  PROVE  LockInv'
<1>1. PICK to \in PCs : /\ Goes(t, to)
                        /\ \/ to \in Holding /\ holder \in {NoTask, t} /\ holder' = t
                           \/ /\ to \notin Holding
                              /\ holder' = IF holder = t THEN NoTask ELSE holder
  BY DEF Moves
<1>2. pc' = [pc EXCEPT ![t] = to] /\ pc \in [Tasks -> PCs] /\ NoTask \notin Tasks
  BY <1>1, TasksAssumption DEF Goes, TypeOK
<1>3. ASSUME NEW u \in Tasks PROVE pc'[u] \in Holding <=> holder' = u
  <2>1. CASE u = t
    BY <1>1, <1>2, <2>1
  <2>2. CASE u # t
    BY <1>1, <1>2, <2>2 DEF LockInv
  <2>3. QED BY <2>1, <2>2
<1>4. QED BY <1>3 DEF LockInv

LEMMA PlacesType ==
  /\ Holding \cap (Queueing \cup {"idle", "dStart", "dCut", "eager", "join1", "dJoin"}) = {}
  /\ Holding \cup Queueing \cup Joining \cup {"idle", "dStart", "dCut"} = PCs
BY DEF Holding, Queueing, Joining, PCs

-----------------------------------------------------------------------------
(* The helpers.                                                            *)

LEMMA ConnectHoldingMoves ==
  ASSUME NEW t \in Tasks, holder \in {NoTask, t}, ConnectHolding(t)
  PROVE  Moves(t)
BY PlacesType DEF ConnectHolding, FailsWithLock, OnWire, JoinFlight, Moves, PCs, Holding, Joining

LEMMA PacedMoves ==
  ASSUME NEW t \in Tasks, holder \in {NoTask, t}, Paced(t)
  PROVE  Moves(t)
BY ConnectHoldingMoves DEF Paced, Moves, PCs, Holding

LEMMA EnterPacedMoves ==
  ASSUME NEW t \in Tasks, holder # t, EnterPaced(t)
  PROVE  Moves(t)
<1>1. CASE holder = NoTask /\ Paced(t)
  BY <1>1, PacedMoves
<1>2. CASE Goes(t, "queued") /\ UNCHANGED holder
  BY <1>2 DEF Moves, PCs, Holding, Queueing
<1>3. QED BY <1>1, <1>2 DEF EnterPaced

LEMMA TearDownMoves ==
  ASSUME NEW t \in Tasks, NEW cs, NEW locked \in BOOLEAN, TearDown(t, cs, locked),
         IF locked THEN holder \in {NoTask, t} ELSE holder # t
  PROVE  Moves(t)
BY TasksAssumption DEF TearDown, Moves, PCs, Holding

\* In a teardown the task has let go of the lock before it takes it again.
LEMMA ExclusiveMoves ==
  ASSUME NEW t \in Tasks, NEW held, held = (IF holder = t THEN NoTask ELSE holder),
         NEW cs, Exclusive(t, held, cs)
  PROVE  Moves(t)
<1>1. CASE held = NoTask /\ TearDown(t, cs, TRUE)
  BY <1>1, TearDownMoves
<1>2. CASE Goes(t, "dQueue") /\ holder' = held
  BY <1>2 DEF Moves, PCs, Holding, Queueing
<1>3. QED BY <1>1, <1>2 DEF Exclusive

LEMMA StartDisconnectMoves ==
  ASSUME NEW t \in Tasks, NEW held, held = (IF holder = t THEN NoTask ELSE holder),
         NEW cs, StartDisconnect(t, held, cs)
  PROVE  Moves(t)
<1>1. CASE Goes(t, "dJoin") /\ holder' = held
  BY <1>1 DEF Moves, PCs, Holding, Joining
<1>2. QED BY <1>1, ExclusiveMoves DEF StartDisconnect

-----------------------------------------------------------------------------
(* The actions.                                                            *)

\* Every step of a task moves that task and nobody else.
LEMMA TaskMoves ==
  ASSUME TypeOK, LockInv, NEW t \in Tasks, CallerStep(t) \/ TaskStep(t)
  PROVE  Moves(t) \/ UNCHANGED <<pc, holder>>
<1>0. pc[t] \in Holding <=> holder = t
  BY DEF LockInv
<1>1. CASE Request(t)
  <2>1. holder # t
    BY <1>0, <1>1 DEF Request, Holding
  <2>2. CASE EnterPaced(t)
    BY <2>1, <2>2, EnterPacedMoves
  <2>3. CASE ~EnterPaced(t)
    BY <1>1, <2>1, <2>3 DEF Request, JoinFlight, lockVars, Moves, PCs, Holding, Joining
  <2>4. QED BY <2>2, <2>3
<1>2. CASE Connect(t)
  BY <1>0, <1>2 DEF Connect, JoinFlight, lockVars, Moves, PCs, Holding, Joining
<1>3. CASE JoinResumes(t)
  <2>1. CASE pc[t] = "join1" /\ EnterPaced(t)
    BY <1>0, <2>1, EnterPacedMoves DEF Holding
  <2>2. CASE pc[t] = "join2"
    BY <1>0, <1>3, <2>2, TasksAssumption
    DEF JoinResumes, FailsWithLock, OnWire, Moves, PCs, Holding
  <2>3. CASE pc[t] \in {"eager", "join1"} /\ Goes(t, "idle") /\ UNCHANGED lockVars
    BY <1>0, <2>3 DEF lockVars, Moves, PCs, Holding
  <2>4. QED BY <1>3, <2>1, <2>2, <2>3 DEF JoinResumes
<1>4. CASE LockResumes(t)
  BY <1>4, PacedMoves DEF LockResumes, Granted
<1>5. CASE GapEnds(t)
  BY <1>0, <1>5, ConnectHoldingMoves DEF GapEnds, Holding
<1>6. CASE WireEnds(t)
  BY <1>0, <1>6 DEF WireEnds, Moves, PCs, Holding
<1>7. CASE WireDesyncs(t)
  BY <1>0, <1>7, StartDisconnectMoves DEF WireDesyncs, Holding
<1>8. CASE RecyclerStarts(t) \/ Disconnect(t) \/ Close(t)
  BY <1>0, <1>8, StartDisconnectMoves DEF RecyclerStarts, Disconnect, Close, Holding
<1>9. CASE DJoinResumes(t)
  BY <1>0, <1>9, ExclusiveMoves DEF DJoinResumes, Holding
<1>10. CASE DLockResumes(t)
  BY <1>10, TearDownMoves DEF DLockResumes, Granted
<1>11. CASE GraceExpires(t)
  BY <1>0, <1>11, TearDownMoves DEF GraceExpires, Holding
<1>12. CASE CloseReturns(t)
  BY <1>0, <1>12 DEF CloseReturns, Moves, PCs, Holding
<1>13. CASE Cancel(t)
  BY <1>0, <1>13 DEF Cancel, Moves, PCs, Holding
<1>14. QED
  BY <1>1, <1>2, <1>3, <1>4, <1>5, <1>6, <1>7, <1>8, <1>9, <1>10, <1>11, <1>12, <1>13
  DEF CallerStep, TaskStep

\* Nobody else touches the lock, and only a raised timeout moves another task: it
\* starts a recycler.
LEMMA OtherMoves ==
  ASSUME TypeOK, LockInv,
         \/ FlightStep \/ RequireStep \/ UNCHANGED vars
         \/ \E c \in Clients : TransportStep(c)
  PROVE  (\E t \in Tasks : Moves(t)) \/ UNCHANGED <<pc, holder>>
<1> USE DEF lockVars, taskVars
<1>1. CASE FlightStep
  BY <1>1 DEF FlightStep, FlightStarts, FlightBuilds, FlightFails, FlightOpens,
     FlightDelayEnds, FlightDisposes, ConnectDone
<1>2. CASE RequireStep
  <2>1. CASE UNCHANGED <<pc, holder>>
    BY <2>1
  <2>2. CASE \E r \in Recyclers : pc[r] = "idle" /\ Goes(r, "dStart") /\ UNCHANGED holder
    <3>1. PICK r \in Recyclers : pc[r] = "idle" /\ Goes(r, "dStart") /\ UNCHANGED holder
      BY <2>2
    <3>2. r \in Tasks /\ holder # r
      BY <3>1 DEF LockInv, Holding, Tasks
    <3>3. QED BY <3>1, <3>2 DEF Moves, PCs, Holding
  <2>3. QED BY <1>2, <2>1, <2>2 DEF RequireStep, RequireTimeout, RequireConnectDelay
<1>3. CASE \E c \in Clients : TransportStep(c)
  BY <1>3 DEF TransportStep, TransportLost, TransportCloses, TornDownHook
<1>4. CASE UNCHANGED vars
  BY <1>4 DEF vars
<1>5. QED BY <1>1, <1>2, <1>3, <1>4

LEMMA InitLockInv == Init => LockInv
BY TasksAssumption DEF Init, LockInv, Holding

LEMMA NextLockInv == TypeOK /\ LockInv /\ [Next]_vars => LockInv'
<1> SUFFICES ASSUME TypeOK, LockInv, [Next]_vars PROVE LockInv'
  OBVIOUS
<1>1. (\E t \in Tasks : Moves(t)) \/ UNCHANGED <<pc, holder>>
  BY TaskMoves, OtherMoves DEF Next
<1>2. QED BY <1>1, MovesLockInv DEF LockInv

LEMMA LockInvariant == Spec => [](TypeOK /\ LockInv)
BY TypeCorrect, InitLockInv, NextLockInv, PTL DEF Spec

\* Requests are serialized: whatever teardowns stop waiting and whichever callers
\* are cancelled, two requests are never on the wire together.
THEOREM RequestsAreSerialized == Spec => []OneRequestOnWire
<1>1. TypeOK /\ LockInv => OneRequestOnWire
  BY TasksAssumption DEF LockInv, OneRequestOnWire, Holding, Tasks
<1>2. QED BY <1>1, LockInvariant, PTL

-----------------------------------------------------------------------------
(* The clients: one flight at a time brings the next one, none is left     *)
(* open behind the connection's back, requests go out over the one that is *)
(* published, and a closed connection gets no other.  Hence the connection *)
(* implements the abstract link.                                           *)

\* A flight is in the air only while no client is published, and it has a client
\* of its own from the constructor call on.
FlightInv ==
  /\ flight \in InFlight => client = NoClient
  /\ flightClient # NoClient <=> flight \in {"opening", "delay", "disposing"}

\* A cached unit client belongs to the published client.
CacheInv == \A u \in Units : unitCache[u] \in {NoClient, client}

\* What the flight disposes of is closed or about to be.
DisposeInv == flight = "disposing" => cstate[flightClient] \in {"closing", "gone"}

\* A backend that runs the hook inside the closing call leaves none for later.
HooksInv == hooks = {}

ClientInv ==
  /\ TypeOK /\ FlightInv /\ CacheInv /\ DisposeInv
  /\ ~LateHook => HooksInv /\ NoLeakedClient

-----------------------------------------------------------------------------
(* What the steps of a request do to the clients, and what those of a      *)
(* teardown do.                                                            *)

\* What the clients and the flight are.
Untouched ==
  <<closed, client, cstate, hooks, unitCache, flight, flightClient>>

RequestEffect(t) ==
  /\ UNCHANGED <<closed, client, cstate, hooks, flightClient>>
  /\ \/ UNCHANGED flight
     \/ ~closed /\ client = NoClient /\ flight = "none" /\ flight' = "new"
  /\ \/ UNCHANGED unitCache /\ \E to \in PCs \ {"wire"} : Goes(t, to)
     \/ OnWire(t) /\ (~closed \/ woken[t] = "ok")

\* Every place of a teardown, and of a task that has returned, is off the wire.
TeardownPlaces == {"idle", "dJoin", "dQueue", "dClose", "dCut"}

TeardownEffect(t, cs) ==
  /\ UNCHANGED <<flight, flightClient>>
  /\ \E to \in TeardownPlaces : Goes(t, to)
  /\ \/ cstate' = cs /\ UNCHANGED <<client, hooks, unitCache>>
     \/ client # NoClient /\ CloseClient(cs)

LEMMA ConnectHoldingEffect ==
  ASSUME NEW t \in Requests, ConnectHolding(t),
         UNCHANGED <<closed, client, cstate, hooks, flightClient>>
  PROVE  RequestEffect(t)
BY DEF ConnectHolding, FailsWithLock, JoinFlight, RequestEffect, PCs, Holding,
   Joining, FlightStages, InFlight, Landed, Goes

LEMMA PacedEffect ==
  ASSUME NEW t \in Requests, Paced(t),
         UNCHANGED <<closed, client, cstate, hooks, flightClient>>
  PROVE  RequestEffect(t)
BY ConnectHoldingEffect DEF Paced, RequestEffect, PCs, Holding

LEMMA EnterPacedEffect ==
  ASSUME NEW t \in Requests, EnterPaced(t),
         UNCHANGED <<closed, client, cstate, hooks, flightClient>>
  PROVE  RequestEffect(t)
BY PacedEffect DEF EnterPaced, RequestEffect, PCs, Queueing

LEMMA TearDownEffect ==
  ASSUME NEW t \in Tasks, NEW cs, NEW locked \in BOOLEAN, TearDown(t, cs, locked),
         UNCHANGED <<flight, flightClient>>
  PROVE  TeardownEffect(t, cs)
BY DEF TearDown, TeardownEffect, TeardownPlaces

LEMMA ExclusiveEffect ==
  ASSUME NEW t \in Tasks, NEW held, NEW cs, Exclusive(t, held, cs),
         UNCHANGED <<flight, flightClient>>
  PROVE  TeardownEffect(t, cs)
BY TearDownEffect DEF Exclusive, TeardownEffect, TeardownPlaces

LEMMA StartDisconnectEffect ==
  ASSUME NEW t \in Tasks, NEW held, NEW cs, StartDisconnect(t, held, cs),
         UNCHANGED <<flight, flightClient>>
  PROVE  TeardownEffect(t, cs)
BY ExclusiveEffect DEF StartDisconnect, TeardownEffect, TeardownPlaces

\* A step of a request that leaves the caller where it is changes none of this.
LEMMA RequestSteps ==
  ASSUME NEW t \in Tasks,
         \/ Request(t) \/ Connect(t) \/ JoinResumes(t) \/ LockResumes(t)
         \/ GapEnds(t) \/ WireEnds(t)
  PROVE  \/ RequestEffect(t)
         \/ UNCHANGED Untouched /\ UNCHANGED pc
<1> USE DEF lockVars, linkVars, flightVars, Untouched
<1>1. CASE Request(t)
  <2>1. t \in Requests /\ UNCHANGED <<closed, client, cstate, hooks, flightClient>>
    BY <1>1 DEF Request
  <2>2. CASE EnterPaced(t)
    BY <2>1, <2>2, EnterPacedEffect
  <2>3. CASE ~EnterPaced(t)
    BY <1>1, <2>1, <2>3 DEF Request, JoinFlight, RequestEffect, PCs, Joining
  <2>4. QED BY <2>2, <2>3
<1>2. CASE Connect(t)
  BY <1>2 DEF Connect, JoinFlight, RequestEffect, PCs, Joining
<1>3. CASE JoinResumes(t)
  <2>1. t \in Requests /\ UNCHANGED <<closed, client, cstate, hooks, flightClient>>
    BY <1>3 DEF JoinResumes
  <2>2. CASE EnterPaced(t)
    BY <2>1, <2>2, EnterPacedEffect
  <2>3. CASE ~EnterPaced(t)
    BY <1>3, <2>1, <2>3 DEF JoinResumes, FailsWithLock, RequestEffect, PCs
  <2>4. QED BY <2>2, <2>3
<1>4. CASE LockResumes(t)
  BY <1>4, PacedEffect DEF LockResumes
<1>5. CASE GapEnds(t)
  BY <1>5, ConnectHoldingEffect DEF GapEnds
<1>6. CASE WireEnds(t)
  BY <1>6 DEF WireEnds, RequestEffect, PCs
<1>7. QED BY <1>1, <1>2, <1>3, <1>4, <1>5, <1>6

\* What a teardown knows of the clients: what there is, or that one of them has
\* just answered another exchange.
Desynced(t) == [cstate EXCEPT ![using[t]] = "desync"]

LEMMA TeardownSteps ==
  ASSUME NEW t \in Tasks,
         \/ WireDesyncs(t) \/ RecyclerStarts(t) \/ Disconnect(t) \/ Close(t)
         \/ DJoinResumes(t) \/ DLockResumes(t) \/ GraceExpires(t)
  PROVE  /\ closed' \in {closed, TRUE} /\ (pc[t] = "wire" => UNCHANGED closed)
         /\ \/ TeardownEffect(t, cstate)
            \/ Up(cstate[using[t]]) /\ TeardownEffect(t, Desynced(t))
<1> USE DEF flightVars
<1>1. CASE WireDesyncs(t)
  BY <1>1, StartDisconnectEffect DEF WireDesyncs, Desynced
<1>2. CASE RecyclerStarts(t) \/ Disconnect(t) \/ Close(t)
  BY <1>2, StartDisconnectEffect DEF RecyclerStarts, Disconnect, Close
<1>3. CASE DJoinResumes(t)
  BY <1>3, ExclusiveEffect DEF DJoinResumes
<1>4. CASE DLockResumes(t) \/ GraceExpires(t)
  BY <1>4, TearDownEffect DEF DLockResumes, GraceExpires
<1>5. QED BY <1>1, <1>2, <1>3, <1>4

-----------------------------------------------------------------------------
(* The invariant, kept by each kind of step.  TypeOK' comes from           *)
(* NextTypeOK.                                                             *)

LEMMA InitClientInv == Init => ClientInv
<1>1. ASSUME Init PROVE FlightInv /\ CacheInv /\ DisposeInv /\ HooksInv /\ NoLeakedClient
  BY <1>1 DEF Init, FlightInv, CacheInv, DisposeInv, HooksInv, NoLeakedClient, InFlight
<1>2. QED BY <1>1, InitTypeOK DEF ClientInv

LEMMA RequestKeeps ==
  ASSUME ClientInv, TypeOK', NEW t \in Tasks, RequestEffect(t)
  PROVE  ClientInv'
<1>1. FlightInv'
  BY DEF RequestEffect, ClientInv, FlightInv, InFlight
<1>2. CacheInv'
  <2>1. CASE UNCHANGED unitCache
    BY <2>1 DEF RequestEffect, ClientInv, CacheInv
  <2>2. CASE OnWire(t)
    BY <2>2 DEF RequestEffect, ClientInv, CacheInv, TypeOK, OnWire, UnitClient
  <2>3. QED BY <2>1, <2>2 DEF RequestEffect
<1>3. DisposeInv'
  BY DEF RequestEffect, ClientInv, DisposeInv
<1>4. ~LateHook => HooksInv' /\ NoLeakedClient'
  BY DEF RequestEffect, ClientInv, HooksInv, NoLeakedClient
<1>5. QED BY <1>1, <1>2, <1>3, <1>4 DEF ClientInv

\* The clients of cs differ from cstate only in one that has been desynced.
LEMMA TeardownKeeps ==
  ASSUME ClientInv, TypeOK', NEW t \in Tasks, NEW cs \in [Clients -> ClientStates],
         TeardownEffect(t, cs),
         \A c \in Clients : cs[c] = cstate[c] \/ (Up(cstate[c]) /\ Up(cs[c]))
  PROVE  ClientInv'
<1> USE DEF ClientInv, TeardownEffect
<1>1. FlightInv'
  BY DEF FlightInv, CloseClient
<1>2. CacheInv'
  BY DEF CacheInv, CloseClient, ClearUnitCache
<1>3. DisposeInv'
  <2>1. SUFFICES ASSUME flight = "disposing" PROVE cstate'[flightClient] \in {"closing", "gone"}
    BY DEF DisposeInv
  <2>2. cstate[flightClient] \in {"closing", "gone"} /\ client = NoClient
    BY <2>1 DEF DisposeInv, FlightInv, InFlight
  <2>3. flightClient \in Clients /\ cstate' = cs
    BY <2>1, <2>2 DEF FlightInv, TypeOK
  <2>4. QED BY <2>2, <2>3 DEF Up
<1>4. ASSUME ~LateHook PROVE HooksInv' /\ NoLeakedClient'
  <2>1. HooksInv'
    BY <1>4 DEF HooksInv, CloseClient
  <2>2. ASSUME NEW c \in Clients, cstate'[c] \in {"opening", "open", "desync"}
        PROVE  c \in {client', flightClient'}
    <3>1. CASE cstate' = cs /\ UNCHANGED client
      BY <1>4, <2>2, <3>1 DEF NoLeakedClient, Up
    <3>2. CASE client # NoClient /\ CloseClient(cs)
      <4>1. client \in Clients
        BY <3>2 DEF TypeOK
      <4>2. c # client /\ cs[c] \in {"opening", "open", "desync"}
        BY <2>2, <3>2, <4>1 DEF CloseClient, Closing
      <4>3. QED BY <1>4, <4>2 DEF NoLeakedClient, Up
    <3>3. QED BY <3>1, <3>2
  <2>3. QED BY <2>1, <2>2 DEF NoLeakedClient
<1>5. QED BY <1>1, <1>2, <1>3, <1>4

\* Arrives publishes the client of the flight or disposes of it.
LEMMA ArrivesKeeps ==
  ASSUME ClientInv, TypeOK', NEW cs \in [Clients -> ClientStates], Arrives(cs),
         flight \in {"opening", "delay"}, UNCHANGED hooks,
         \A c \in Clients \ {flightClient} : cs[c] = cstate[c]
  PROVE  ClientInv'
<1> USE DEF ClientInv
<1>1. client = NoClient /\ flightClient \in Clients
  BY DEF FlightInv, InFlight, TypeOK
<1>2. FlightInv'
  BY <1>1, ClientsAssumption DEF Arrives, FlightInv, InFlight
<1>3. CacheInv'
  BY <1>1 DEF Arrives, CacheInv, ClearUnitCache
<1>4. DisposeInv'
  BY <1>1 DEF Arrives, DisposeInv, Closing, Up
<1>5. ASSUME ~LateHook PROVE HooksInv' /\ NoLeakedClient'
  <2>1. ASSUME NEW c \in Clients, cstate'[c] \in {"opening", "open", "desync"}
        PROVE  c \in {client', flightClient'}
    <3>1. CASE closed
      <4>1. c # flightClient
        BY <1>1, <2>1, <3>1 DEF Arrives, Closing
      <4>2. cstate[c] \in {"opening", "open", "desync"}
        BY <1>1, <2>1, <3>1, <4>1 DEF Arrives, Closing
      <4>3. QED BY <1>1, <1>5, <4>1, <4>2, ClientsAssumption DEF NoLeakedClient
    <3>2. CASE ~closed
      BY <1>1, <1>5, <2>1, <3>2, ClientsAssumption DEF Arrives, NoLeakedClient
    <3>3. QED BY <3>1, <3>2
  <2>2. QED BY <1>5, <2>1 DEF NoLeakedClient, HooksInv
<1>6. QED BY <1>2, <1>3, <1>4, <1>5

LEMMA FlightKeeps ==
  ASSUME ClientInv, TypeOK', FlightStep
  PROVE  ClientInv'
<1> USE DEF ClientInv, linkVars, flightVars
<1>1. CASE FlightStarts \/ FlightBuilds
  <2>1. flight \in {"new", "ssl"} /\ flightClient = NoClient /\ client = NoClient
    BY <1>1 DEF FlightStarts, FlightBuilds, FlightInv, InFlight
  <2>2. UNCHANGED <<client, hooks, unitCache>>
    BY <1>1 DEF FlightStarts, FlightBuilds
  <2>3. CASE UNCHANGED <<cstate, flightClient>> /\ flight' \in {"ssl", "fail"}
    BY <2>1, <2>2, <2>3
    DEF FlightInv, CacheInv, DisposeInv, HooksInv, NoLeakedClient, InFlight
  <2>4. CASE \E seconds : Build(seconds)
    <3>1. PICK c \in Clients : /\ cstate' = [cstate EXCEPT ![c] = "opening"]
                               /\ flightClient' = c /\ flight' = "opening"
      BY <2>4 DEF Build
    <3>2. FlightInv' /\ CacheInv' /\ DisposeInv'
      BY <2>1, <2>2, <3>1, ClientsAssumption DEF FlightInv, CacheInv, DisposeInv, InFlight
    <3>3. ~LateHook => HooksInv' /\ NoLeakedClient'
      BY <2>1, <2>2, <3>1, ClientsAssumption DEF HooksInv, NoLeakedClient
    <3>4. QED BY <3>2, <3>3
  <2>5. QED BY <1>1, <2>3, <2>4 DEF FlightStarts, FlightBuilds
<1>2. CASE FlightFails
  BY <1>2, ClientsAssumption
  DEF FlightFails, FlightInv, CacheInv, DisposeInv, HooksInv, NoLeakedClient, InFlight, TypeOK
<1>3. CASE FlightOpens
  <2>1. DEFINE cs == [cstate EXCEPT ![flightClient] = "open"]
  <2>2. flightClient \in Clients /\ cs \in [Clients -> ClientStates]
    BY <1>3 DEF FlightOpens, FlightInv, TypeOK, ClientStates
  <2>3. CASE ConnectDelay
    BY <1>3, <2>2, <2>3
    DEF FlightOpens, FlightInv, CacheInv, DisposeInv, HooksInv, NoLeakedClient, InFlight, TypeOK
  <2>4. CASE ~ConnectDelay
    <3>1. Arrives(cs) /\ flight = "opening" /\ UNCHANGED hooks
      BY <1>3, <2>4 DEF FlightOpens
    <3>2. \A c \in Clients \ {flightClient} : cs[c] = cstate[c]
      BY DEF TypeOK
    <3>3. QED BY <2>2, <3>1, <3>2, ArrivesKeeps
  <2>5. QED BY <2>3, <2>4
<1>4. CASE FlightDelayEnds
  BY <1>4, ArrivesKeeps DEF FlightDelayEnds, TypeOK
<1>5. CASE FlightDisposes
  <2>1. cstate[flightClient] = "gone" /\ flightClient \in Clients
    BY <1>5 DEF FlightDisposes, DisposeInv, FlightInv, TypeOK
  <2>2. QED
    BY <1>5, <2>1, ClientsAssumption
    DEF FlightDisposes, FlightInv, CacheInv, DisposeInv, HooksInv, NoLeakedClient, InFlight
<1>6. CASE ConnectDone
  BY <1>6 DEF ConnectDone, FlightInv, CacheInv, DisposeInv, HooksInv, NoLeakedClient,
     InFlight, Landed
<1>7. QED BY <1>1, <1>2, <1>3, <1>4, <1>5, <1>6 DEF FlightStep

\* The hook takes the published client away, and the client lost is that one: while
\* the flight has a client of its own none is published.
LEMMA TransportKeeps ==
  ASSUME ClientInv, TypeOK', NEW c \in Clients, TransportStep(c)
  PROVE  ClientInv'
<1> USE DEF ClientInv, flightVars
<1>1. UNCHANGED <<flight, flightClient>> /\ client' \in {client, NoClient}
  BY DEF TransportStep, TransportLost, TransportCloses, TornDownHook, HookRuns
<1>2. FlightInv'
  BY <1>1 DEF FlightInv
<1>3. CacheInv'
  BY DEF TransportStep, TransportLost, TransportCloses, TornDownHook, HookRuns,
     ClearUnitCache, CacheInv
<1>4. DisposeInv'
  BY <1>1 DEF TransportStep, TransportLost, TransportCloses, TornDownHook, DisposeInv,
     FlightInv, TypeOK
<1>5. ASSUME ~LateHook PROVE HooksInv' /\ NoLeakedClient'
  <2>1. ~TornDownHook(c) /\ UNCHANGED hooks
    BY <1>5 DEF HooksInv, TransportStep, TransportLost, TransportCloses, TornDownHook
  <2>2. /\ cstate' = [cstate EXCEPT ![c] = "gone"]
        /\ client' # client => c = client
    <3>1. CASE TransportLost(c)
      BY <1>5, <3>1, ClientsAssumption
      DEF TransportLost, HookRuns, HookReports, NoLeakedClient, Up, FlightInv, InFlight
    <3>2. CASE TransportCloses(c)
      BY <3>2 DEF TransportCloses
    <3>3. QED BY <2>1, <3>1, <3>2 DEF TransportStep
  <2>3. ASSUME NEW d \in Clients, cstate'[d] \in {"opening", "open", "desync"}
        PROVE  d \in {client', flightClient'}
    <3>1. d # c /\ cstate[d] \in {"opening", "open", "desync"}
      BY <2>2, <2>3 DEF TypeOK
    <3>2. QED BY <1>1, <1>5, <2>2, <3>1 DEF NoLeakedClient
  <2>4. QED BY <1>5, <2>1, <2>3 DEF HooksInv, NoLeakedClient
<1>6. QED BY <1>2, <1>3, <1>4, <1>5

\* Steps that leave the clients and the flight alone keep what is said of them.
LEMMA IdleKeeps ==
  ASSUME ClientInv, TypeOK', UNCHANGED Untouched
  PROVE  ClientInv'
BY DEF Untouched, ClientInv, FlightInv, CacheInv, DisposeInv, HooksInv, NoLeakedClient

\* What a step does, as far as the clients are concerned.
LEMMA StepKinds ==
  ASSUME TypeOK, [Next]_vars
  PROVE  \/ \E t \in Tasks : RequestEffect(t)
         \/ \E t \in Tasks : /\ closed' \in {closed, TRUE}
                             /\ pc[t] = "wire" => UNCHANGED closed
                             /\ \/ TeardownEffect(t, cstate)
                                \/ /\ Up(cstate[using[t]])
                                   /\ TeardownEffect(t, Desynced(t))
         \/ FlightStep
         \/ \E c \in Clients : TransportStep(c)
         \/ /\ UNCHANGED Untouched
            /\ \A t \in Requests : pc'[t] = "wire" => pc[t] = "wire"
<1> DEFINE Alone == UNCHANGED Untouched
           Calm == \A t \in Requests : pc'[t] = "wire" => pc[t] = "wire"
<1> USE DEF linkVars, flightVars, Untouched
<1>1. ASSUME NEW t \in Tasks, CloseReturns(t) \/ Cancel(t) PROVE Alone /\ Calm
  BY <1>1 DEF CloseReturns, Cancel, Goes, TypeOK, Tasks
<1>2. CASE RequireStep
  <2>1. Alone
    BY <1>2 DEF RequireStep, RequireTimeout, RequireConnectDelay
  <2>2. Calm
    BY <1>2 DEF RequireStep, RequireTimeout, RequireConnectDelay, Goes, taskVars, TypeOK, Tasks
  <2>3. QED BY <2>1, <2>2
<1>3. CASE UNCHANGED vars
  BY <1>3 DEF vars, taskVars
<1>4. ASSUME NEW t \in Tasks,
             \/ Request(t) \/ Connect(t) \/ JoinResumes(t) \/ LockResumes(t)
             \/ GapEnds(t) \/ WireEnds(t)
      PROVE  RequestEffect(t) \/ (Alone /\ Calm)
  BY <1>4, RequestSteps
<1>5. QED
  BY <1>1, <1>2, <1>3, <1>4, TeardownSteps DEF Next, CallerStep, TaskStep

LEMMA NextClientInv == ClientInv /\ [Next]_vars => ClientInv'
<1> SUFFICES ASSUME ClientInv, [Next]_vars PROVE ClientInv'
  OBVIOUS
<1>1. TypeOK'
  BY NextTypeOK DEF ClientInv
<1>2. ASSUME NEW t \in Tasks, RequestEffect(t) PROVE ClientInv'
  BY <1>1, <1>2, RequestKeeps
<1>3. ASSUME NEW t \in Tasks,
             \/ TeardownEffect(t, cstate)
             \/ Up(cstate[using[t]]) /\ TeardownEffect(t, Desynced(t))
      PROVE  ClientInv'
  <2>1. Desynced(t) \in [Clients -> ClientStates] /\ cstate \in [Clients -> ClientStates]
    BY DEF Desynced, ClientInv, TypeOK, ClientStates
  <2>2. Up(cstate[using[t]])
          => \A c \in Clients : \/ Desynced(t)[c] = cstate[c]
                                \/ Up(cstate[c]) /\ Up(Desynced(t)[c])
    BY DEF Desynced, ClientInv, TypeOK, Up
  <2>3. QED BY <1>1, <1>3, <2>1, <2>2, TeardownKeeps
<1>4. QED BY <1>1, <1>2, <1>3, StepKinds, FlightKeeps, TransportKeeps,
  IdleKeeps DEF ClientInv

LEMMA ClientInvariant == Spec => []ClientInv
BY InitClientInv, NextClientInv, PTL DEF Spec

-----------------------------------------------------------------------------
(* The theorems.                                                           *)

\* With a backend that runs the hook inside the closing call, a client that is
\* open or opening is always the published one or the flight's.
THEOREM NoClientLeaks == ASSUME ~LateHook PROVE Spec => []NoLeakedClient
<1>1. ClientInv => NoLeakedClient
  BY DEF ClientInv
<1>2. QED BY <1>1, ClientInvariant, PTL

\* A request enters the wire in a step of its own, over the published client.
LEMMA EntersOnWire ==
  ASSUME ClientInv, [Next]_vars, NEW t \in Requests, EntersWire(t)
  PROVE  OnWire(t) /\ UNCHANGED client /\ (~closed \/ woken[t] = "ok")
<1>0. t \in Tasks /\ TypeOK
  BY DEF Tasks, ClientInv
<1>1. ASSUME NEW u \in Tasks, RequestEffect(u)
      PROVE  OnWire(t) /\ UNCHANGED client /\ (~closed \/ woken[t] = "ok")
  <2>1. CASE u = t
    BY <1>0, <1>1, <2>1 DEF RequestEffect, EntersWire, Goes, TypeOK
  <2>2. CASE u # t
    BY <1>0, <1>1, <2>2 DEF RequestEffect, OnWire, EntersWire, Goes, TypeOK
  <2>3. QED BY <2>1, <2>2
<1>2. ASSUME NEW u \in Tasks, NEW cs, TeardownEffect(u, cs) PROVE FALSE
  BY <1>0, <1>2 DEF TeardownEffect, TeardownPlaces, EntersWire, Goes, TypeOK
<1>3. CASE FlightStep
  BY <1>3 DEF FlightStep, FlightStarts, FlightBuilds, FlightFails, FlightOpens,
     FlightDelayEnds, FlightDisposes, ConnectDone, taskVars, EntersWire
<1>4. CASE \E c \in Clients : TransportStep(c)
  BY <1>4 DEF TransportStep, TransportLost, TransportCloses, TornDownHook, taskVars,
     EntersWire
<1>5. QED BY <1>0, <1>1, <1>2, <1>3, <1>4, StepKinds DEF EntersWire

\* A request goes out over the published client, never over a unit client that was
\* cached against an earlier one.
THEOREM CacheIsCurrent == Spec => RequestUsesPublishedClient
<1>1. ClientInv /\ [Next]_vars
        => [\A t \in Requests : EntersWire(t) => using'[t] = client']_vars
  <2>1. SUFFICES ASSUME ClientInv, [Next]_vars, NEW t \in Requests, EntersWire(t)
                 PROVE  using'[t] = client'
    OBVIOUS
  <2>2. OnWire(t) /\ UNCHANGED client
    BY <2>1, EntersOnWire
  <2>3. UnitClient(UnitOf[t]) = client /\ t \in Tasks
    BY <2>1, TasksAssumption DEF UnitClient, ClientInv, CacheInv, Tasks
  <2>4. QED BY <2>1, <2>2, <2>3 DEF OnWire, ClientInv, TypeOK
<1>2. QED BY <1>1, ClientInvariant, PTL DEF Spec, RequestUsesPublishedClient

\* Once the connection is closed the only request that may still reach the wire is
\* one that was already told that the flight it waited for succeeded.
THEOREM ClosedLetsNoRequestStart == Spec => ClosedStartsNoRequest
<1>1. ClientInv /\ [Next]_vars
        => [closed => \A t \in Requests : EntersWire(t) => woken[t] = "ok"]_vars
  BY EntersOnWire
<1>2. QED BY <1>1, ClientInvariant, PTL DEF Spec, ClosedStartsNoRequest

\* Closing is permanent: no client is published and no flight is started again.
THEOREM ClosingIsPermanent == Spec => ClosedStaysDown
<1> DEFINE Down == /\ closed'
                   /\ client' \in {client, NoClient}
                   /\ flight = "none" => flight' = "none"
<1>1. TypeOK /\ [Next]_vars => [closed => Down]_vars
  <2>1. SUFFICES ASSUME TypeOK, [Next]_vars, closed PROVE Down
    OBVIOUS
  <2>2. ASSUME NEW t \in Tasks, RequestEffect(t) PROVE Down
    BY <2>1, <2>2 DEF RequestEffect
  <2>3. CASE FlightStep
    BY <2>1, <2>3 DEF FlightStep, FlightStarts, FlightBuilds, Build, FlightFails,
       FlightOpens, FlightDelayEnds, FlightDisposes, ConnectDone, Arrives, linkVars,
       InFlight, Landed
  <2>4. CASE \E c \in Clients : TransportStep(c)
    BY <2>1, <2>4 DEF TransportStep, TransportLost, TransportCloses, TornDownHook,
       HookRuns, flightVars
  <2>5. CASE UNCHANGED Untouched
    BY <2>1, <2>5 DEF Untouched
  <2>6. ASSUME NEW t \in Tasks, closed' \in {closed, TRUE},
               TeardownEffect(t, cstate) \/ TeardownEffect(t, Desynced(t))
        PROVE  Down
    BY <2>1, <2>6 DEF TeardownEffect, CloseClient
  <2> HIDE DEF Down
  <2>7. QED BY <2>1, <2>2, <2>3, <2>4, <2>5, <2>6, StepKinds
<1>2. QED BY <1>1, TypeCorrect, PTL DEF Spec, ClosedStaysDown

-----------------------------------------------------------------------------
(* Refinement: the connection implements the abstract link.  Every step of *)
(* Connection, whatever tasks it interleaves, is a step of Link or changes *)
(* nothing its users can tell.                                             *)

OnTheWire == {t \in Requests : pc[t] = "wire"}
LinkStep  == [Promise!Next]_(Promise!vars)

\* How a step appears to the users of the link.
LEMMA Appears ==
  ASSUME
    \/ UNCHANGED <<closed, (client # NoClient), OnTheWire>>
    \/ ~closed /\ client = NoClient /\ client' # NoClient /\ UNCHANGED <<closed, OnTheWire>>
    \/ client # NoClient /\ client' = NoClient /\ UNCHANGED <<closed, OnTheWire>>
    \/ closed' = TRUE /\ client' \in {client, NoClient} /\ UNCHANGED OnTheWire
    \/ \E t \in Requests : /\ client # NoClient /\ OnTheWire = {} /\ OnTheWire' = {t}
                           /\ UNCHANGED <<closed, client>>
    \/ \E t \in OnTheWire : /\ OnTheWire' = OnTheWire \ {t}
                            /\ client' \in {client, NoClient} /\ UNCHANGED closed
  PROVE  LinkStep
<1> DEFINE up == client # NoClient
<1> USE DEF OnTheWire, LinkStep, Promise!vars, Promise!Next
<1>1. CASE UNCHANGED <<closed, up, OnTheWire>>
  BY <1>1
<1>2. CASE ~closed /\ client = NoClient /\ client' # NoClient /\ UNCHANGED <<closed, OnTheWire>>
  BY <1>2 DEF Promise!Establish
<1>3. CASE client # NoClient /\ client' = NoClient /\ UNCHANGED <<closed, OnTheWire>>
  BY <1>3 DEF Promise!Drop
<1>4. CASE closed' = TRUE /\ client' \in {client, NoClient} /\ UNCHANGED OnTheWire
  BY <1>4 DEF Promise!Shut, Promise!MayDrop
<1>5. CASE \E t \in Requests : /\ client # NoClient /\ OnTheWire = {} /\ OnTheWire' = {t}
                               /\ UNCHANGED <<closed, client>>
  BY <1>5 DEF Promise!Send
<1>6. CASE \E t \in OnTheWire : /\ OnTheWire' = OnTheWire \ {t}
                                /\ client' \in {client, NoClient} /\ UNCHANGED closed
  BY <1>6 DEF Promise!Finish, Promise!MayDrop
<1>7. QED BY <1>1, <1>2, <1>3, <1>4, <1>5, <1>6

\* At most one request is on the wire before and after every step.
LEMMA AtMostOne ==
  ASSUME LockInv, NEW t \in OnTheWire
  PROVE  OnTheWire = {t}
BY TasksAssumption DEF LockInv, OnTheWire, Holding, Tasks

LEMMA StepRefines ==
  ASSUME ClientInv, LockInv, LockInv', [Next]_vars
  PROVE  LinkStep
<1> USE DEF ClientInv, OnTheWire
<1>0. TypeOK /\ Requests \subseteq Tasks
  BY DEF Tasks
<1>1. ASSUME NEW t \in Tasks, RequestEffect(t) PROVE LinkStep
  <2>1. UNCHANGED <<closed, client>>
    BY <1>1 DEF RequestEffect
  <2>2. CASE OnWire(t) /\ t \in Requests
    <3>1. t \in OnTheWire' /\ client # NoClient
      BY <1>0, <2>2 DEF OnWire, Goes, TypeOK
    <3>2. OnTheWire' = {t}
      BY <3>1, TasksAssumption DEF LockInv, Holding, Tasks
    <3>3. \A u \in Requests : u # t => pc'[u] = pc[u]
      BY <1>0, <2>2 DEF OnWire, Goes, TypeOK
    <3>4. OnTheWire = {} \/ OnTheWire = {t}
      BY <3>2, <3>3
    <3>5. QED BY <2>1, <2>2, <3>1, <3>2, <3>4, Appears
  <2>3. CASE \E to \in PCs \ {"wire"} : Goes(t, to)
    <3>1. OnTheWire' = OnTheWire \ {t}
      BY <1>0, <2>3 DEF Goes, TypeOK
    <3>2. QED BY <2>1, <3>1, Appears
  <2>4. CASE OnWire(t) /\ t \notin Requests
    <3>1. OnTheWire' = OnTheWire
      BY <1>0, <2>4 DEF OnWire, Goes, TypeOK
    <3>2. QED BY <2>1, <3>1, Appears
  <2>5. QED BY <1>1, <2>2, <2>3, <2>4 DEF RequestEffect
<1>2. ASSUME NEW t \in Tasks, closed' \in {closed, TRUE},
             pc[t] = "wire" => UNCHANGED closed,
             TeardownEffect(t, cstate) \/ TeardownEffect(t, Desynced(t))
      PROVE  LinkStep
  <2>1. client' \in {client, NoClient}
    BY <1>2 DEF TeardownEffect, CloseClient
  <2>2. OnTheWire' = OnTheWire \ {t}
    BY <1>0, <1>2 DEF TeardownEffect, TeardownPlaces, Goes, TypeOK
  <2>3. CASE t \in OnTheWire
    BY <1>2, <2>1, <2>2, <2>3, Appears
  <2>4. CASE t \notin OnTheWire
    BY <1>2, <2>1, <2>2, <2>4, Appears
  <2>5. QED BY <2>3, <2>4
<1>3. CASE FlightStep
  <2>1. UNCHANGED <<closed, pc>>
    BY <1>3 DEF FlightStep, FlightStarts, FlightBuilds, FlightFails, FlightOpens,
       FlightDelayEnds, FlightDisposes, ConnectDone, taskVars, linkVars
  <2>2. UNCHANGED client \/ (~closed /\ flight \in InFlight)
    BY <1>3 DEF FlightStep, FlightStarts, FlightBuilds, FlightFails, FlightOpens,
       FlightDelayEnds, FlightDisposes, ConnectDone, Arrives, linkVars, InFlight
  <2>3. flight \in InFlight => client = NoClient
    BY DEF FlightInv
  <2>4. QED BY <2>1, <2>2, <2>3, Appears
<1>4. CASE \E c \in Clients : TransportStep(c)
  <2>1. UNCHANGED <<closed, pc>> /\ client' \in {client, NoClient}
    BY <1>4 DEF TransportStep, TransportLost, TransportCloses, TornDownHook, HookRuns,
       taskVars
  <2>2. QED BY <2>1, Appears
<1>5. CASE /\ UNCHANGED Untouched
           /\ \A t \in Requests : pc'[t] = "wire" => pc[t] = "wire"
  <2>1. OnTheWire' \subseteq OnTheWire /\ UNCHANGED <<closed, client>>
    BY <1>5 DEF Untouched
  <2>2. CASE OnTheWire' = OnTheWire
    BY <2>1, <2>2, Appears
  <2>3. CASE OnTheWire' # OnTheWire
    <3>1. PICK t \in OnTheWire : t \notin OnTheWire'
      BY <2>1, <2>3
    <3>2. OnTheWire' = OnTheWire \ {t}
      BY <2>1, <3>1, AtMostOne
    <3>3. QED BY <2>1, <3>2, Appears
  <2>4. QED BY <2>2, <2>3
<1>6. QED BY <1>0, <1>1, <1>2, <1>3, <1>4, <1>5, StepKinds

\* The connection keeps the promise of Link: it goes up only while it is open and
\* down, puts one request at a time on a link that is up, and never comes up again
\* once it is closed.
THEOREM ConnectionImplementsLink == Spec => ImplementsLink
<1>1. Init => Promise!Init
  BY DEF Init, Tasks, Promise!Init
<1>2. ClientInv /\ LockInv /\ LockInv' /\ [Next]_vars => LinkStep
  BY StepRefines
<1>3. QED
  BY <1>1, <1>2, ClientInvariant, LockInvariant, PTL
  DEF Spec, ImplementsLink, LinkStep, Promise!Spec

=============================================================================
