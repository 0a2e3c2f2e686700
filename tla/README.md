# Verification of modbus-connection

TLA+ models of `modbus-connection`, an asyncio library that shares one Modbus
link between many consumers, with the TLC configurations that check them and
TLAPS proofs of their main properties. Paths below are relative to
`src/modbus_connection/` in the repository.

## The system

| Part | State it keeps | Operations | How it talks to the rest |
| --- | --- | --- | --- |
| **Connection core** `_client.py` | `_closed`, `_client`, `_connect_task`, `_timeout`/`_client_timeout`, what each unit requires | `connect`, `disconnect`, `close`, `_do_connect`, `_require_timeout`, `_require_connect_delay` | one shared flight per connect attempt; takes the pacer's lock for a teardown; starts a background `disconnect()` when a timeout is raised |
| **Pacer** `_pacing.py` | an `asyncio.Lock`, when and for which unit the last request ended, a gap per unit | `paced`, `exclusive`, `set_unit_spacing` | requests run inside `paced`, teardowns inside `exclusive` (bounded wait) |
| **Backends** `tmodbus/`, `pymodbus/` | the backend client, a per-unit client cache (tmodbus) | `_connect_client`, `_close_client`, the connection-lost hook, `_map_errors` around every unit operation | the backend library calls the hook; the wrapper calls `connect`, `paced`, `connect` again, and on a desync `disconnect` |
| **Callback registry** `_callbacks.py` | a list | `subscribe`, `fire` | fired by the hook |
| **Planning and ranges** `model/_planning.py`, `model/_ranges.py` | none (pure), a cached plan | `_plan_blocks`, `claimed_ranges`, `ReadPlan`, `DeviceRanges.merged`, `_refresh` | reads a unit block by block, decodes into component stores |
| **Components** `model/_component_base.py`, `component.py`, `component_group.py`, `manual.py` | values, bits, counts, strides, group instances, listeners, caches | `async_update`, `_refresh_repeating_groups`, `restrict_fields`, `write`, `add`, `remove` | a parent's plan covers its instances; invalidation runs up the parents |
| **Device** `model/device.py` | `_setup_done`, sub-systems | `async_ensure_setup`, `async_poll`, `async_read_raw` | polls components, notifies after the last read |
| **Writes** `model/_writing.py` | none | `write_register_field`, `write_bit_field` | read-modify-write of packed bits, read of a scale register |
| **Fields and codecs** `model/fields.py`, `decode.py`, `encode.py` | none | decode, encode, merge | pure |
| **SunSpec** `model/sunspec/` | scanned model chain, length-driven groups | `scan`, `bind`, verification of a read | a component layer over a scanned layout |
| **Mock** `mock.py` | stores, armed failures, canned responses, callbacks | every unit operation, `fail_*`, `on_write`, `load_raw` | stands in for a backend in the tests of libraries |
| **CLI, TLS, generator** | argument parsing, SSL context, code generation | | not part of the program's control |

What is hard here: everything runs on one event loop, so a task can be
overtaken at each `await` and nowhere else. The flight, the requests in the
lock's queue, teardowns that wait for both, a background recycle, transports
that drop and hooks that run late all interleave at those points, and any
caller may be cancelled at any of them.

What makes each part correct:

- connection core, pacer and backends: one request on the wire at a time; no
  transport left open behind the connection's back; a published client is
  alive; our own teardown fires no callbacks (not so with late hooks, see below); a closed connection stays down
  and starts no request; `close()` leaves nothing behind; a request in flight is
  cut only after the grace; a link that carries too small a timeout is about to
  be recycled; every call returns.
- callbacks: a snapshot of the callbacks is fired, each once.
- planning and ranges: the blocks read every field whole, none exceeds the span
  limit, none crosses an edge an author declared; pooling widens no read.
- components: after a poll the instances match the counts read; a cached plan
  covers exactly the current targets; the layout moves as a whole; a restriction
  takes addresses away and makes nothing unreadable.
- device: a poll's report says which sub-systems were refreshed and tells a dead
  link from a slow sub-system; listeners fire for exactly what was read.
- writes and codecs: what was written reads back as the nearest value the field
  has; nothing else is written; callbacks hear of a write once.
- SunSpec: a scan finds the whole chain; no value of another model is ever
  reported, and no alarm is false.

## Modules

| Module | What it is |
| --- | --- |
| `Connection` | the core: connection, pacing lock, both backends, transports |
| `Link` | what a shared link promises its users; `Connection` implements it |
| `MCConnection` | instances for TLC |
| `ConnectionProofs` | type correctness, the lock invariant and mutual exclusion; the client invariant and what follows from it; `Connection` implements `Link` |
| `ConnectionTeardownProofs` | what teardowns cut and leave behind; live clients; the recycle |
| `Refresh` | the update of a component with register-count groups, its pool, their plans |
| `MCRefresh` | instances for TLC |
| `RefreshProofs` | type correctness, what a resize returns; plans are current, updates are complete and settle the groups |
| `Planning` | readable maps and read plans, as operators |
| `PlanningProofs` | what blocks, merges and plans read and keep; plans that move; cells taken out of a map |
| `Layout` | where fields, scale registers, counts and instances sit; restriction, resize, edits, pools. Extends `Planning` |
| `MCLayout` | its components for TLC |
| `LayoutProofs` | plans are sound, alone and pooled; pools are current; what is excluded stays out; layouts move; narrowing spares what is kept |
| `Fields` | the fields, their codecs and helpers, as operators |
| `Mock` | the in-memory unit. Extends `Fields` |
| `Writing` | `write()` over that unit, with others at work. Extends `Mock` |
| `MCWriting` | a field of every kind, for TLC |
| `WritingProofs` | each write is told of once, and changes nothing but its field |
| `Device`, `MCDevice` | setup, polls, reports and listeners |
| `DeviceProofs` | the reports of polls |
| `SunSpec`, `MCSunSpec` | the scan, the components at the models found, a map that moves |
| `SunSpecProofs` | type correctness, exact scans, updates over a map that moves |

### Connection: state and steps

The code runs on one event loop, so **a step is what one task runs between two
suspension points**. What does not suspend (a free lock that nobody waits for, a
published client, a flight that has landed already) happens inside the step;
this is why `Request` goes as far as the wire when nothing is in its way.

- `pc[t]` is the `await` where task `t` is suspended. Requests: `join1` (first
  `connect()`), `queued` (lock), `gap` (pacing), `join2` (second `connect()`,
  lock held), `wire`. `eager` is a caller of `connect()`. Teardowns: `dJoin`
  (flight), `dQueue` (lock, bounded), `dClose` (closing with the lock), `dCut`
  (closing without it, the grace being over). `dStart` is a background
  `disconnect()` that was created and has not run yet.
- `holder` and `waiters` are the `asyncio.Lock`: `Granted` is its rule that a
  release wakes the first waiter while the lock stays free until that waiter
  runs, and that nobody overtakes a waiter. `LeavesQueue` is a waiter that is
  cancelled. A grace that expires in the step the lock was granted is included:
  `GraceExpires` needs the task only to be in the queue.
- `flight` is `_connect_task`: `none`, the stages of `_do_connect` (`new`, `ssl`,
  `opening`, `delay`, `disposing`), and `ok`/`fail` between the end of the task
  and its done callbacks (`ConnectDone`), a window in which `connect()` answers at
  once. `woken[t]` is the outcome a task that awaited the flight finds when it
  runs.
- `cstate[c]` is a backend client's transport. `client` is the published client,
  `flightClient` the one the flight has built, `unitCache` tmodbus's unit clients.
- `clientTimeout` is `_client_timeout`; `carried` is what the constructor was
  really given. The two differ only where the code lets them.

| Actions | Code |
| --- | --- |
| `Request`, `Connect`, `JoinResumes`, `LockResumes`, `GapEnds`, `WireEnds`, `WireDesyncs` | `_map_errors`, `connect`, `Pacer.paced` |
| `Disconnect`, `Close`, `RecyclerStarts`, `DJoinResumes`, `DLockResumes`, `GraceExpires`, `CloseReturns` | `disconnect`, `close`, `Pacer.exclusive`, `_close_client` |
| `FlightStarts` ... `FlightDisposes`, `ConnectDone` | `_do_connect`, `_connect_client`, `_create_client`, `_connect_done` |
| `TransportLost`, `TransportCloses`, `TornDownHook` | the transport and `_on_connection_lost` / `_on_trace_connect` |
| `RequireTimeout`, `RequireConnectDelay` | the handlers of the unit handle |
| `Cancel` | `Task.cancel` at any suspension point |

Abstractions. A request's payload, its result and the class of its error are
left out, except the desync, which tears the link down. A gap and a connect
delay either suspend or do not; their lengths are left out (the next module of
the plan has them). A negative timeout or delay, which raises `ValueError`, is not
asked for. Opening the transport and resuming the flight is one step.
tmodbus's `client.disconnect()` starts to close the transport before it
suspends, pymodbus's `close()` does not suspend. When the hook of a client that
*we* tear down runs is up to the backend library, so it is a constant: inside the
closing call (`LateHook = FALSE`) or from the loop at any later time
(`LateHook = TRUE`), which the code's own comment and `tests/test_tmodbus.py:308`,
`tests/test_backends.py:404` reckon with. A cancelled teardown's transport goes
on closing.

Bounds. Tasks run again after they return, so sequences of calls are not
bounded; what is bounded is how many overlap. `Recyclers` bounds the background
disconnects that run at once (a raise that would need one more is not taken).
Client identities are used again once nothing refers to them, so `Clients`
bounds only how many exist together (published, in the flight, closing).

### Refresh: state and steps

One component, at most one `ComponentGroup` it is a member of (`Pooled`), and
several tasks that update it, each always through the object or always through
the pool (`Via`). As before a step ends at an `await`: `Poll` is `_refresh()` up to
the first read, `ReadReturns` is the end of the first pass with everything that
follows it without suspending (store the values, resize every group, drop the
caches, plan the read of what was added), `GrowReturns` the end of the second
pass, `ReadFails` a failure or cancellation in either.

- `target[k]` is what a field name or key stands for, `value[k]` the target whose
  decode is stored under it. Storing a target instead of a number is what lets the
  model tell a stale value from a fresh one.
- `inst[g]` is the list of instances of group `g`; an instance is the resize that
  built it (`epoch`) and the stride it was built at, so a rebuilt instance differs
  from the one it replaces. `counts`, `width` are what was decoded last, `stride`
  is `_strides`. `filled` is the instances some read has stored values in.
- `items` is the cached property `_read_items`, `plan["self"]` and `plan["pool"]`
  are the two `_plan`s. A plan is the set of targets it covers.
- `disturbed[t]` and `torn` are history: they record what the properties are
  conditional on and no step reads them.

`Invalidate` follows the order of the code: the object's own caches go first, then
the pool merges its members' maps, which raises when they conflict and keeps the
pool's plan. `SecondPass` is the resize loop: a stride that is not positive raises
out of it, with the groups before it resized (`Placed`). Blocks, addresses and the
arithmetic of ranges are left out: a read returns its whole plan or fails, and
whether maps agree is a constant predicate of how many instances there are
(`SelfFits`, `PoolFits`); `Layout` has that arithmetic. Fixed-count groups are
further own targets; adding or removing a group at run time is not modelled.

### Planning and Layout: what is read

`Planning` is the pure half: a map gives per address space a set of ranges and
whether an author declared them or they are a claim, and `Merged`, `Shifted`,
`Excluding`, `Claimed`, `PlanBlocks` say what the functions of the same name
return, over sets where the code sorts lists. `Refused` is a `ValueError`.
`Runs` is what the joint walk over sorted intervals and edges comes to: the
longest runs of covered addresses with no edge inside. `Loop` is the loop of
`_plan_blocks` over the spans in order: its state after each span, which is what a
loop invariant can be stated of. A span takes part in the loop as its cells alone,
since those of two address spaces are planned apart.

In `Layout` a component is a record of its class and its placement. `Spans` and
`Resolved` are `_read_items` and `_resolved_ranges()`; they follow the groups down
(a group's instances are components and may have a group), where the code is
recursive: `Levels` is the component, its instances, theirs and so on, and
`Resolved` merges the maps from the deepest level up. Both are functions of the
depth, which a bound `MaxDepth` and the classes of each depth (`Classes`) make
finite, as the code's classes are. `comp[m]` changes by
`RestrictFields`, `Resize` (the count a poll decodes for the member's own group; the
counts of groups nested in its instances do not change), `AddTarget` and
`RemoveTarget`; each goes through `Reshape`, which re-merges the map of the pool
the member last joined, as `_invalidate_caches()` does. A pool whose merge raised
keeps its old map and is `torn`; `MakePool` also models what the constructor does
before it raises. `dropped` and `excluded` are history: the fields that `restrict_fields()` dropped,
and the addresses it took out with them.

The properties are stated about the *plans*, without the operators that build
them where that is possible: `PlansAreSound` says what any planner must deliver,
`PoolReadsNothingMore` compares a pool's plan with what its members alone would
read, `RelocationMovesPlan` builds the same layout one address further on and
compares. `RestrictKeepsReadable` excludes components whose fields overlap: there
`restrict_fields()` with a `max_span` can synthesise ranges that overlap, which
every later plan refuses (see below).

### Fields, Mock and Writing: what is written

A number is an integer count of grains, `Unit` of them to 1: Python's floats are
exact in the model, as their noise is what `Unscale` first rounds away. A register
has `WordBits` bits (4 in the run) and two characters; `Digits` is the number of
decimals `_decimals()` can see (1 for 10), `Usable` the exponents whose power of
ten is a number. What depends on widths (sign, sentinels, overflow, word order)
depends on them in the same way. `Field` and its helpers are records with the
defaults of the code's helpers, SunSpec's points included.

`Mock` keeps the order of a store's specifications, since a later list hides an
earlier one, and that setting a base anew discards what its list had behind the
first word. `Writing` has one record per `write()`: `Ask` is everything up to the
first request, `Read` the register read that packed and dynamically scaled fields
need, `Send` the write. `Other` and `Rearm` are the device, another master and the
test (`load_raw()`, assignments to a store, mask writes), at any point between the
requests; `Put` is both of the first two. `Sends` stands for the encoder of whichever
kind of field. `raced` is history: the register a call
read is no longer what it was; so is `events`, what the callbacks of the unit were
told and of whose write (`Anyone` for a write that is no call's).

### Device: polls

One record per call of `async_poll()` or `async_read_raw()`. `Begin` runs to the
first await; `Settle` is one `read_optional()` of a setup, which several calls may
run side by side; `Read` is one sub-system's update and everything up to the next
await, which after the last one is the listeners, in order, any of which may raise
(`Proceeds`). What an update may raise is one of five kinds (`Errors`), the ones
the code tells apart. A caller may go on with the report of an earlier call of its own,
one that raised included; a report that two calls share at once is left out.
`unheard` and `steady` are history.

### SunSpec: a map that moves

The device is a sequence of models, whose headers stand at `Addresses`; `Move` replaces it between any two requests.
`Scan`, `NextHeader`, `ScanRaises` walk it header by header; `Build` is an
integration that asks `first()` for a model; `Update` polls one component or
several together, block by block, then verifies every header. Blocks are the
header, the fixed part and each instance, read apart: finer than the code, which
joins them, so the map has more chances to move. One update runs at a time and
`RestrictFields` comes between updates; updates that overlap each other or an edit
are the subject of `Refresh`. A header word of 0xFFFF is compared as a word
where the code decodes it to `None`. `moved` is history.

### Runs

| Run | Instance | What it shows |
| --- | --- | --- |
| `core_tmodbus` | `FairSpec`: 2 requests of 2 units, 1 owner, cancellation of the requests, 3 clients | the core safety properties and the refinement of `Link`; every request and teardown returns |
| `core_pymodbus` | 2 requests, 2 owners, TLS, a withdrawable connect delay, gaps, late hooks, 4 clients, no cancellation | what still holds with a synchronous close, an awaited SSL context, two more suspension points and hooks that run after the next client was published |
| `timeouts` | 1 request, 2 owners, 2 units asking for timeouts 1, 3 or none (default 2), 2 recyclers, pymodbus without TLS | a link that carries too little always has a recycle under way, which leaves nothing behind a `close()` and cuts nobody short |
| `refresh` | 2 pollers, one through the pool, 1 key, 2 groups of at most 1 instance, strides 1, 2 or rejected, maps that agree up to one instance, edits, 2 resizes | current plans, complete and settled updates |
| `layout` | a component of 6 layouts (one in which a scale register is another field as well), one of 6 with a group (nested, scaled, mapped or not), a manual one; addresses below 9, blocks of 4, gaps of 2; two pools that share a member | the plans are sound, alone and pooled, through every sequence of restrictions, resizes, edits and new pools |
| `writes` | 2 calls, 34 fields (one at the head of a list of the mock's), values that fit, do not fit, fall between steps or are negative; one change or failure by others | what is written reads back, nothing else is written, other bits of a register included, callbacks hear of it once |
| `device` | 2 callers with 2 calls each, 3 sub-systems, 2 of them optional, 3 tuples of names, 2 errors | reports and listeners, with setups that overlap |
| `sunspec` | 8 maps (repeated ids, no marker, models that fit, leave no room or do not end), 2 components, 2 moves, 1 lost request | scans, polls and the header check |
| `dead_link`, `desync_queue`, `late_hook`, `restrict_pooled` | | four places where the code and its documentation disagree, see below |

Two requests and two teardowns are the smallest instance in which a request
holds the lock, another waits for it, one teardown waits in the queue behind it
and another waits for the flight; each hazard listed in `PROJECT.json` needs no
more. Two units are needed for the unit cache and for timeouts that are raised
by one and withdrawn by another. In `core_tmodbus` up to three teardowns run at
once, the owner's and those of the requests that found a desync; two `close()`
calls meet in `timeouts` and in `core_pymodbus`. Client identities are symmetric in
the other runs of `Connection`; `core_tmodbus`, which checks liveness, uses no
symmetry. Deadlock is checked in the runs of
`Connection`, `Refresh`, `Layout` and `SunSpec`; in those of `Writing` and
`Device` the calls run out, which is no deadlock.

For `Refresh`, two pollers suffice for one to resize under the other; two groups
for a resize that stops half-way; two positive strides for a group that moves;
`MaxEpoch` bounds how often a behaviour resizes: two are needed to resize under a
second pass, and recovery needs none. Polls, failures and edits are not bounded.

For the data: two fields apart by the gap, one more and one less, a limit smaller
than the map and maps that touch, overlap, nest and differ make every comparison
in `PlanBlocks` and `MergedSpace` come out both ways. A layout that fails on
larger addresses fails on these shifted. A count of 0, 1 and 2 grows a group from
nothing, from something, and shrinks it. For `writes`, a 4-bit register reaches
every sign bit, sentinel and overflow with single values; one change by others is
enough, since a call reads one register and sends one request. For `device`, two
errors make a poll that goes on after the first and ends at the second, or one
error for each caller. For `sunspec`, two moves are away and back, or away and
further; `MaxModels` is 3 and one map has exactly as many.

Fairness. `Fairness` says that the event loop runs what is ready and that timers
fire (gaps, connect delay, the teardown grace): `WF` of each task's `Resumes(t)`,
in which the lock and the grace of a waiting teardown are alternatives, since
either ends the wait. It says that the flight goes on (`FlightStep`), opening
having succeeded or failed (the backend clients are built with a timeout), and that
a transport asked to close does (`TransportCloses`). No caller is assumed to call
anything. A request on the wire is assumed to end only once its client is gone
(the last disjunct of `Resumes`), and nothing is assumed about devices that answer:
`TeardownsReturn` therefore holds against a device that keeps the socket open and
never answers, by the grace alone. `RequestsReturn` is conditional on the wire
becoming empty again and again (`WireEmpties`), which the client's timeout sees to.
Cancellation is no part of it: nobody is bound to return by being cancelled.

### Where code and documentation disagree

Shown by a run each:

- `dead_link`: a transport lost during the connect delay is published all the
  same, because the hook finds no published client. `connected` stays `True`.
- `desync_queue`: the lock is released before the desynced link is dropped, so a
  queued request goes out over it.
- `late_hook`: a hook tells its own teardown by there being no published client, and
  is not tied to one. `disconnect()` unpublishes a client and awaits its close; a
  `connect()` that needs no lock publishes the next; the old client's hook, if the
  backend runs it from the loop after that, drops the new client, its transport left
  open, and fires the connection-lost callbacks. The docs say that neither `close()`
  nor `disconnect()` fires them; the backend's tests reckon with a hook that the loop
  runs, but not after another connect. With the hook inside the closing call
  (`LateHook = FALSE`) there is nothing to check: no client is published then.
- `restrict_pooled`: two members of a `ComponentGroup` share their declared ranges
  and one is narrowed. Its declaration now differs from the other's and overlaps
  it, so the merge raises `ValueError` out of `restrict_fields()`, the member
  narrowed already, though the docs call that supported at any time.

Stated in the modules, without a run of their own; the instance named shows it:

- pymodbus with TLS reads the timeout after an `await`, the core records it
  before, and a raise can be overlooked: `ShortTimeoutIsRecycled` in `timeouts` with
  `Tls = TRUE`.
- A read in flight stores the value of a field that `restrict_fields()` excluded
  meanwhile, and the field keeps it: `ExcludedReadsNone` in `refresh` with
  `Keys = {k1, k2}`, `NGroups = 0`, `Edits = {"restrict"}`, `Pollers = {p1}`,
  `Via <- OwnOnly`.
- A stride that does not resolve raises out of the resize loop before the plan is
  dropped; the next poll finds the groups before it at their counts, so nothing
  drops the plan later either and their instances stay unread:
  `ResizeDropsPlan` in `refresh` with `Widths = {0, 1}`, `Edits = {}`,
  `Pollers = {p1}`, `Via <- OwnOnly`.

- A component is narrowed twice. The first `restrict_fields()` drops a field at a
  register that a kept field reads too, as its scale register; so that register
  stays. The second drops that other field; it takes out the addresses of what it
  drops, and a scale register is none of them (`component.py:318-320`), so a block
  may span the register. `restricting-fields.md:44-45` and
  `components-reference.md:95-96` say that a block never spans an excluded register:
  `DroppedIsNotRead` in `layout`.

Visible in the models, each the reason for a condition of a property:

- A pool whose members come to conflict raises once and then updates by its old
  plan (`torn`). A `ComponentGroup` whose constructor raises stays the parent of
  its members, and a member's earlier pool hears of no reshape (`Current`).
- Of two updates that grow a group at once, one returns while the instances the
  other added are unread (`disturbed`).
- `ManualComponent.add()` removes what the key stood for before it validates the
  new target (`Droppable`, `AddTarget`).
- Overlapping fields and a `max_span`: the ranges `restrict_fields()` synthesises may
  overlap, and then no plan can be built (`RestrictKeepsReadable`).
- A write reads the scale factor, or the register it merges bits into, one request
  before it writes, and whatever changes in between is not seen (`raced`). Of the
  scale factor `modelling/sunspec.md:49-51` says that it "is read fresh in the same
  write. A factor the device shifted meanwhile therefore cannot mis-scale the write":
  true of a factor shifted since the last poll, not of one shifted between the two
  requests.
- A write to the first register of a list that a test seeded in the mock discards
  the rest of that list, which then reads 0 (`Put`, `Replaced`); a real device's
  neighbouring registers stay.
- `encode_int()` takes a negative number for an unsigned field, a large one for a
  signed field, and a field's own sentinel; all read back as something else. An
  unscaled field drops a fraction where a scaled one rounds (`Holds`, `Near`).
- Two first polls run `_async_setup()` twice; the later run may set to `None` what
  the earlier poll goes on to use, which then raises `AttributeError` before all
  listeners were told, as a listener that raises does (`crashed`, `steady`).
- A report carried over several polls never loses a name from `failed`, also when
  a retry succeeds, and its earlier answers make a timeout of a dead link look like
  a slow sub-system (`answered`).
- `SunSpecMapShiftError` is not a `ModbusError`: it ends a device's poll before the
  listeners of what was read are told (`Errors`). When it is raised, the values
  read are stored already.
- A scan of a chain of exactly the maximum number of models raises, though the
  chain ends: the end header is never read (`ScanIsExact`).
- A class that declares more registers than the model has reads into its
  neighbour, unless it has a length group (`ToldMeansUnmoved`).

### Proofs

For `Connection`, for any number of tasks, units, clients and timeouts, from the assumptions
`TasksAssumption`, `ClientsAssumption`, `VariantAssumption` and
`TimeoutsAssumption` of `Connection` (disjoint sets of tasks, sentinels outside
their sets, a largest element in each nonempty set of timeouts).

- `TypeCorrect`: `Spec => []TypeOK`. One lemma per helper says what it leaves in
  the variables it writes, then one step per action.
- `RequestsAreSerialized`: `Spec => []OneRequestOnWire`. Not inductive as it
  stands: `LockInv` (a task is at a point inside the lock iff it is the holder)
  is. Every task step is a `Moves(t)`: it moves `t` alone and leaves the lock with
  `t` iff the place is inside it. This is where a teardown whose grace has
  expired matters: it must not give back a lock it never had.
- `NoClientLeaks`: `~LateHook` implies `Spec => []NoLeakedClient`. `ClientInv`
  adds that a flight is in the air only while no client is published, which is
  what makes the client that is lost the client that is unpublished, and that
  what is being disposed of is closing. Without `~LateHook` it is false.
- `CacheIsCurrent`, `ClosedLetsNoRequestStart`, `ClosingIsPermanent`: the action
  properties, from `ClientInv` and a lemma (`StepKinds`) that sorts the steps into
  those of a request, of a teardown, of the flight and of a transport.
- `ConnectionImplementsLink`: every step of `Connection` is a step of `Link` or a
  stutter, from `LockInv` and `ClientInv`.
- `RequestsAreCutByGraceOnly`: `~LateHook` implies `Spec => OnlyGraceCutsRequest`.
  `TaskInv` joins the client and lock invariants with `WokenInv` (nobody keeps
  the outcome of a flight it is not waiting for) and `WireInv` (a request on the wire
  has a client, and keeps it). A request on the wire holds the lock, so whoever takes its
  client away has either waited for that lock and given up, or is its transport.
- `CloseLeavesNothingBehind`: `~LateHook` and no cancellable owner imply
  `Spec => []CloseLeavesNothing`. `CloseInv`: a closed connection is down, or the
  teardown of some owner is still due (`Due`): it waits, and will take whatever
  client there is then. An owner cancelled inside `close()` leaves the client behind, with nobody
  to take it: hence the hypothesis.
- `PublishedClientsAreAlive`: with no connect delay (`~BaseDelay`,
  `DelayUnits = {}`), `Spec => []PublishedIsAlive`, whenever the hook runs. With a
  delay a transport may be lost while the flight waits it out, and the run
  `dead_link` shows the dead client published.
- `ShortTimeoutsAreRecycled`: `Backend = "tmodbus" \/ ~Tls` implies
  `Spec => []ShortTimeoutIsRecycled`. `CarriedInv`: what was built carries the
  timeout that is recorded; `RecycleInv`: while that is less than the units ask
  for, a recycle is on its way. pymodbus with TLS reads the timeout after its
  await, and the timeout may have been raised meanwhile.

The hypotheses are constants of the model, and each is the setting of a run:
`LateHook` is described under `Connection`, and what it does to them under
"Where code and documentation disagree".

For `Refresh`, for any number of pollers, keys, versions, groups and counts,
whatever the strides resolve to and whichever maps conflict, from
`RefreshAssumption`:

- `RefreshTypeCorrect`: `Spec => []TypeOK`, on `ResizedType`, which says what a
  resize returns: the counts asked for, of well-formed instances. `TypeOK` says of
  an instance that it was built at a positive stride: one that is rejected reaches
  neither the layout nor a plan nor a second pass.
- `PlansAreNeverStale`, `UpdatesAreComplete`, `UpdatesSettleGroups`: the three
  properties, from one inductive invariant `RefreshInv`. That a read in flight
  covers what is there (`FirstPassCovers`) is not inductive: an update undisturbed
  by others may still be undone by a read that began before an edit, so the
  invariant says that while such a read is out nobody in flight counts on the edit
  (`StaleReadsKnown`), and likewise for a reshape an exception cut short
  (`TornKnown`). `PlacedSettled` says which groups a resize has dealt with even
  when it stopped half-way; with it, `async_update_repeating_groups()` by itself
  finds nothing to resize. `BuiltAtStride` keeps the instances of a group at one
  stride.

For `Device`, for any number of polls, names and sub-systems, from `DeviceAssumption` (what is optional is among the names, the lists
asked for are made of names):

- `DeadLinkIsAlwaysTold`, `UpdatesAreAlwaysTold`, `CompletePollsRefreshed`:
  `Spec => []` of `DeadLinkIsTold`, `UpdatesAreTold` and `CompleteMeansRefreshed`,
  from one invariant `DeviceInv`. `ReportInv` says that no timeout is on a report
  on which nothing has answered, `CallInv` what a call at each point has read,
  told and has still to tell, and `SteadyInv` that every name asked for, and
  there throughout, is updated, failed, or still to be read. The last is what
  makes an empty `failed` mean a complete poll, and is where `PendingSkips` comes
  in: the names a read passes over are those the device does not have.

For `SunSpec`, for any maps, classes, components, moves and lost answers, from
`SunSpecAssumption` (chains of models with natural ids and lengths, none with the
end id; a class declares at least the header):

- `SunSpecTypeCorrect` and `ScansAreExact`: `Spec => []TypeOK`, `Spec =>
  ScanIsExact`. `ScanInv`: a scan that saw one map has found just its first `k`
  models and stands at the header behind them. That the addresses of a chain rise
  (`AddressesRise`) needs induction over the models; it is done for one concrete
  set at a time (`UpTo`), from the well-founded order of the naturals
  (`LeastNatural`), and not with the library's induction rules, whose operator
  parameter no installed prover can instantiate.
- `ShiftsAreReal`: `Spec => ShiftIsReal`. `UpdateInv`: an update that saw one map
  has noted the header that is there for each component it need read no more of,
  whatever fields the component is restricted to.
- `ToldUpdatesAreUnmoved`: `Data \notin Asked` implies `Spec => ToldMeansUnmoved`;
  `BlocksCover` says that the blocks of a component with a group are the model's
  registers. The hypothesis says that no register of data looks like the id of a
  class. Two words are all that the code compares, so without it a model that
  moved away from registers that look like its header goes unnoticed.

For `Planning`, for any spans, maps, gaps and limits, from `PlanningAssumption`
(`None` and `Refused` are no maps):

- `BlocksReadSpans`, `PlansReadSpans`: the blocks of a plan read every span whole,
  are no wider than the limit and stay each inside one range of the map. `LoopInv` is the invariant of the loop over the spans: those
  done are in a block, the block being built is within the limit and within a
  range, and begins no later than those to come. The loop is a recursive function
  on the number of spans; `LoopDef` shows that there is one (by `UpTo`, since the
  library's theorem for such definitions takes an operator).
- `MergeKeepsDeclarations`: a merge covers what its parts cover and nothing else,
  and has an edge wherever a declaration has one.
- `PlansMove`: the plan of spans and maps moved one address up is their plan, moved
  one address up. Every operator of the module is shown to move likewise, from
  `Runs` (`UpRuns`) and the merge of a space (`UpMergedSpace`) to each step of the
  loop (`UpNextSpan`).

For `Layout`, for any components, classes, groups of groups, maps, targets and
pools, from `LayoutAssumption`: classes are well-formed (`IsComponent`: a field
fits into a block, instances are some distance apart), groups nest at most
`MaxDepth` deep, a member is not an instance, a manual component is at no offset.

- `PoolsFollowMembers`: `Spec => []PoolMapIsCurrent`. `PoolInv` adds that the members
  of a pool there is have it for a parent, so whichever is reshaped, the pool hears.
- `ResolvedKeepsDeclarations`: the map of a component with all its instances has
  every edge that it or an instance, however deep, declares. The proof goes down the
  levels for types (`LevelsType`) and up again for maps (`LevelsKeep`).
- `SoundPlans`: `Spec => []PlansAreSound`, and `PoolingWidensNothing`: `Spec =>
  []PoolReadsNothingMore`, from the theorems above and `MembersInv`, which says that
  whatever restriction, resize, `add()` or `remove()` made of a member is still
  well-formed.
- `ExcludedStaysOut`: `Spec => []ExcludedIsNotRead`. `ExcludedInv`: an address that was
  taken away is in no range of its space's map, and where that space has none, nothing
  of it is read at all. The second half is what a later restriction needs: a map is
  synthesised only where there was none, and then nothing had been taken away that
  it could give back.
- `LayoutsMove`: `Spec => []RelocationMovesPlan`, from `PlansMove`, level by level
  (`LevelsMove`, `ResolvedMoves`).
- `RestrictSpares`: `Spec => RestrictKeepsReadable`. Cells taken out of disjoint ranges
  leave disjoint ranges in which every span that has none of those cells is whole
  (`ExcludingSpares`); blocks of spans that do not overlap do not overlap either
  (`BlocksAreApart`, with `Ahead` as the loop's invariant), so a map synthesised from
  them is valid. Without the hypothesis on overlap it is false, see above.

For `Writing`, for any fields, values and calls, whatever others write and set on
the unit meanwhile, from `WritingAssumption`: the writer that stands for everybody
else is none of the calls, packed bits and coils take up one register, addresses
are natural numbers and the stores are made of words.

- `CallbacksHearOnce`: `Spec => []WritesAreReportedOnce`. `WritingInv`: a call
  that has not been carried out has no event in the log, one that has has exactly
  one, of its own words, whether or not its answer was lost. The property speaks
  of the indices of the log and not of a filtered sequence, so the proof needs no
  induction over the log.
- `WritesStayInside`: `Spec => NothingElseIsWritten`. `FitInv`: a call that sends has
  just as many words as its field has registers (`EncodeFills`, for every kind of
  field). `PutEachKeeps` follows the words into the store one by one: at each, an
  address that no list based in the written registers reaches shows what it did.

Only model-checked:

- liveness (`RequestsReturn`, `TeardownsReturn`), which is out of the prover's
  reach, as is `ENABLED`;
- what the codecs compute and what a packed write leaves of its register
  (`NumbersReadBack`, `ValuesReadBack`, `OtherBitsAreKept`): they rest on powers of two
  and ten, of which the provers know nothing but particular values, and on folds.

## Plan

Modelled: the connection with its abstract `Link`; the update of components, their
layout and plans; fields and writes over the mock; the device; SunSpec. Proved:
every safety and action property the passing runs check but the three above.

Left to model, if runs are given up for them: the lengths of the pacer's gaps,
the callback registry, groups added to and removed from manual components.
