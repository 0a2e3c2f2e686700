------------------------------ MODULE SunSpec -------------------------------
(***************************************************************************)
(* A SunSpec device and a library that scans its chain of models, builds    *)
(* components at the models it found and polls them: sunspec/scan.py and    *)
(* the component classes of sunspec/__init__.py.  The device may rearrange  *)
(* its chain (a firmware update, an added meter) between any two requests,  *)
(* and any request may fail.                                                *)
(*                                                                         *)
(* A map is [marker, models], models a sequence of [id, length]; from Base  *)
(* on it lays out the marker, each model's header and data, and a header    *)
(* that ends the chain.  A register that is none of these reads as Data.    *)
(***************************************************************************)
EXTENDS Integers, Sequences, SequencesExt, FiniteSetsExt

CONSTANTS
  Maps,       \* the register maps the device may have
  Base,       \* the address of the marker
  Limit,      \* the last address the device answers
  EndId,      \* _END_MODEL_ID
  Data,       \* a register that holds data
  MaxModels,  \* _MAX_MODELS
  Wanted,     \* the sequences of model ids an integration asks first() for
  Fixed(_),   \* registers a class declares before its group, header included
  Stride(_),  \* the stride of a class's model_length_group; 0 without one
  None,
  MaxParts,   \* bound: components at a time
  MaxMoves,   \* bound: how often the map changes
  MaxFailures \* bound: requests that fail

\* A class that an integration asks for declares the two registers of the header.
ASSUME SunSpecAssumption ==
  /\ Base \in Nat /\ Limit \in Nat /\ MaxModels \in Nat \ {0}
  /\ EndId \in Nat /\ Data \in Nat /\ None \notin Nat
  /\ \A chain \in Maps : chain.models \in Seq([id : Nat \ {EndId}, length : Nat])
  /\ \A ids \in Wanted :
       /\ ids \in Seq(Nat)
       /\ \A i \in DOMAIN ids : Fixed(ids[i]) \in Nat \ {0, 1} /\ Stride(ids[i]) \in Nat

VARIABLES
  map,      \* the device's registers
  scanning, \* scan(): the next header and the models so far
  models,   \* the SunSpecModels of the last scan that returned: id -> models
  parts,    \* the components built: [model, count, reads]
  update,   \* the update in flight: [of, left, header], or None
  moved,    \* who has seen the map move since it began: subset of {scan, update}
  moves, failures

vars == <<map, scanning, models, parts, update, moved, moves, failures>>

NoModels == [id \in {} |-> <<>>]
NoScan == [at |-> None, found |-> NoModels]

Init ==
  /\ map \in Maps
  /\ scanning = NoScan /\ models = NoModels /\ parts = {}
  /\ update = None
  /\ moved = {} /\ moves = 0 /\ failures = 0

-----------------------------------------------------------------------------
\* The device.
Span(model) == model.length + 2

\* Where the models of a chain begin, and where the header after the last one does.
Addresses(chain) ==
  LET at[i \in 1 .. Len(chain) + 1] ==
        IF i = 1 THEN Base + 2 ELSE at[i - 1] + Span(chain[i - 1])
  IN at

\* The models of the map with their addresses, in chain order.
Layout == [i \in DOMAIN map.models |->
             [id |-> map.models[i].id, length |-> map.models[i].length,
              address |-> Addresses(map.models)[i]]]
End == Addresses(map.models)[Len(map.models) + 1]

Answered(start, count) == start + count - 1 <= Limit
Header(a) ==
  IF \E i \in DOMAIN Layout : Layout[i].address = a
  THEN LET model == Layout[CHOOSE i \in DOMAIN Layout : Layout[i].address = a]
       IN <<model.id, model.length>>
  ELSE IF a = End THEN <<EndId, 0>> ELSE <<Data, Data>>

Move ==
  /\ moves < MaxMoves /\ moves' = moves + 1
  /\ map' \in Maps \ {map}
  /\ moved' = {"scan", "update"}
  /\ UNCHANGED <<scanning, models, parts, update, failures>>

-----------------------------------------------------------------------------
\* Mutant: a repeated id replaces the model found before.
AddModelOnce(found, model) ==
  [id \in DOMAIN found \cup {model.id} |->
     IF id = model.id THEN <<model>> ELSE found[id]]

\* SunSpecModels.
AddModel(found, model) ==
  [id \in DOMAIN found \cup {model.id} |->
     (IF id \in DOMAIN found THEN found[id] ELSE <<>>)
     \o (IF id = model.id THEN <<model>> ELSE <<>>)]
Members(found) == UNION {ToSet(found[id]) : id \in DOMAIN found}
Chain(found) ==
  [i \in 1 .. Cardinality(Members(found)) |->
     CHOOSE model \in Members(found) :
       Cardinality({other \in Members(found) : other.address < model.address}) = i - 1]
First(found, ids) ==
  IF \E i \in DOMAIN ids : ids[i] \in DOMAIN found
  THEN found[ids[Min({i \in DOMAIN ids : ids[i] \in DOMAIN found})]][1]
  ELSE None

\* scan(): the marker, then header after header.
Scan ==
  /\ scanning = NoScan
  /\ moved' = moved \ {"scan"}
  /\ IF map.marker
     THEN scanning' = [at |-> Base + 2, found |-> NoModels]
     ELSE UNCHANGED scanning
  /\ UNCHANGED <<map, models, parts, update, moves, failures>>

FoundAll == Cardinality(Members(scanning.found)) = MaxModels
NextHeader ==
  /\ scanning # NoScan /\ ~FoundAll
  /\ Answered(scanning.at, 2)
  /\ LET header == Header(scanning.at)
         model == [id |-> header[1], length |-> header[2], address |-> scanning.at]
     IN IF header[1] = EndId
        THEN models' = scanning.found /\ scanning' = NoScan
        ELSE /\ scanning' = [at |-> scanning.at + Span(model),
                             found |-> AddModel(scanning.found, model)]
             /\ UNCHANGED models
  /\ UNCHANGED <<map, parts, update, moved, moves, failures>>

\* SunSpecError after _MAX_MODELS headers, or an illegal data address.
ScanRaises ==
  /\ scanning # NoScan /\ (FoundAll \/ ~Answered(scanning.at, 2))
  /\ scanning' = NoScan
  /\ UNCHANGED <<map, models, parts, update, moved, moves, failures>>

ScanFails ==
  /\ scanning # NoScan /\ failures < MaxFailures
  /\ failures' = failures + 1 /\ scanning' = NoScan
  /\ UNCHANGED <<map, models, parts, update, moved, moves>>

-----------------------------------------------------------------------------
\* _ModelLengthGroup.bind: the instances between the group's start and the
\* model's end, or SunSpecError.
Room(model) == Span(model) - Fixed(model.id)
\* Mutant: the room is not checked.
BindFloored(model) ==
  IF Stride(model.id) = 0 THEN 0 ELSE Room(model) \div Stride(model.id)

Bind(model) ==
  IF Stride(model.id) = 0 THEN 0
  ELSE IF Room(model) < 0 \/ Room(model) % Stride(model.id) # 0 THEN None
  ELSE Room(model) \div Stride(model.id)

Build == \E ids \in Wanted :
  LET model == First(models, ids) IN
    /\ model # None
    /\ Bind(model) # None
    /\ Cardinality(parts) < MaxParts
    /\ parts' = parts \cup {[model |-> model, count |-> Bind(model),
                            reads |-> {"header", "data"}]}
    /\ UNCHANGED <<map, scanning, models, update, moved, moves, failures>>

\* Mutant: the header is dropped with the rest.
RestrictedBare(names) == names

\* restrict_fields, which keeps the header whatever it is asked for.  Only between
\* updates: what it does to one in flight is the subject of Refresh.
Restricted(names) == names \cup {"header"}
RestrictFields == \E part \in parts, names \in SUBSET {"data"} :
  /\ update = None
  /\ parts' = (parts \ {part}) \cup
                {[part EXCEPT !.reads = Restricted(names) \cap @]}
  /\ UNCHANGED <<map, scanning, models, update, moved, moves, failures>>

\* The registers of a component, relative to its model's address, as blocks:
\* the header, the fixed part and each instance of its group.
Blocks(part) ==
  LET id == part.model.id
      block(start, count) == [of |-> part, at |-> part.model.address + start, count |-> count]
  IN (IF "header" \in part.reads THEN {block(0, 2)} ELSE {})
     \cup (IF "data" \in part.reads
           THEN {b \in {block(2, Fixed(id) - 2)} : b.count > 0}
                \cup {block(Fixed(id) + i * Stride(id), Stride(id)) : i \in 0 .. part.count - 1}
           ELSE {})

-----------------------------------------------------------------------------
\* An update of one component or of a group of them: every block in address
\* order, then every header against the scanned one, then the listeners.
Update == \E group \in SUBSET parts \ {{}} :
  /\ update = None
  /\ update' = [of |-> group, left |-> UNION {Blocks(part) : part \in group},
                header |-> [part \in group |-> None]]
  /\ moved' = moved \ {"update"}
  /\ UNCHANGED <<map, scanning, models, parts, moves, failures>>

NextBlock(block) ==
  /\ update # None /\ block \in update.left
  /\ \A other \in update.left : block.at <= other.at

ReadBlock ==
  /\ update # None
  /\ \E block \in update.left :
       /\ NextBlock(block) /\ Answered(block.at, block.count)
       /\ update' = [update EXCEPT
            !.left = @ \ {block},
            !.header = IF block.at = block.of.model.address
                       THEN [@ EXCEPT ![block.of] = Header(block.at)] ELSE @]
  /\ UNCHANGED <<map, scanning, models, parts, moved, moves, failures>>

\* A lost request, or one the device rejects, ends the update.
UpdateFails ==
  /\ update # None
  /\ update' = None
  /\ \/ failures < MaxFailures /\ failures' = failures + 1
     \/ /\ \E block \in update.left : NextBlock(block) /\ ~Answered(block.at, block.count)
        /\ UNCHANGED failures
  /\ UNCHANGED <<map, scanning, models, parts, moved, moves>>

\* Mutant: the model's length is not compared.
VerifiedById(part) ==
  /\ update.header[part] # None
  /\ update.header[part][1] = part.model.id

\* _verify_read of a component (a header word of 0xFFFF, which decodes to no value and
\* so never matches, is not told apart); a group asks each of its components.
Verified(part) == update.header[part] = <<part.model.id, part.model.length>>
AllVerified == \A part \in update.of : Verified(part)

Done == update # None /\ update.left = {}
Notify ==
  /\ Done /\ AllVerified
  /\ update' = None
  /\ UNCHANGED <<map, scanning, models, parts, moved, moves, failures>>

MapShifted ==
  /\ Done /\ ~AllVerified
  /\ update' = None
  /\ UNCHANGED <<map, scanning, models, parts, moved, moves, failures>>

Next ==
  \/ Move
  \/ Scan \/ NextHeader \/ ScanRaises \/ ScanFails
  \/ Build \/ RestrictFields
  \/ Update \/ ReadBlock \/ UpdateFails \/ Notify \/ MapShifted

Spec == Init /\ [][Next]_vars

-----------------------------------------------------------------------------
ModelType == [id : Int, length : Nat, address : Nat]
\* The variables hold what the code's attributes and locals can hold: a component never
\* has fewer than no instances, however short its model is.
TypeOK ==
  /\ map \in Maps
  /\ scanning # NoScan => scanning.at \in Nat /\ Members(scanning.found) \subseteq ModelType
  /\ Members(models) \subseteq ModelType
  /\ \A part \in parts : part.model \in ModelType /\ part.count \in Nat
  /\ update # None => DOMAIN update.header = update.of
  /\ moved \subseteq {"scan", "update"}

(***************************************************************************)
(* A scan that saw one map throughout returns exactly that map's models, in *)
(* chain order, repeats of an id included; and it only raises when the map  *)
(* holds MaxModels models or more (it gives up before it reads the end), or *)
(* does not end within the registers the device answers.  (sunspec/scan.py) *)
(***************************************************************************)
ScanIsExact ==
  [][/\ NextHeader /\ scanning' = NoScan /\ "scan" \notin moved => Chain(models') = Layout
     /\ ScanRaises /\ "scan" \notin moved =>
          Len(map.models) >= MaxModels \/ ~Answered(End, 2)]_vars

(***************************************************************************)
(* An update that saw one map throughout tells its listeners only if every  *)
(* component of it still stands at the model it was built for, however      *)
(* often the map moved since the scan; and a component with a length group  *)
(* that is not restricted has then read that model from the header to its   *)
(* last register and nothing of its neighbours.  (_verify_read, bind)       *)
(***************************************************************************)
Registers(block) == block.at .. block.at + block.count - 1
ToldMeansUnmoved ==
  [][Notify /\ "update" \notin moved =>
       \A part \in update.of :
         /\ part.model \in ToSet(Layout)
         /\ Stride(part.model.id) > 0 /\ "data" \in part.reads =>
              UNION {Registers(block) : block \in Blocks(part)} =
                part.model.address .. part.model.address + Span(part.model) - 1]_vars

(***************************************************************************)
(* SunSpecMapShiftError is never a false alarm: it is raised only when some *)
(* component's model is gone from its place or the map moved under the      *)
(* update, and not because the component was restricted.                    *)
(***************************************************************************)
ShiftIsReal ==
  [][MapShifted => "update" \in moved
                   \/ \E part \in update.of : part.model \notin ToSet(Layout)]_vars
=============================================================================
