-------------------------------- MODULE Link --------------------------------
(***************************************************************************)
(* What a shared link promises its users: it goes up and down, it carries  *)
(* one request at a time, a request is put on it only while it is up, and  *)
(* once shut it never comes up again.                                      *)
(***************************************************************************)
CONSTANT Requests

VARIABLES
  shut,     \* the owner has closed the link for good
  up,       \* the link is established
  onWire    \* the requests sent and not answered yet

vars == <<shut, up, onWire>>

Init ==
  /\ shut = FALSE
  /\ up = FALSE
  /\ onWire = {}

\* A step that ends something may take the link down as well.
MayDrop == up' \in {up, FALSE}

Establish ==
  /\ ~shut /\ ~up
  /\ up' = TRUE
  /\ UNCHANGED <<shut, onWire>>

\* A drop leaves the request that was on the wire to find out.
Drop ==
  /\ up
  /\ up' = FALSE
  /\ UNCHANGED <<shut, onWire>>

Send(r) ==
  /\ up /\ onWire = {}
  /\ onWire' = {r}
  /\ UNCHANGED <<shut, up>>

Finish(r) ==
  /\ r \in onWire
  /\ onWire' = onWire \ {r}
  /\ MayDrop
  /\ UNCHANGED shut

Shut ==
  /\ shut' = TRUE
  /\ MayDrop
  /\ UNCHANGED onWire

Next ==
  \/ Establish \/ Drop \/ Shut
  \/ \E r \in Requests : Send(r) \/ Finish(r)

Spec == Init /\ [][Next]_vars
=============================================================================
