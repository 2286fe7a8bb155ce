------------------------------ MODULE SlotServer ------------------------------
(***************************************************************************)
(* What the write protocol of an environment server promises to the rest   *)
(* of the farm: a server belongs to one session from its first write until *)
(* that session releases it; a write of unknown outcome poisons it until   *)
(* its process is replaced.                                                *)
(***************************************************************************)
CONSTANTS Slots, Sessions, None

VARIABLES owner,  \* the session bound to each server, or None
          lost    \* servers whose state is unknown

server == <<owner, lost>>

ServerInit == owner = [s \in Slots |-> None] /\ lost = {}

\* A first write binds its session; a reset of unknown outcome also poisons.
Bind(s, x) ==
  /\ owner[s] = None /\ s \notin lost
  /\ owner' = [owner EXCEPT ![s] = x]
  /\ lost' \in {lost, lost \cup {s}}

Poison(s) ==
  /\ owner[s] # None /\ s \notin lost
  /\ lost' = lost \cup {s}
  /\ UNCHANGED owner

Unbind(s) ==
  /\ owner[s] # None /\ s \notin lost
  /\ owner' = [owner EXCEPT ![s] = None]
  /\ UNCHANGED lost

\* A new server process.
Renew(s) ==
  /\ owner' = [owner EXCEPT ![s] = None]
  /\ lost' = lost \ {s}

ServerNext ==
  \E s \in Slots : Poison(s) \/ Unbind(s) \/ Renew(s) \/ \E x \in Sessions : Bind(s, x)

ServerSpec == ServerInit /\ [][ServerNext]_server
=============================================================================
