------------------------------ MODULE SingleSlot ------------------------------
(***************************************************************************)
(* What TunnelsManager promises about switching: there is one slot for a   *)
(* tunnel in operation, and one place for a tunnel that waits for it.  A   *)
(* session is up only in the slot; the slot changes hands only when the    *)
(* session in it is down, and then to the tunnel that waits; a newer       *)
(* request takes the place of the one that waits.                          *)
(***************************************************************************)
CONSTANT Tunnels

Nobody == 0

VARIABLES
  holder,   \* the tunnel in the slot
  next,     \* the tunnel that waits for it
  up        \* the tunnels whose sessions are not down

vars == <<holder, next, up>>

Init ==
  /\ holder \in Tunnels \cup {Nobody} /\ next = Nobody
  /\ up \subseteq {holder} \ {Nobody}

\* A tunnel is asked for while the slot is free; whoever waited (for a tunnel that
\* was removed) gives way.
Take(t) ==
  /\ holder = Nobody /\ holder' = t /\ next' = Nobody /\ up' \subseteq {t}

\* A tunnel is asked for while another one is in the slot.
Wait(t) ==
  /\ holder \notin {Nobody, t} /\ next' = t /\ UNCHANGED <<holder, up>>

\* The waiting tunnel is forgotten, because it was removed or the app came to the
\* foreground.
Forget == next' = Nobody /\ UNCHANGED <<holder, up>>

\* The session in the slot goes up or down.
Move == up' \subseteq {holder} \ {Nobody} /\ UNCHANGED <<holder, next>>

\* The slot becomes free: to the next tunnel, or to nobody.
HandOver ==
  /\ next # Nobody /\ up = {}
  /\ holder' = next /\ next' = Nobody /\ up' \subseteq {next}

Release == holder # Nobody /\ up = {} /\ holder' = Nobody /\ next' = Nobody /\ up' = {}

\* The tunnel in the slot is removed, session and all; a tunnel that waits for it
\* is not told.
Vanish == holder # Nobody /\ holder' = Nobody /\ up' = {} /\ UNCHANGED next

Next ==
  \/ \E t \in Tunnels : Take(t) \/ Wait(t)
  \/ Forget \/ Move \/ HandOver \/ Release \/ Vanish

Spec == Init /\ [][Next]_vars
=============================================================================
