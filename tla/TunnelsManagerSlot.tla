-------------------------- MODULE TunnelsManagerSlot --------------------------
(***************************************************************************)
(* TunnelsManager implements SingleSlot, where no start fails, no session  *)
(* starts on its own and none lags behind startTunnel.                     *)
(***************************************************************************)
EXTENDS TunnelsManager

InSlot == Operating(Now) \ Waiting(Now)

OneOf(S) == IF S = {} THEN Nobody ELSE CHOOSE t \in S : TRUE

Slot == INSTANCE SingleSlot WITH
  holder <- OneOf(InSlot),
  next   <- OneOf(Waiting(Now)),
  up     <- {t \in listed : session[t] \in {"connecting", "connected", "disconnecting"}}

\* The statuses the app shows implement a single slot with one waiting place: a
\* tunnel enters only when the session of the one before is down, and after it comes
\* the tunnel that waited, through every switch, drop, restart, refresh and removal.
ImplementsSlot == Slot!Spec
=============================================================================
