---------------------- MODULE TunnelsManagerSlotProofs ----------------------
(***************************************************************************)
(* Where no start fails, no session starts or vanishes on its own and none *)
(* lags behind startTunnel, TunnelsManager implements SingleSlot, for      *)
(* every set of tunnels and every sequence of requests, edits and          *)
(* refreshes.  Every handler is shown to take a neat state to neat states  *)
(* and to be a step of the slot on the way.                                *)
(***************************************************************************)
EXTENDS TunnelsManagerSlot, TunnelsManagerProofs

\* The worlds in question.
Smooth == ~AsyncStart /\ ~StartsFail /\ ~Outside

Holders(m) == Operating(m) \ Waiting(m)
Up(m) == {t \in m.listed : m.session[t] \in {"connecting", "connected", "disconnecting"}}

-----------------------------------------------------------------------------
(* The inductive invariant, on a state.                                    *)

\* No call but of modify is in flight, no tunnel is disabled, no start pending.
Plain(m) ==
  /\ NewIsUnlisted(m) /\ m.gone = {} /\ \A c \in m.calls : c.kind = "modify"
  /\ \A t \in Tunnels : m.enabled[t] /\ m.ask[t] = "none"

OneHolds(m) == \A t, u \in Holders(m) : t = u

\* The waiting tunnel waits for the tunnel in the slot, or for one that was removed,
\* and then the slot is free.
WaitsForHolder(m) ==
  Waiting(m) # {} => IF m.waitee = Lost THEN Holders(m) = {} ELSE m.waitee \in Holders(m)

Core(m) == m \in States /\ Plain(m) /\ OneWaits(m) /\ OneHolds(m) /\ WaitsForHolder(m)

\* A tunnel out of the slot is down; an attempt will be answered; a verdict is true.
Calm(m, t) ==
  /\ m.session[t] = "invalid" <=> t \notin m.listed
  /\ t \notin m.listed => ~m.attempting[t] /\ m.outcome[t] = "none"
  /\ t \in m.listed /\ m.status[t] \in {"inactive", "waiting"} => m.session[t] = "disconnected"
  /\ t \in m.listed /\ m.attempting[t] =>
       m.notes[t] > 0 \/ m.session[t] \in {"connecting", "disconnecting"}
  /\ t \in m.listed /\ m.outcome[t] \in {"attemptFailed", "failed"} =>
       ~m.attempting[t] /\ m.session[t] \notin {"connecting", "connected"}

\* An activating tunnel is connecting, or will be told that it no longer is.
Moving(m, t) ==
  t \in m.listed /\ m.status[t] = "activating" => m.notes[t] > 0 \/ m.session[t] = "connecting"

Neat(m) == Core(m) /\ \A t \in Tunnels : Calm(m, t) /\ Moving(m, t)

\* Neat but for t, whose notification has just been taken.
Nearly(m, t) == Core(m) /\ \A u \in Tunnels : Calm(m, u) /\ (u # t => Moving(m, u))

\* The steps of the slot, on the tunnels in it and waiting for it.
Moves(m, x) == Holders(x) = Holders(m) /\ Waiting(x) = Waiting(m)
Forgets(m, x) == Holders(x) = Holders(m) /\ Waiting(x) = {} /\ Up(x) = Up(m)
Waits(m, x) ==
  /\ Holders(x) = Holders(m) /\ Holders(m) # {} /\ Up(x) = Up(m)
  /\ \E t \in Tunnels \ Holders(m) : Waiting(x) = {t}
Takes(m, x) == Holders(m) = {} /\ Waiting(x) = {} /\ \E t \in Tunnels : Holders(x) = {t}
HandsOver(m, x) == Waiting(m) # {} /\ Up(m) = {} /\ Holders(x) = Waiting(m) /\ Waiting(x) = {}
Releases(m, x) == Holders(m) # {} /\ Up(m) = {} /\ Holders(x) = {} /\ Waiting(x) = {}
Vanishes(m, x) == Holders(m) # {} /\ Holders(x) = {} /\ Waiting(x) = Waiting(m)

SlotStep(m, x) ==
  \/ Moves(m, x) \/ Forgets(m, x) \/ Waits(m, x) \/ Takes(m, x)
  \/ HandsOver(m, x) \/ Releases(m, x) \/ Vanishes(m, x)

-----------------------------------------------------------------------------
(* What the invariant reads.                                               *)

\* Nothing that is said of u alone has changed.
SameAt(m, x, u) ==
  /\ u \in x.listed <=> u \in m.listed
  /\ x.status[u] = m.status[u] /\ x.session[u] = m.session[u] /\ x.notes[u] = m.notes[u]
  /\ x.attempting[u] = m.attempting[u] /\ x.outcome[u] = m.outcome[u]

\* The system's side, calls and editing are as before.
SamePlan(m, x) ==
  /\ x.adding = m.adding /\ x.gone = m.gone /\ x.calls = m.calls
  /\ x.enabled = m.enabled /\ x.ask = m.ask

\* A tunnel at which nothing changed is as calm, and moves, as before.
LEMMA SameIsCalm ==
  ASSUME NEW m, NEW x, NEW u, SameAt(m, x, u)
  PROVE  (Calm(m, u) => Calm(x, u)) /\ (Moving(m, u) => Moving(x, u))
BY DEF SameAt, Calm, Moving

\* The same list and statuses: the same tunnels in the slot and waiting.
LEMMA SameSets ==
  ASSUME NEW m, NEW x, x.listed = m.listed, x.status = m.status
  PROVE  Holders(x) = Holders(m) /\ Waiting(x) = Waiting(m)
BY DEF Holders, Operating, Waiting

\* t has been given the status s, and no other tunnel a new one.
Assigned(m, t, s, x) == x.listed = m.listed /\ x.status = [m.status EXCEPT ![t] = s]

\* A new status of one tunnel moves that tunnel into the slot, to the waiting place or
\* out of both.
LEMMA StatusSets ==
  ASSUME NEW m \in States, NEW t \in m.listed, NEW s \in Statuses, NEW x, Assigned(m, t, s, x)
  PROVE  /\ s = "waiting" => Waiting(x) = Waiting(m) \cup {t} /\ Holders(x) = Holders(m) \ {t}
         /\ s = "inactive" => Waiting(x) = Waiting(m) \ {t} /\ Holders(x) = Holders(m) \ {t}
         /\ s \notin {"inactive", "waiting"} =>
              Waiting(x) = Waiting(m) \ {t} /\ Holders(x) = Holders(m) \cup {t}
<1>1. m.status \in [Tunnels -> Statuses] /\ m.listed \subseteq Tunnels
  BY DEF States
<1>2. x.listed = m.listed /\ \A u \in Tunnels : x.status[u] = IF u = t THEN s ELSE m.status[u]
  BY <1>1 DEF Assigned
<1> QED
  BY <1>1, <1>2 DEF Holders, Operating, Waiting

\* Only the tunnel in the slot is up.
LEMMA UpHolds ==
  ASSUME NEW m \in States, \A u \in Tunnels : Calm(m, u)
  PROVE  Up(m) \subseteq Holders(m)
<1>1. m.listed \subseteq Tunnels
  BY DEF States
<1> QED
  BY <1>1 DEF Up, Holders, Operating, Waiting, Calm

\* Listed sessions that are neither up nor on their way down are down.
LEMMA DownOrUp ==
  ASSUME NEW m \in States, NEW t \in m.listed, Calm(m, t)
  PROVE  m.session[t] = "disconnected" \/ t \in Up(m)
<1>1. t \in Tunnels
  BY DEF States
<1> QED
  BY <1>1 DEF States, Sessions, Calm, Up

\* Posting leaves a notification to deliver.
LEMMA PostedPositive == ASSUME NEW k \in 0 .. MaxNotes PROVE Posted(k) > 0
BY BoundsAssumption DEF Posted

-----------------------------------------------------------------------------
(* Starting and stopping.                                                  *)

\* t has been started, and its session follows at once.
Started(m, t, x) ==
  /\ x \in States /\ x.listed = m.listed /\ x.waitee = m.waitee /\ SamePlan(m, x)
  /\ x.status = [m.status EXCEPT ![t] = "activating"]
  /\ x.session = [m.session EXCEPT ![t] = "connecting"]
  /\ x.notes = [m.notes EXCEPT ![t] = Posted(m.notes[t])]
  /\ x.attempting = [m.attempting EXCEPT ![t] = TRUE]
  /\ x.outcome = [m.outcome EXCEPT ![t] = "started"]

\* An attempt on a tunnel that is down has one result.
LEMMA SmoothAttempt ==
  ASSUME Smooth, NEW m \in States, Plain(m), NEW t \in Tunnels, m.session[t] = "disconnected",
         NEW n \in 0 .. RecursionLimit - 1, NEW x \in Attempt(m, t, n)
  PROVE  Started(m, t, x)
<1> DEFINE y == SessionBecomes(m, t, "connecting")
           z == [y EXCEPT !.status[t] = "activating", !.attempting[t] = TRUE,
                          !.timer[t] = TRUE, !.outcome[t] = "started"]
<1>1. StartTunnel(m, t) = y
  BY DEF StartTunnel, Smooth
<1>2. x = z
  BY <1>1 DEF Attempt, Smooth, Plain, NewIsUnlisted
<1>3. /\ y \in States /\ Alike(m, y) /\ SamePlan(m, y)
      /\ y.session = [m.session EXCEPT ![t] = "connecting"]
      /\ y.notes = [m.notes EXCEPT ![t] = Posted(m.notes[t])]
      /\ y.attempting = m.attempting /\ y.outcome = m.outcome
  <2>1. y \in States /\ Alike(m, y)
    BY SessionBecomesType DEF Sessions
  <2> QED
    BY <2>1 DEF SessionBecomes, States, SamePlan
<1> HIDE DEF y
<1> QED
  BY <1>2, <1>3 DEF Started, Alike, SamePlan, States, Statuses, Outcomes

\* A started tunnel is calm and moves, and so are the others if they were.
LEMMA StartedCalm ==
  ASSUME NEW m \in States, Plain(m), NEW t \in m.listed, NEW x, Started(m, t, x), Calm(m, t),
         \A u \in Tunnels \ {t} : Calm(m, u) /\ Moving(m, u)
  PROVE  Plain(x) /\ \A u \in Tunnels : Calm(x, u) /\ Moving(x, u)
<1>1. t \in Tunnels /\ m.notes[t] \in 0 .. MaxNotes
  BY DEF States
<1>2. Plain(x)
  BY DEF Plain, NewIsUnlisted, Started, SamePlan
<1>3. ASSUME NEW u \in Tunnels \ {t} PROVE Calm(x, u) /\ Moving(x, u)
  <2>1. SameAt(m, x, u)
    BY <1>3 DEF SameAt, Started, States
  <2> QED
    BY <1>3, <2>1, SameIsCalm
<1>4. Calm(x, t) /\ Moving(x, t)
  <2>1. /\ x.listed = m.listed /\ x.status[t] = "activating" /\ x.session[t] = "connecting"
        /\ x.outcome[t] = "started"
    BY <1>1 DEF Started, States
  <2> QED
    BY <2>1 DEF Calm, Moving
<1> QED
  BY <1>2, <1>3, <1>4

\* stopTunnel, on the session and its notifications.
Stopped(m, t, x) ==
  /\ x \in States /\ Alike(m, x) /\ SamePlan(m, x)
  /\ x.attempting = m.attempting /\ x.outcome = m.outcome
  /\ \/ x.session = m.session /\ x.notes = m.notes
     \/ /\ m.session[t] \in {"connecting", "connected"}
        /\ x.session = [m.session EXCEPT ![t] = "disconnecting"]
        /\ x.notes = [m.notes EXCEPT ![t] = Posted(m.notes[t])]

\* stopTunnel takes a session down, or leaves it as it is.
LEMMA StopTunnelStops ==
  ASSUME NEW m \in States, Plain(m), NEW t \in Tunnels
  PROVE  Stopped(m, t, StopTunnel(m, t))
<1> DEFINE y == SessionBecomes(m, t, "disconnecting")
           x == StopTunnel(m, t)
<1>1. m.ask[t] = "none" /\ m.ask \in [Tunnels -> {"none", "start", "start_stop"}]
  BY DEF Plain, NewIsUnlisted, States
<1>2. CASE m.session[t] \in {"connecting", "connected"}
  <2>1. /\ y \in States /\ Alike(m, y) /\ SamePlan(m, y)
        /\ y.session = [m.session EXCEPT ![t] = "disconnecting"]
        /\ y.notes = [m.notes EXCEPT ![t] = Posted(m.notes[t])]
        /\ y.attempting = m.attempting /\ y.outcome = m.outcome
    <3>1. y \in States /\ Alike(m, y)
      BY SessionBecomesType DEF Sessions
    <3> QED
      BY <3>1 DEF SessionBecomes, States, SamePlan
  <2>2. x = [y EXCEPT !.ask[t] = "none"]
    BY <1>2 DEF StopTunnel
  <2>3. [m.ask EXCEPT ![t] = "none"] = m.ask
    BY <1>1
  <2> HIDE DEF y, x
  <2>4. /\ x \in States /\ x.ask = [y.ask EXCEPT ![t] = "none"] /\ Alike(y, x)
        /\ x.session = y.session /\ x.notes = y.notes /\ x.attempting = y.attempting
        /\ x.outcome = y.outcome /\ x.adding = y.adding /\ x.gone = y.gone /\ x.calls = y.calls
        /\ x.enabled = y.enabled
    BY <2>1, <2>2 DEF States, Alike
  <2> QED
    BY <1>2, <2>1, <2>3, <2>4 DEF x, Stopped, Alike, SamePlan
<1>3. CASE ~(m.session[t] \in {"connecting", "connected"})
  <2>1. x = m
    BY <1>1, <1>3 DEF StopTunnel
  <2> QED
    BY <2>1 DEF Stopped, Alike, SamePlan
<1> QED
  BY <1>2, <1>3

\* Stopping a tunnel is no step of the slot.
LEMMA StoppedNeat ==
  ASSUME NEW m, Neat(m), NEW t \in Tunnels, NEW x, Stopped(m, t, x)
  PROVE  Neat(x) /\ Up(x) = Up(m) /\ Holders(x) = Holders(m) /\ Waiting(x) = Waiting(m)
<1>1. m \in States /\ x \in States /\ x.listed = m.listed /\ x.status = m.status /\ x.waitee = m.waitee
  BY DEF Neat, Core, Stopped, Alike
<1>2. Holders(x) = Holders(m) /\ Waiting(x) = Waiting(m)
  BY <1>1, SameSets
<1>3. Up(x) = Up(m)
  <2>1. \A u \in Tunnels : \/ x.session[u] = m.session[u]
                           \/ /\ x.session[u] \in {"connecting", "connected", "disconnecting"}
                              /\ m.session[u] \in {"connecting", "connected", "disconnecting"}
    BY <1>1 DEF Stopped, States
  <2> QED
    BY <1>1, <2>1 DEF Up, States
<1>4. Core(x)
  BY <1>1, <1>2 DEF Neat, Core, Plain, NewIsUnlisted, OneWaits, OneHolds, WaitsForHolder, Stopped, SamePlan, Alike
<1>5. ASSUME NEW u \in Tunnels PROVE Calm(x, u) /\ Moving(x, u)
  <2>1. CASE SameAt(m, x, u)
    BY <2>1, SameIsCalm DEF Neat
  <2>2. CASE u = t /\ m.session[t] \in {"connecting", "connected"} /\ x.session[t] = "disconnecting"
             /\ x.notes[t] = Posted(m.notes[t])
    <3>1. x.notes[t] > 0
      BY <1>1, <2>2, PostedPositive DEF States
    <3>2. Calm(m, t)
      BY DEF Neat
    <3> QED
      BY <1>1, <2>2, <3>1, <3>2 DEF Calm, Moving, Stopped
  <2> QED
    BY <1>1, <2>1, <2>2 DEF Stopped, SameAt, States
<1> QED
  BY <1>2, <1>3, <1>4, <1>5 DEF Neat

\* A change of what the invariant does not read, or reads only to find nothing pending.
Unmoved(m, x) ==
  /\ x.listed = m.listed /\ x.status = m.status /\ x.waitee = m.waitee
  /\ x.session = m.session /\ x.notes = m.notes
  /\ x.attempting = m.attempting /\ x.outcome = m.outcome

\* Such a change is no step of the slot.
LEMMA UnmovedNeat ==
  ASSUME NEW m, Neat(m), NEW x \in States, Plain(x), Unmoved(m, x)
  PROVE  Neat(x) /\ Up(x) = Up(m) /\ Holders(x) = Holders(m) /\ Waiting(x) = Waiting(m)
<1>1. Holders(x) = Holders(m) /\ Waiting(x) = Waiting(m) /\ Up(x) = Up(m)
  BY SameSets DEF Unmoved, Up
<1>2. Core(x)
  BY <1>1 DEF Neat, Core, OneWaits, OneHolds, WaitsForHolder, Unmoved
<1>3. \A u \in Tunnels : Calm(x, u) /\ Moving(x, u)
  BY SameIsCalm DEF Neat, SameAt, Unmoved
<1> QED
  BY <1>1, <1>2, <1>3 DEF Neat

\* A neat state is good.
LEMMA NeatGood == ASSUME NEW m, Neat(m) PROVE Good(m)
<1>1. Watched(m)
  <2>1. \A t \in Holders(m) : t \in m.listed /\ m.status[t] \notin {"inactive", "waiting"}
    BY DEF Holders, Operating, Waiting
  <2> QED
    BY <2>1 DEF Neat, Core, WaitsForHolder, Watched
<1> QED
  BY <1>1 DEF Neat, Core, Plain, NewIsUnlisted, Good, NewIsUnlisted

\* startDeactivation(of:) keeps the state neat and is no step of the slot.
LEMMA StartDeactivationNeat ==
  ASSUME NEW m, Neat(m), NEW t \in Tunnels
  PROVE  LET x == StartDeactivation(m, t)
         IN  Neat(x) /\ Up(x) = Up(m) /\ Holders(x) = Holders(m) /\ Waiting(x) = Waiting(m)
<1> DEFINE quiet == [m EXCEPT !.attempting[t] = FALSE]
<1>1. /\ quiet \in States /\ Alike(m, quiet) /\ SamePlan(m, quiet)
      /\ quiet.session = m.session /\ quiet.notes = m.notes /\ quiet.outcome = m.outcome
      /\ quiet.attempting = [m.attempting EXCEPT ![t] = FALSE]
  BY DEF Neat, Core, States, Alike, SamePlan
<1>2. StartDeactivation(m, t) = quiet \/ StartDeactivation(m, t) = StopTunnel(quiet, t)
  BY DEF StartDeactivation
<1> HIDE DEF quiet
<1>3. Neat(quiet) /\ Up(quiet) = Up(m) /\ Holders(quiet) = Holders(m) /\ Waiting(quiet) = Waiting(m)
  <2>1. Holders(quiet) = Holders(m) /\ Waiting(quiet) = Waiting(m) /\ Up(quiet) = Up(m)
    BY <1>1, SameSets DEF Alike, Up
  <2>2. Core(quiet)
    BY <1>1, <2>1 DEF Neat, Core, Plain, NewIsUnlisted, OneWaits, OneHolds, WaitsForHolder, Alike, SamePlan
  <2>3. ASSUME NEW u \in Tunnels PROVE Calm(quiet, u) /\ Moving(quiet, u)
    <3>1. quiet.attempting[u] => m.attempting[u]
      BY <1>1 DEF Neat, Core, States
    <3> QED
      BY <1>1, <3>1 DEF Neat, Calm, Moving, Alike
  <2> QED
    BY <2>1, <2>2, <2>3 DEF Neat
<1>4. LET x == StopTunnel(quiet, t)
      IN  Neat(x) /\ Up(x) = Up(quiet) /\ Holders(x) = Holders(quiet) /\ Waiting(x) = Waiting(quiet)
  BY <1>3, StopTunnelStops, StoppedNeat DEF Neat, Core
<1> QED
  BY <1>2, <1>3, <1>4

\* A tunnel that is down and alone is started, and takes the slot or keeps it.
LEMMA StartNeat ==
  ASSUME Smooth, NEW m, NEW t \in m.listed, Nearly(m, t), m.session[t] = "disconnected",
         m.status[t] # "waiting", Holders(m) \subseteq {t}, Holders(m) = {} => Waiting(m) = {},
         NEW x \in StartActivation(m, t, 0)
  PROVE  Neat(x) /\ Holders(x) = {t} /\ Waiting(x) = Waiting(m)
<1>1. m \in States /\ t \in Tunnels /\ 0 \in 0 .. RecursionLimit - 1 /\ Plain(m)
  BY BoundsAssumption DEF Nearly, Core, States
<1>2. PICK y \in Attempt(m, t, 0) : x \in IF y.status[t] = "inactive" THEN Handoff(y, t) ELSE {y}
  BY BoundsAssumption DEF StartActivation
<1>3. Started(m, t, y)
  BY <1>1, <1>2, SmoothAttempt
<1>4. y.status[t] = "activating"
  BY <1>1, <1>3 DEF Started, States
<1>5. x = y
  BY <1>2, <1>4
<1>6. Waiting(x) = Waiting(m) /\ Holders(x) = {t}
  <2>1. "activating" \in Statuses /\ t \notin Waiting(m)
    BY DEF Statuses, Waiting
  <2>2. Assigned(m, t, "activating", x)
    BY <1>3, <1>5 DEF Started, Assigned
  <2> QED
    BY <1>1, <2>1, <2>2, StatusSets
<1>7. Plain(x) /\ \A u \in Tunnels : Calm(x, u) /\ Moving(x, u)
  <2>1. Calm(m, t) /\ \A u \in Tunnels \ {t} : Calm(m, u) /\ Moving(m, u)
    BY <1>1 DEF Nearly
  <2> QED
    BY <1>1, <1>3, <1>5, <2>1, StartedCalm
<1>8. OneWaits(x) /\ OneHolds(x)
  BY <1>6 DEF Nearly, Core, OneWaits, OneHolds
<1>9. WaitsForHolder(x)
  BY <1>3, <1>5, <1>6 DEF Nearly, Core, WaitsForHolder, Started
<1> QED
  BY <1>3, <1>5, <1>6, <1>7, <1>8, <1>9 DEF Neat, Core, Started

\* The tunnel that waits is started in the free slot.
LEMMA WaiterTakesOver ==
  ASSUME Smooth, NEW m \in States, Plain(m), \A u \in Tunnels : Calm(m, u) /\ Moving(m, u),
         OneWaits(m), Holders(m) = {}, NEW w \in Waiting(m), NEW y \in Attempt(m, w, 0)
  PROVE  /\ Started(m, w, y) /\ Plain(y) /\ \A u \in Tunnels : Calm(y, u) /\ Moving(y, u)
         /\ Holders(y) = {w} /\ Waiting(y) = {}
<1>1. w \in Tunnels /\ w \in m.listed /\ m.status[w] = "waiting" /\ 0 \in 0 .. RecursionLimit - 1
  BY BoundsAssumption DEF Waiting, States
<1>2. m.session[w] = "disconnected"
  BY <1>1 DEF Calm
<1>3. Started(m, w, y)
  BY <1>1, <1>2, SmoothAttempt
<1>4. Plain(y) /\ \A u \in Tunnels : Calm(y, u) /\ Moving(y, u)
  BY <1>1, <1>3, StartedCalm
<1>5. Waiting(y) = Waiting(m) \ {w} /\ Holders(y) = {w}
  <2>1. Assigned(m, w, "activating", y)
    BY <1>3 DEF Started, Assigned
  <2> QED
    BY <1>1, <2>1, StatusSets DEF Statuses
<1>6. Waiting(y) = {}
  BY <1>5 DEF OneWaits
<1> QED
  BY <1>3, <1>4, <1>5, <1>6

\* A tunnel found down becomes inactive: it releases the slot, hands it over, or is
\* forgotten by it.
LEMMA BecomeInactiveNeat ==
  ASSUME Smooth, NEW m, NEW t \in m.listed, Nearly(m, t), m.session[t] = "disconnected",
         NEW x \in BecomeInactive(m, t)
  PROVE  Neat(x) /\ SlotStep(m, x)
<1> DEFINE y == [m EXCEPT !.status[t] = "inactive"]
<1>1. m \in States /\ t \in Tunnels /\ Plain(m)
  BY DEF Nearly, Core, States
<1>2. /\ y \in States /\ y.listed = m.listed /\ y.waitee = m.waitee /\ SamePlan(m, y)
      /\ y.session = m.session /\ y.notes = m.notes
      /\ y.attempting = m.attempting /\ y.outcome = m.outcome
      /\ y.status = [m.status EXCEPT ![t] = "inactive"]
  BY <1>1 DEF States, Statuses, SamePlan
<1>3. x \in Handoff(y, t)
  BY DEF BecomeInactive
<1> HIDE DEF y
<1>4. Waiting(y) = Waiting(m) \ {t} /\ Holders(y) = Holders(m) \ {t}
  <2>1. Assigned(m, t, "inactive", y)
    BY <1>2 DEF Assigned
  <2> QED
    BY <1>1, <2>1, StatusSets DEF Statuses
<1>5. Plain(y)
  BY <1>1, <1>2 DEF Plain, NewIsUnlisted, SamePlan
<1>6. ASSUME NEW u \in Tunnels PROVE Calm(y, u) /\ Moving(y, u)
  <2>1. CASE u = t
    BY <1>1, <1>2, <2>1 DEF Nearly, Calm, Moving, States
  <2>2. CASE u # t
    <3>1. SameAt(m, y, u)
      BY <1>1, <1>2, <2>2 DEF SameAt, States
    <3> QED
      BY <2>2, <3>1, SameIsCalm DEF Nearly
  <2> QED
    BY <2>1, <2>2
<1>7. OneWaits(y) /\ OneHolds(y)
  BY <1>4 DEF Nearly, Core, OneWaits, OneHolds
<1>8. ASSUME t \in Holders(m) PROVE Holders(m) = {t} /\ Up(m) = {} /\ t \notin Waiting(m)
  <2>1. Holders(m) = {t} /\ t \notin Waiting(m)
    BY <1>8 DEF Nearly, Core, OneHolds, Holders
  <2>2. Up(m) \subseteq Holders(m) /\ t \notin Up(m)
    BY <1>1, UpHolds DEF Nearly, Up
  <2> QED
    BY <2>1, <2>2
<1>9. Up(y) = Up(m)
  BY <1>2 DEF Up
<1>10. CASE m.waitee = t /\ Waiting(y) # {}
  <2>1. Lost # t
    BY <1>1, TunnelsAssumption DEF Lost
  <2>2. t \in Holders(m)
    BY <1>4, <1>10, <2>1 DEF Nearly, Core, WaitsForHolder
  <2>3. Holders(y) = {} /\ Waiting(y) = Waiting(m) /\ Up(m) = {}
    BY <1>4, <1>8, <2>2
  <2>4. PICK w \in First(Waiting(y)) : \E z \in Attempt(y, w, 0) : x = [z EXCEPT !.waitee = Nobody]
    BY <1>2, <1>3, <1>10 DEF Handoff
  <2>5. PICK z \in Attempt(y, w, 0) : x = [z EXCEPT !.waitee = Nobody]
    BY <2>4
  <2>6. w \in Waiting(y)
    BY DEF First
  <2>7. /\ Started(y, w, z) /\ Plain(z) /\ \A u \in Tunnels : Calm(z, u) /\ Moving(z, u)
        /\ Holders(z) = {w} /\ Waiting(z) = {}
    BY <1>2, <1>5, <1>6, <1>7, <2>3, <2>5, <2>6, WaiterTakesOver
  <2>8. x \in States /\ Plain(x) /\ x.listed = z.listed /\ x.status = z.status
        /\ \A u \in Tunnels : SameAt(z, x, u)
    <3>1. z \in States
      BY <2>7 DEF Started
    <3> QED
      BY <2>5, <2>7, <3>1 DEF States, Plain, NewIsUnlisted, SameAt
  <2>9. Holders(x) = {w} /\ Waiting(x) = {}
    BY <2>7, <2>8, SameSets
  <2>10. Neat(x)
    BY <2>7, <2>8, <2>9, SameIsCalm DEF Neat, Core, OneWaits, OneHolds, WaitsForHolder
  <2>11. Holders(x) = Waiting(m)
    BY <1>7, <2>3, <2>6, <2>9 DEF OneWaits
  <2> QED
    BY <2>3, <2>6, <2>9, <2>10, <2>11 DEF SlotStep, HandsOver
<1>11. CASE m.waitee # t \/ Waiting(y) = {}
  <2>1. x \in {y, [y EXCEPT !.waitee = Nobody]} /\ (Waiting(y) # {} => x = y)
    BY <1>2, <1>3, <1>11 DEF Handoff
  <2>2. /\ x \in States /\ Plain(x) /\ x.listed = y.listed /\ x.status = y.status
        /\ \A u \in Tunnels : SameAt(y, x, u)
        /\ Waiting(y) # {} => x.waitee = y.waitee
    BY <1>2, <1>5, <2>1 DEF States, Plain, NewIsUnlisted, SameAt
  <2>3. Holders(x) = Holders(y) /\ Waiting(x) = Waiting(y)
    BY <2>2, SameSets
  <2>4. t \in Holders(m) => Waiting(m) = {}
    <3>1. SUFFICES ASSUME t \in Holders(m), Waiting(m) # {} PROVE FALSE
      OBVIOUS
    <3>2. m.waitee = t
      BY <1>8, <3>1 DEF Nearly, Core, WaitsForHolder
    <3> QED
      BY <1>4, <1>8, <1>11, <3>1, <3>2
  <2>5. WaitsForHolder(x)
    BY <1>2, <1>4, <2>2, <2>3, <2>4 DEF Nearly, Core, WaitsForHolder
  <2>6. Neat(x)
    BY <1>6, <1>7, <2>2, <2>3, <2>5, SameIsCalm DEF Neat, Core, OneWaits, OneHolds
  <2>7. SlotStep(m, x)
    <3>1. Up(x) = Up(m)
      BY <1>2, <1>9, <2>2 DEF Up, SameAt, States
    <3>2. CASE t \in Holders(m)
      BY <1>4, <1>8, <2>3, <2>4, <3>2 DEF SlotStep, Releases
    <3>3. CASE t \in Waiting(m)
      <4>1. Waiting(x) = {} /\ Holders(x) = Holders(m)
        BY <1>4, <2>3, <3>3 DEF Nearly, Core, OneWaits, Holders
      <4> QED
        BY <3>1, <4>1 DEF SlotStep, Forgets
    <3>4. CASE t \notin Holders(m) \cup Waiting(m)
      BY <1>4, <2>3, <3>4 DEF SlotStep, Moves
    <3> QED
      BY <3>2, <3>3, <3>4
  <2> QED
    BY <2>6, <2>7
<1> QED
  BY <1>10, <1>11

\* A session that is up, read into the status of its tunnel.
LEMMA StatusFromUp ==
  /\ \A s : StatusFrom(s) = "activating" <=> s = "connecting"
  /\ \A s : StatusFrom(s) = "inactive" <=> s \notin {"connecting", "connected", "disconnecting"}
  /\ \A s : StatusFrom(s) \in Statuses \ {"waiting", "restarting"}
BY DEF StatusFrom, Statuses

\* refreshStatus() keeps the state neat and is a step of the slot.
LEMMA RefreshStatusNeat ==
  ASSUME Smooth, NEW m, NEW t \in m.listed, Nearly(m, t), NEW x \in RefreshStatus(m, t)
  PROVE  Neat(x) /\ SlotStep(m, x)
<1>1. m \in States /\ t \in Tunnels /\ \A u \in Tunnels : Calm(m, u)
  BY DEF Nearly, Core, States
<1>2. CASE m.status[t] = "restarting"
  <2>1. x = m
    BY <1>2 DEF RefreshStatus
  <2>2. Neat(m)
    BY <1>1, <1>2 DEF Nearly, Neat, Moving
  <2> QED
    BY <2>1, <2>2 DEF SlotStep, Moves
<1>3. CASE m.status[t] # "restarting" /\ StatusFrom(m.session[t]) = "inactive"
  <2>1. m.session[t] = "disconnected"
    BY <1>1, <1>3, DownOrUp, StatusFromUp DEF Up
  <2>2. x \in BecomeInactive(m, t)
    BY <1>3 DEF RefreshStatus
  <2> QED
    BY <2>1, <2>2, BecomeInactiveNeat
<1>4. CASE m.status[t] # "restarting" /\ StatusFrom(m.session[t]) # "inactive"
  <2> DEFINE s == StatusFrom(m.session[t])
  <2>1. x = [m EXCEPT !.status[t] = s]
    BY <1>4 DEF RefreshStatus
  <2>2. s \in Statuses \ {"waiting", "inactive"} /\ (s = "activating" => m.session[t] = "connecting")
    BY <1>4, StatusFromUp
  <2>3. t \in Holders(m)
    <3>1. t \in Up(m)
      BY <1>4, StatusFromUp DEF Up
    <3> QED
      BY <1>1, <3>1, UpHolds
  <2> HIDE DEF s
  <2>4. /\ x \in States /\ x.listed = m.listed /\ x.waitee = m.waitee /\ SamePlan(m, x)
        /\ x.session = m.session /\ x.notes = m.notes
        /\ x.attempting = m.attempting /\ x.outcome = m.outcome
        /\ x.status = [m.status EXCEPT ![t] = s]
    BY <1>1, <2>1, <2>2 DEF States, SamePlan
  <2>5. Holders(x) = Holders(m) /\ Waiting(x) = Waiting(m)
    <3>1. t \notin Waiting(m)
      BY <2>3 DEF Holders
    <3>2. Assigned(m, t, s, x)
      BY <2>4 DEF Assigned
    <3> QED
      BY <1>1, <2>2, <2>3, <3>1, <3>2, StatusSets
  <2>6. Core(x)
    BY <2>4, <2>5 DEF Nearly, Core, Plain, NewIsUnlisted, OneWaits, OneHolds, WaitsForHolder, SamePlan
  <2>7. ASSUME NEW u \in Tunnels PROVE Calm(x, u) /\ Moving(x, u)
    <3>1. CASE u = t
      <4>1. x.status[t] = s
        BY <1>1, <2>4 DEF States
      <4> QED
        BY <1>1, <2>2, <2>4, <3>1, <4>1 DEF Calm, Moving
    <3>2. CASE u # t
      <4>1. SameAt(m, x, u)
        BY <1>1, <2>4, <3>2 DEF SameAt, States
      <4> QED
        BY <3>2, <4>1, SameIsCalm DEF Nearly
    <3> QED
      BY <3>1, <3>2
  <2> QED
    BY <2>5, <2>6, <2>7 DEF Neat, SlotStep, Moves
<1> QED
  BY <1>2, <1>3, <1>4

\* What a refresh of every container makes of the statuses.
Refreshes(m, x) ==
  /\ x \in States /\ x.listed = m.listed /\ Plain(x)
  /\ x.session = m.session /\ x.notes = m.notes
  /\ x.attempting = m.attempting /\ x.outcome = m.outcome
  /\ \A t \in m.listed :
       x.status[t] = IF m.status[t] = "restarting" THEN "restarting" ELSE StatusFrom(m.session[t])

\* A refresh forgets the tunnel that waits, and may release the slot.
LEMMA RefreshesNeat ==
  ASSUME NEW m, Neat(m), NEW x, Refreshes(m, x)
  PROVE  Neat(x) /\ SlotStep(m, x)
<1>1. m \in States /\ m.listed \subseteq Tunnels /\ Up(m) \subseteq Holders(m) /\ Up(x) = Up(m)
  BY UpHolds DEF Neat, Core, States, Refreshes, Up
<1>2. Waiting(x) = {}
  BY StatusFromUp DEF Waiting, Refreshes
<1>3. \A t \in Holders(x) : t \in Holders(m)
  <2>1. SUFFICES ASSUME NEW t \in Holders(x) PROVE t \in Holders(m)
    OBVIOUS
  <2>2. t \in m.listed /\ x.status[t] # "inactive"
    BY <2>1 DEF Holders, Operating, Refreshes
  <2>3. CASE m.status[t] = "restarting"
    BY <2>2, <2>3 DEF Holders, Operating, Waiting
  <2>4. CASE m.status[t] # "restarting"
    <3>1. t \in Up(m)
      BY <2>2, <2>4, StatusFromUp DEF Refreshes, Up
    <3> QED
      BY <1>1, <3>1
  <2> QED
    BY <2>3, <2>4
<1>4. Up(m) \subseteq Holders(x)
  <2>1. \A t \in Up(m) : t \in m.listed /\ StatusFrom(m.session[t]) # "inactive"
    BY StatusFromUp DEF Up
  <2>2. \A t \in Up(m) : t \in x.listed /\ x.status[t] # "inactive"
    BY <2>1 DEF Refreshes
  <2> QED
    BY <1>2, <2>2 DEF Holders, Operating
<1>5. Core(x)
  BY <1>2, <1>3 DEF Neat, Core, Refreshes, OneWaits, OneHolds, WaitsForHolder
<1>6. ASSUME NEW u \in Tunnels PROVE Calm(x, u) /\ Moving(x, u)
  <2>1. Calm(m, u)
    BY DEF Neat
  <2>2. u \in m.listed /\ x.status[u] \in {"inactive", "waiting"} => m.session[u] = "disconnected"
    <3>1. SUFFICES ASSUME u \in m.listed, x.status[u] \in {"inactive", "waiting"}
                   PROVE  m.session[u] = "disconnected"
      OBVIOUS
    <3>2. StatusFrom(m.session[u]) = "inactive"
      BY <3>1, StatusFromUp DEF Refreshes
    <3>3. u \notin Up(m)
      BY <3>2, StatusFromUp DEF Up
    <3> QED
      BY <1>1, <2>1, <3>1, <3>3, DownOrUp
  <2>3. u \in m.listed /\ x.status[u] = "activating" => m.session[u] = "connecting"
    BY StatusFromUp DEF Refreshes
  <2>4. /\ x.listed = m.listed /\ x.session = m.session /\ x.notes = m.notes
        /\ x.attempting = m.attempting /\ x.outcome = m.outcome
    BY DEF Refreshes
  <2> QED
    BY <2>1, <2>2, <2>3, <2>4 DEF Calm, Moving
<1>7. SlotStep(m, x)
  <2>1. CASE Holders(x) = Holders(m)
    BY <1>1, <1>2, <2>1 DEF SlotStep, Forgets
  <2>2. CASE Holders(x) # Holders(m)
    <3>1. Holders(m) # {} /\ Holders(x) = {}
      BY <1>3, <2>2 DEF Neat, Core, OneHolds
    <3>2. Up(m) = {}
      BY <1>4, <3>1
    <3> QED
      BY <1>2, <3>1, <3>2 DEF SlotStep, Releases
  <2> QED
    BY <2>1, <2>2
<1> QED
  BY <1>5, <1>6, <1>7 DEF Neat

\* refreshStatus() on every container keeps the state neat and is a step of the slot.
LEMMA RefreshAllNeat ==
  ASSUME Smooth, NEW m, Neat(m), NEW next \in SUBSET First(Waiting(m)), NEW x \in RefreshAll(m, next)
  PROVE  Neat(x) /\ SlotStep(m, x)
<1> DEFINE st(y) == [t \in Tunnels |->
                       IF t \in m.listed /\ m.status[t] # "restarting" THEN StatusFrom(y.session[t])
                       ELSE m.status[t]]
<1>1. m \in States /\ m.listed \subseteq Tunnels /\ Plain(m)
  BY DEF Neat, Core, States
<1>2. ASSUME NEW y \in States, y.listed = m.listed
      PROVE  /\ Refreshed(m, y) \in States /\ Refreshed(m, y).status = st(y)
             /\ Refreshed(m, y).listed = m.listed /\ SamePlan(y, Refreshed(m, y))
             /\ Refreshed(m, y).session = y.session /\ Refreshed(m, y).notes = y.notes
             /\ Refreshed(m, y).attempting = y.attempting /\ Refreshed(m, y).outcome = y.outcome
  <2>1. st(y) \in [Tunnels -> Statuses]
    BY <1>1, StatusFromType DEF States
  <2>2. Refreshed(m, y) = [y EXCEPT !.status = st(y)]
    BY DEF Refreshed
  <2> HIDE DEF st
  <2> QED
    BY <1>2, <2>1, <2>2 DEF States, SamePlan
<1>3. ASSUME NEW r \in States
      PROVE  LET z == [r EXCEPT !.waitee = Nobody]
             IN  /\ z \in States /\ SamePlan(r, z) /\ z.listed = r.listed /\ z.status = r.status
                 /\ z.session = r.session /\ z.notes = r.notes
                 /\ z.attempting = r.attempting /\ z.outcome = r.outcome /\ z.waitee = Nobody
  BY DEF States, SamePlan
<1>4. CASE x = Refreshed(m, m) \/ x = [Refreshed(m, m) EXCEPT !.waitee = Nobody]
  <2> DEFINE r == Refreshed(m, m)
  <2>1. /\ r \in States /\ r.status = st(m) /\ r.listed = m.listed /\ SamePlan(m, r)
        /\ r.session = m.session /\ r.notes = m.notes
        /\ r.attempting = m.attempting /\ r.outcome = m.outcome
    BY <1>1, <1>2
  <2> HIDE DEF r
  <2>2. /\ x \in States /\ x.status = st(m) /\ x.listed = m.listed
        /\ x.session = m.session /\ x.notes = m.notes
        /\ x.attempting = m.attempting /\ x.outcome = m.outcome
    BY <1>3, <1>4, <2>1 DEF r
  <2>3. SamePlan(m, x)
    BY <1>3, <1>4, <2>1 DEF r, SamePlan
  <2>4. Plain(x)
    BY <1>1, <2>2, <2>3 DEF Plain, NewIsUnlisted, SamePlan
  <2>5. \A t \in m.listed :
          x.status[t] = IF m.status[t] = "restarting" THEN "restarting" ELSE StatusFrom(m.session[t])
    BY <1>1, <2>2
  <2>6. Refreshes(m, x)
    <3> HIDE DEF st
    <3> QED BY <2>2, <2>4, <2>5 DEF Refreshes
  <2> QED
    BY <2>6, RefreshesNeat
<1>5. ASSUME m.waitee \in m.listed, m.status[m.waitee] # "restarting",
             StatusFrom(m.session[m.waitee]) = "inactive",
             NEW w \in next, NEW y \in Attempt(m, w, 0), x = [Refreshed(m, y) EXCEPT !.waitee = Nobody]
      PROVE  Neat(x) /\ SlotStep(m, x)
  <2>1. w \in Waiting(m) /\ w \in Tunnels /\ w \in m.listed /\ m.status[w] = "waiting"
    BY <1>1 DEF First, Waiting
  <2>2. m.session[w] = "disconnected"
    BY <2>1 DEF Neat, Calm
  <2>3. Started(m, w, y)
    BY <1>1, <2>1, <2>2, SmoothAttempt, BoundsAssumption
  <2>4. Plain(y) /\ \A u \in Tunnels : Calm(y, u) /\ Moving(y, u)
    BY <1>1, <2>1, <2>3, StartedCalm DEF Neat
  <2>5. m.waitee # Lost
    BY <1>1, <1>5, TunnelsAssumption DEF Lost
  <2>6. Holders(m) = {m.waitee} /\ Waiting(m) = {w}
    BY <2>1, <2>5 DEF Neat, Core, WaitsForHolder, OneHolds, OneWaits
  <2>7. Up(m) = {}
    <3>1. m.waitee \notin Up(m)
      BY <1>5, StatusFromUp DEF Up
    <3>2. Up(m) \subseteq Holders(m)
      BY <1>1, UpHolds DEF Neat
    <3> QED
      BY <2>6, <3>1, <3>2
  <2>8. PICK r : r = Refreshed(m, y)
    OBVIOUS
  <2>9. y \in States /\ y.listed = m.listed /\ y.session = [m.session EXCEPT ![w] = "connecting"]
    BY <2>3 DEF Started
  <2>10. /\ r \in States /\ r.status = st(y) /\ r.listed = m.listed /\ SamePlan(y, r)
         /\ r.session = y.session /\ r.notes = y.notes
         /\ r.attempting = y.attempting /\ r.outcome = y.outcome
    BY <1>2, <2>8, <2>9
  <2>11. x = [r EXCEPT !.waitee = Nobody]
    BY <1>5, <2>8
  <2>12. /\ x \in States /\ x.listed = m.listed /\ x.status = st(y) /\ SamePlan(y, x)
         /\ x.session = y.session /\ x.notes = y.notes
         /\ x.attempting = y.attempting /\ x.outcome = y.outcome
    <3> HIDE DEF st
    <3> QED BY <1>3, <2>10, <2>11 DEF SamePlan
  <2>13. Plain(x)
    BY <2>4, <2>9, <2>12 DEF Plain, NewIsUnlisted, SamePlan
  <2>14. x.status[w] = "activating" /\ x.session[w] = "connecting"
    <3>1. y.session[w] = "connecting"
      BY <1>1, <2>1, <2>9 DEF States
    <3> QED
      BY <2>1, <2>12, <3>1, StatusFromUp
  <2>15. ASSUME NEW u \in m.listed \ {w} PROVE x.status[u] = "inactive" /\ x.session[u] = "disconnected"
    <3>1. u \in Tunnels /\ y.session[u] = m.session[u] /\ x.session[u] = m.session[u]
      BY <1>1, <2>9, <2>12, <2>15 DEF States
    <3>2. m.session[u] = "disconnected"
      BY <1>1, <2>7, <2>15, <3>1, DownOrUp DEF Neat
    <3>3. m.status[u] # "restarting"
      <4>1. u = m.waitee \/ u \notin Holders(m)
        BY <2>6
      <4> QED
        BY <1>5, <4>1 DEF Holders, Operating, Waiting
    <3> QED
      BY <2>12, <2>15, <3>1, <3>2, <3>3, StatusFromUp
  <2>16. Holders(x) = {w} /\ Waiting(x) = {}
    BY <2>1, <2>12, <2>14, <2>15 DEF Holders, Operating, Waiting
  <2>17. ASSUME NEW u \in Tunnels PROVE Calm(x, u) /\ Moving(x, u)
    <3>1. Calm(y, u) /\ y.listed = m.listed
      BY <2>4, <2>9
    <3>2. CASE u = w
      <4>1. y.status[w] = "activating"
        BY <1>1, <2>1, <2>3 DEF Started, States
      <4>2. SameAt(y, x, w)
        BY <2>9, <2>12, <2>14, <4>1 DEF SameAt
      <4> QED
        BY <2>4, <3>2, <4>2, SameIsCalm
    <3>3. CASE u \in m.listed \ {w}
      <4>1. x.status[u] = "inactive" /\ x.session[u] = "disconnected"
        BY <2>15, <3>3
      <4> QED
        BY <2>12, <3>1, <4>1 DEF Calm, Moving
    <3>4. CASE u \notin m.listed
      BY <2>12, <3>1, <3>4 DEF Calm, Moving
    <3> QED
      BY <3>2, <3>3, <3>4
  <2>18. Core(x)
    BY <2>12, <2>13, <2>16 DEF Core, OneWaits, OneHolds, WaitsForHolder
  <2> QED
    BY <2>6, <2>7, <2>16, <2>17, <2>18 DEF Neat, SlotStep, HandsOver
<1>6. \/ x = Refreshed(m, m)
      \/ x = [Refreshed(m, m) EXCEPT !.waitee = Nobody]
      \/ /\ m.waitee \in m.listed /\ m.status[m.waitee] # "restarting"
         /\ StatusFrom(m.session[m.waitee]) = "inactive"
         /\ \E w \in next : \E y \in Attempt(m, w, 0) : x = [Refreshed(m, y) EXCEPT !.waitee = Nobody]
  BY DEF RefreshAll
<1> QED
  BY <1>4, <1>5, <1>6

\* Containers that leave the list leave the slot and the waiting place.
LEMMA DroppedNeat ==
  ASSUME NEW m, Neat(m), NEW S \in SUBSET Tunnels
  PROVE  LET x == Dropped(m, S)
         IN  /\ Neat(x) /\ Holders(x) = Holders(m) \ S /\ Waiting(x) = Waiting(m) \ S
             /\ Up(x) = Up(m) \ S
<1> DEFINE x == Dropped(m, S)
<1>1. m \in States /\ x \in States /\ m.listed \subseteq Tunnels
  BY NeatGood, DroppedGood DEF Good, States
<1>2. /\ x.listed = m.listed \ S /\ x.adding = m.adding /\ x.gone = m.gone \ S
      /\ x.calls \subseteq m.calls /\ x.enabled = m.enabled
      /\ x.ask = [t \in Tunnels |-> IF t \in S THEN "none" ELSE m.ask[t]]
      /\ x.waitee = IF m.waitee \in S THEN Lost ELSE m.waitee
      /\ x.session = [t \in Tunnels |-> IF t \in S THEN "invalid" ELSE m.session[t]]
  <2>1. x.listed = m.listed \ S /\ x.adding = m.adding /\ x.gone = m.gone \ S /\ x.enabled = m.enabled
    BY <1>1 DEF States, Dropped
  <2>2. x.calls = {c \in m.calls : c.tunnel \notin S}
    BY <1>1 DEF States, Dropped
  <2>3. x.ask = [t \in Tunnels |-> IF t \in S THEN "none" ELSE m.ask[t]]
    BY <1>1 DEF States, Dropped
  <2>4. x.waitee = IF m.waitee \in S THEN Lost ELSE m.waitee
    BY <1>1 DEF States, Dropped
  <2>5. x.session = [t \in Tunnels |-> IF t \in S THEN "invalid" ELSE m.session[t]]
    BY <1>1 DEF States, Dropped
  <2> HIDE DEF x
  <2> QED
    BY <2>1, <2>2, <2>3, <2>4, <2>5
<1>3. ASSUME NEW u \in Tunnels \ S PROVE SameAt(m, x, u)
  <2>1. x.status[u] = m.status[u]
    BY <1>1, <1>3 DEF States, Dropped
  <2>2. x.notes[u] = m.notes[u]
    BY <1>1, <1>3 DEF States, Dropped
  <2>3. x.attempting = [t \in Tunnels |-> t \notin S /\ m.attempting[t]]
    BY <1>1, <1>3 DEF States, Dropped
  <2>4. x.attempting[u] = m.attempting[u]
    <3>1. m.attempting[u] \in BOOLEAN
      BY <1>1 DEF States
    <3> HIDE DEF x
    <3> QED BY <1>3, <2>3, <3>1
  <2>5. x.outcome[u] = m.outcome[u]
    BY <1>1, <1>3 DEF States, Dropped
  <2> HIDE DEF x
  <2> QED
    BY <1>2, <1>3, <2>1, <2>2, <2>4, <2>5 DEF SameAt
<1> HIDE DEF x
<1>4. Holders(x) = Holders(m) \ S /\ Waiting(x) = Waiting(m) \ S /\ Up(x) = Up(m) \ S
  <2>1. \A u \in x.listed : x.status[u] = m.status[u] /\ x.session[u] = m.session[u]
    BY <1>1, <1>2, <1>3 DEF SameAt
  <2> QED
    BY <1>2, <2>1 DEF Holders, Operating, Waiting, Up
<1>5. Plain(x)
  BY <1>2 DEF Neat, Core, Plain, NewIsUnlisted
<1>6. OneWaits(x) /\ OneHolds(x)
  BY <1>4 DEF Neat, Core, OneWaits, OneHolds
<1>7. WaitsForHolder(x)
  <2>1. SUFFICES ASSUME Waiting(x) # {}
                 PROVE  IF x.waitee = Lost THEN Holders(x) = {} ELSE x.waitee \in Holders(x)
    BY DEF WaitsForHolder
  <2>2. IF m.waitee = Lost THEN Holders(m) = {} ELSE m.waitee \in Holders(m)
    BY <1>4, <2>1 DEF Neat, Core, WaitsForHolder
  <2>3. \A t, u \in Holders(m) : t = u
    BY DEF Neat, Core, OneHolds
  <2> QED
    BY <1>2, <1>4, <2>2, <2>3
<1>8. ASSUME NEW u \in Tunnels PROVE Calm(x, u) /\ Moving(x, u)
  <2>1. CASE u \in S
    <3>1. ~x.attempting[u]
      BY <1>1, <2>1 DEF x, States, Dropped
    <3>2. x.outcome[u] = "none"
      BY <1>1, <2>1 DEF x, States, Dropped
    <3> QED
      BY <1>2, <2>1, <3>1, <3>2 DEF Calm, Moving
  <2>2. CASE u \notin S
    BY <1>3, <2>2, SameIsCalm DEF Neat
  <2> QED
    BY <2>1, <2>2
<1> QED
  BY <1>1, <1>4, <1>5, <1>6, <1>7, <1>8 DEF Neat, Core, x

\* The waiting tunnel makes room; the slot does not move.
LEMMA DropWaitingNeat ==
  ASSUME NEW m, Neat(m)
  PROVE  LET c == DropWaiting(m)
         IN  /\ Neat(c) /\ Up(c) = Up(m) /\ Holders(c) = Holders(m) /\ Waiting(c) = {}
             /\ c.listed = m.listed
             /\ \A t \in Tunnels : m.status[t] = "inactive" => c.status[t] = "inactive"
<1> DEFINE c == DropWaiting(m)
<1>1. m \in States /\ m.listed \subseteq Tunnels
  BY DEF Neat, Core, States
<1>2. /\ c \in States /\ Waiting(c) = {}
      /\ \A t \in Tunnels : m.status[t] = "inactive" => c.status[t] = "inactive"
  BY NeatGood, DropWaitingGood
<1>3. /\ c.listed = m.listed /\ c.waitee = m.waitee /\ SamePlan(m, c)
      /\ c.session = m.session /\ c.notes = m.notes
      /\ c.attempting = m.attempting /\ c.outcome = m.outcome
      /\ c.status = [t \in Tunnels |-> IF t \in First(Waiting(m)) THEN "inactive" ELSE m.status[t]]
  BY <1>1 DEF States, DropWaiting, SamePlan
<1> HIDE DEF c
<1>4. \A t \in Tunnels : c.status[t] = m.status[t] \/ (m.status[t] = "waiting" /\ c.status[t] = "inactive")
  BY <1>3 DEF First, Waiting
<1>5. Holders(c) = Holders(m)
  BY <1>1, <1>3, <1>4 DEF Holders, Operating, Waiting
<1>6. Up(c) = Up(m)
  BY <1>3 DEF Up
<1>7. Core(c)
  BY <1>2, <1>3, <1>5 DEF Neat, Core, Plain, NewIsUnlisted, SamePlan, OneWaits, OneHolds, WaitsForHolder
<1>8. \A u \in Tunnels : Calm(c, u) /\ Moving(c, u)
  BY <1>3, <1>4 DEF Neat, Calm, Moving
<1> QED
  BY <1>2, <1>3, <1>5, <1>6, <1>7, <1>8 DEF Neat, c

\* A tunnel waits for the one in the slot.
LEMMA WaitForNeat ==
  ASSUME NEW c, Neat(c), NEW t \in c.listed, c.status[t] = "inactive", NEW u \in Holders(c), Waiting(c) = {}
  PROVE  LET x == WaitFor(c, t, u)
         IN  Neat(x) /\ Up(x) = Up(c) /\ Holders(x) = Holders(c) /\ Waiting(x) = {t}
<1> DEFINE waits == [c EXCEPT !.status[t] = "waiting", !.waitee = u]
<1>1. c \in States /\ t \in Tunnels /\ u \in Tunnels /\ t \notin Holders(c)
  BY DEF Neat, Core, States, Holders, Operating
<1>2. /\ waits \in States /\ waits.listed = c.listed /\ waits.waitee = u /\ SamePlan(c, waits)
      /\ waits.session = c.session /\ waits.notes = c.notes
      /\ waits.attempting = c.attempting /\ waits.outcome = c.outcome
      /\ waits.status = [c.status EXCEPT ![t] = "waiting"]
  BY <1>1 DEF States, Statuses, SamePlan
<1>3. WaitFor(c, t, u) \in {waits, StartDeactivation(waits, u)}
  BY DEF WaitFor
<1> HIDE DEF waits
<1>4. Holders(waits) = Holders(c) /\ Waiting(waits) = {t} /\ Up(waits) = Up(c)
  <2>1. Assigned(c, t, "waiting", waits)
    BY <1>2 DEF Assigned
  <2>2. Waiting(waits) = Waiting(c) \cup {t} /\ Holders(waits) = Holders(c) \ {t}
    BY <1>1, <2>1, StatusSets DEF Statuses
  <2> QED
    BY <1>1, <1>2, <2>2 DEF Up
<1>5. u # Lost
  BY <1>1, TunnelsAssumption DEF Lost
<1>6. Core(waits)
  BY <1>2, <1>4, <1>5 DEF Neat, Core, Plain, NewIsUnlisted, SamePlan, OneWaits, OneHolds, WaitsForHolder
<1>7. ASSUME NEW v \in Tunnels PROVE Calm(waits, v) /\ Moving(waits, v)
  <2>1. CASE v = t
    <3>1. waits.status[t] = "waiting"
      BY <1>1, <1>2 DEF States
    <3> QED
      BY <1>1, <1>2, <2>1, <3>1 DEF Neat, Calm, Moving
  <2>2. CASE v # t
    <3>1. SameAt(c, waits, v)
      BY <1>1, <1>2, <2>2 DEF SameAt, States
    <3> QED
      BY <3>1, SameIsCalm DEF Neat
  <2> QED
    BY <2>1, <2>2
<1>8. Neat(waits)
  BY <1>6, <1>7 DEF Neat
<1>9. LET x == StartDeactivation(waits, u)
      IN  Neat(x) /\ Up(x) = Up(waits) /\ Holders(x) = Holders(waits) /\ Waiting(x) = Waiting(waits)
  BY <1>1, <1>8, StartDeactivationNeat
<1> QED
  BY <1>3, <1>4, <1>8, <1>9

\* A request takes the slot, or the waiting place.
LEMMA StartActivationOfNeat ==
  ASSUME Smooth, NEW m, Neat(m), NEW t \in m.listed, NEW x \in StartActivationOf(m, t)
  PROVE  Neat(x) /\ SlotStep(m, x)
<1>1. m \in States /\ t \in Tunnels
  BY DEF Neat, Core, States
<1>2. CASE m.status[t] # "inactive"
  BY <1>2 DEF StartActivationOf, SlotStep, Moves
<1>3. CASE m.status[t] = "inactive"
  <2>1. PICK c : c = DropWaiting(m)
    OBVIOUS
  <2>2. /\ Neat(c) /\ Up(c) = Up(m) /\ Holders(c) = Holders(m) /\ Waiting(c) = {}
        /\ t \in c.listed /\ c.status[t] = "inactive" /\ Operating(c) = Holders(c)
    BY <1>1, <1>3, <2>1, DropWaitingNeat DEF Holders
  <2>3. CASE Operating(c) = {}
    <3>1. x \in StartActivation(c, t, 0)
      BY <1>3, <2>1, <2>3 DEF StartActivationOf
    <3>2. c.session[t] = "disconnected" /\ Nearly(c, t)
      BY <1>1, <2>2 DEF Neat, Nearly, Calm
    <3>3. Neat(x) /\ Holders(x) = {t} /\ Waiting(x) = {}
      BY <2>2, <2>3, <3>1, <3>2, StartNeat
    <3> QED
      BY <1>1, <2>2, <2>3, <3>3 DEF SlotStep, Takes
  <2>4. CASE Operating(c) # {}
    <3>1. PICK u \in First(Operating(c)) : x = WaitFor(c, t, u)
      BY <1>3, <2>1, <2>4 DEF StartActivationOf
    <3>2. u \in Holders(c)
      BY <2>2 DEF First
    <3>3. Neat(x) /\ Up(x) = Up(c) /\ Holders(x) = Holders(c) /\ Waiting(x) = {t}
      BY <2>2, <3>1, <3>2, WaitForNeat
    <3>4. t \in Tunnels \ Holders(m)
      BY <1>1, <1>3 DEF Holders, Operating
    <3> QED
      BY <2>2, <3>2, <3>3, <3>4 DEF SlotStep, Waits
  <2> QED
    BY <2>3, <2>4
<1> QED
  BY <1>2, <1>3

\* The answer to an attempt is taken with its notification.
LEMMA SettledNearly ==
  ASSUME NEW m, Neat(m), NEW t \in m.listed, m.notes[t] > 0
  PROVE  LET y == Settled([m EXCEPT !.notes[t] = @ - 1], t)
         IN  /\ Nearly(y, t) /\ y.listed = m.listed /\ y.status = m.status /\ y.waitee = m.waitee
             /\ y.session = m.session
<1> DEFINE n == [m EXCEPT !.notes[t] = @ - 1]
           o == IF n.session[t] = "connected" THEN "activated" ELSE "failed"
           told == [n EXCEPT !.attempting[t] = FALSE, !.outcome[t] = o]
           y == Settled(n, t)
<1>1. m \in States /\ t \in Tunnels /\ m.notes[t] - 1 \in 0 .. MaxNotes
  <2>1. m \in States /\ t \in Tunnels
    BY DEF Neat, Core, States
  <2> QED
    BY <2>1, BoundsAssumption DEF States
<1>2. /\ n \in States /\ Alike(m, n) /\ SamePlan(m, n) /\ n.session = m.session
      /\ n.attempting = m.attempting /\ n.outcome = m.outcome
      /\ \A u \in Tunnels \ {t} : n.notes[u] = m.notes[u]
  BY <1>1 DEF States, Alike, SamePlan
<1>3. IF ~n.attempting[t] \/ n.session[t] \notin {"connected", "disconnected"} THEN y = n ELSE y = told
  BY DEF Settled
<1>4. o \in Outcomes /\ (o = "failed" \/ o = "activated") /\ (o = "failed" => n.session[t] # "connected")
  BY DEF Outcomes
<1> HIDE DEF n, o, y
<1>5. /\ told \in States /\ Alike(n, told) /\ SamePlan(n, told) /\ told.session = n.session
      /\ told.notes = n.notes
      /\ told.attempting = [n.attempting EXCEPT ![t] = FALSE]
      /\ told.outcome = [n.outcome EXCEPT ![t] = o]
  BY <1>1, <1>2, <1>4 DEF States, Alike, SamePlan
<1> HIDE DEF told
<1>6. /\ y \in States /\ Alike(m, y) /\ SamePlan(m, y) /\ y.session = m.session
      /\ \A u \in Tunnels \ {t} : y.notes[u] = m.notes[u]
  BY <1>2, <1>3, <1>5 DEF Alike, SamePlan
<1>7. ASSUME NEW u \in Tunnels \ {t} PROVE SameAt(m, y, u)
  <2>1. y.attempting[u] = m.attempting[u] /\ y.outcome[u] = m.outcome[u]
    BY <1>2, <1>3, <1>5, <1>7 DEF States
  <2> QED
    BY <1>6, <1>7, <2>1 DEF SameAt, Alike
<1>8. Calm(y, t)
  <2>1. Calm(m, t)
    BY <1>1 DEF Neat
  <2>2. CASE y = n /\ (~n.attempting[t] \/ n.session[t] \notin {"connected", "disconnected"})
    <3>1. m.attempting[t] => m.session[t] \in {"connecting", "disconnecting"}
      BY <1>1, <1>2, <2>1, <2>2, DownOrUp DEF Up
    <3> QED
      BY <1>2, <2>1, <2>2, <3>1 DEF Calm, Alike
  <2>3. CASE y = told /\ n.session[t] \in {"connected", "disconnected"}
    <3>1. y.attempting[t] = FALSE /\ y.outcome[t] = o
      BY <1>1, <1>2, <1>5, <2>3 DEF States
    <3> QED
      BY <1>2, <1>4, <1>6, <2>1, <2>3, <3>1 DEF Calm, Alike
  <2> QED
    BY <1>3, <2>2, <2>3
<1>9. Core(y)
  <2>1. Holders(y) = Holders(m) /\ Waiting(y) = Waiting(m)
    BY <1>6, SameSets DEF Alike
  <2> QED
    BY <1>6, <2>1 DEF Neat, Core, Plain, NewIsUnlisted, OneWaits, OneHolds, WaitsForHolder, Alike, SamePlan
<1>10. Nearly(y, t)
  <2>1. \A u \in Tunnels \ {t} : Calm(y, u) /\ Moving(y, u)
    BY <1>7, SameIsCalm DEF Neat
  <2> QED
    BY <1>8, <1>9, <2>1 DEF Nearly
<1> QED
  BY <1>6, <1>10 DEF Alike, y, n

-----------------------------------------------------------------------------
(* The steps.                                                              *)

\* The invariant of the smooth worlds.
SmoothInv == Smooth /\ Neat(Now)

\* A handler has taken the manager to m: to a neat state, by a step of the slot.
Arrives == Smooth' /\ Neat(Now)' /\ SlotStep(Now, Now')

\* A step to a neat state.
LEMMA BecomeNeat ==
  ASSUME Smooth, NEW m, Neat(m), SlotStep(Now, m), Become(m)
  PROVE  Arrives
<1>1. Now' = m
  BY DEF Now, Become, Neat, Core, States
<1>2. Neat(Now') /\ SlotStep(Now, Now')
  BY <1>1
<1>3. Smooth'
  BY DEF Smooth, AsyncStart, StartsFail, Outside, Become
<1>4. Neat(Now)'
  BY <1>2 DEF Neat, Core, States, Plain, NewIsUnlisted, OneWaits, OneHolds, WaitsForHolder, Calm, Moving, Holders,
     Operating, Waiting
<1> QED
  BY <1>2, <1>3, <1>4 DEF Arrives

\* A step that changes nothing the invariant reads.
LEMMA BecomeUnmoved ==
  ASSUME SmoothInv, NEW m \in States, Plain(m), Unmoved(Now, m), Become(m)
  PROVE  Arrives
BY UnmovedNeat, BecomeNeat DEF SmoothInv, SlotStep, Moves

\* What the refreshes and the completion handlers note of a reload() and of calls.
LEMMA NotedUnmoved ==
  ASSUME NEW m \in States, Plain(m), NEW b \in BOOLEAN
  PROVE  LET x == [m EXCEPT !.reloading = b]
         IN  x \in States /\ Plain(x) /\ Unmoved(m, x)
BY DEF States, Plain, NewIsUnlisted, Unmoved

\* A session that is up goes on.
LEMMA SessionMoves ==
  ASSUME NEW m, Neat(m), NEW t \in Tunnels, NEW s \in {"connected", "disconnecting", "disconnected"},
         m.session[t] \in {"connecting", "connected", "disconnecting"},
         s = "connected" => m.session[t] = "connecting"
  PROVE  LET x == SessionBecomes(m, t, s) IN Neat(x) /\ SlotStep(m, x)
<1> DEFINE x == SessionBecomes(m, t, s)
<1>1. m \in States /\ t \in m.listed
  BY DEF Neat, Core, Calm
<1>2. t \in Holders(m) /\ m.status[t] \notin {"inactive", "waiting"}
  <2>1. t \in Up(m)
    BY <1>1 DEF Up
  <2>2. t \in Holders(m)
    BY <1>1, <2>1, UpHolds DEF Neat
  <2> QED
    BY <2>2 DEF Holders, Operating, Waiting
<1>3. x \in States /\ Alike(m, x)
  BY <1>1, SessionBecomesType DEF Sessions
<1>4. /\ SamePlan(m, x) /\ x.attempting = m.attempting /\ x.outcome = m.outcome
      /\ x.session = [m.session EXCEPT ![t] = s]
      /\ x.notes = [m.notes EXCEPT ![t] = Posted(m.notes[t])]
  BY <1>1 DEF SessionBecomes, States, SamePlan
<1> HIDE DEF x
<1>5. Holders(x) = Holders(m) /\ Waiting(x) = Waiting(m)
  BY <1>3, SameSets DEF Alike
<1>6. Core(x)
  BY <1>3, <1>4, <1>5 DEF Neat, Core, Plain, NewIsUnlisted, OneWaits, OneHolds, WaitsForHolder, Alike, SamePlan
<1>7. ASSUME NEW u \in Tunnels PROVE Calm(x, u) /\ Moving(x, u)
  <2>1. CASE u = t
    <3>1. x.notes[t] > 0 /\ x.session[t] = s
      BY <1>1, <1>4, PostedPositive DEF States
    <3>2. Calm(m, t)
      BY DEF Neat
    <3> QED
      BY <1>1, <1>2, <1>3, <1>4, <2>1, <3>1, <3>2 DEF Calm, Moving, Alike
  <2>2. CASE u # t
    <3>1. SameAt(m, x, u)
      BY <1>1, <1>3, <1>4, <2>2 DEF SameAt, Alike, States
    <3> QED
      BY <3>1, SameIsCalm DEF Neat
  <2> QED
    BY <2>1, <2>2
<1> QED
  BY <1>5, <1>6, <1>7 DEF Neat, SlotStep, Moves, x

\* What the system does where nothing starts or vanishes on its own.
LEMMA SystemArrives ==
  ASSUME SmoothInv, NEW t \in Tunnels, System(t)
  PROVE  Arrives
<1>1. ~TakesStart(t)
  BY DEF SmoothInv, Neat, Core, Plain, NewIsUnlisted, Now, TakesStart
<1>2. ~StartsOutside(t) /\ ~DeletedOutside(t) /\ ~Disabled(t)
  BY DEF SmoothInv, Smooth, StartsOutside, DeletedOutside, Disabled
<1>3. Now.session[t] = session[t]
  BY DEF Now
<1>4. PICK s \in {"connected", "disconnecting", "disconnected"} :
        /\ session[t] \in {"connecting", "connected", "disconnecting"}
        /\ s = "connected" => session[t] = "connecting"
        /\ Become(SessionBecomes(Now, t, s))
  BY <1>1, <1>2 DEF System, Connects, Drops, Disconnected
<1> QED
  BY <1>3, <1>4, SessionMoves, BecomeNeat DEF SmoothInv

\* What the user asks for.
LEMMA UserArrives ==
  ASSUME SmoothInv, NEW t \in Tunnels, User(t)
  PROVE  Arrives
<1>1. Now.listed = listed /\ Now \in States /\ Plain(Now)
  BY DEF Now, SmoothInv, Neat, Core
<1>2. CASE Activate(t)
  <2>1. PICK m \in StartActivationOf(Now, t) : Become(m)
    BY <1>2 DEF Activate
  <2> QED
    BY <1>1, <1>2, <2>1, StartActivationOfNeat, BecomeNeat DEF Activate, SmoothInv
<1>3. CASE Deactivate(t)
  BY <1>3, StartDeactivationNeat, BecomeNeat DEF Deactivate, SmoothInv, SlotStep, Moves
<1>4. CASE Modify(t)
  <2> DEFINE m == [Now EXCEPT !.enabled[t] = TRUE, !.calls = @ \cup {Call(t, "modify", 0)}]
  <2>1. Call(t, "modify", 0) \in Calls /\ Call(t, "modify", 0).kind = "modify"
    BY BoundsAssumption DEF Call, Calls
  <2>2. m \in States /\ Plain(m) /\ Unmoved(Now, m)
    <3> HIDE DEF Now
    <3>1. /\ m \in States /\ Unmoved(Now, m) /\ m.adding = Now.adding /\ m.gone = Now.gone
          /\ m.ask = Now.ask /\ m.calls = Now.calls \cup {Call(t, "modify", 0)}
          /\ m.enabled = [Now.enabled EXCEPT ![t] = TRUE]
      BY <1>1, <2>1 DEF States, Unmoved
    <3> HIDE DEF m
    <3> QED
      BY <1>1, <2>1, <3>1 DEF Plain, NewIsUnlisted, States, Unmoved
  <2>3. Become(m)
    BY <1>4 DEF Modify
  <2> HIDE DEF m
  <2> QED
    BY <2>2, <2>3, BecomeUnmoved
<1>5. CASE Add(t)
  <2> DEFINE m(u) == [Now EXCEPT !.adding = [new |-> t, active |-> u]]
             live == First({u \in listed : status[u] \in {"active", "activating"}})
  <2>1. ASSUME NEW u \in Tunnels \cup {Nobody} PROVE Neat(m(u)) /\ Moves(Now, m(u))
    <3>1. t \in Tunnels \ Now.listed /\ Neat(Now)
      BY <1>1, <1>5 DEF Add, SmoothInv
    <3>2. /\ m(u) \in States /\ Unmoved(Now, m(u)) /\ m(u).adding.new = t
          /\ m(u).gone = Now.gone /\ m(u).calls = Now.calls
          /\ m(u).enabled = Now.enabled /\ m(u).ask = Now.ask
      <4> HIDE DEF Now
      <4> QED BY <1>1 DEF States, Unmoved
    <3> HIDE DEF m
    <3>3. Plain(m(u))
      BY <1>1, <3>1, <3>2 DEF Plain, NewIsUnlisted, Unmoved
    <3> QED
      BY <3>1, <3>2, <3>3, UnmovedNeat DEF Moves
  <2>2. ASSUME NEW u \in Tunnels PROVE Neat(Displaced(m(u), u)) /\ Moves(Now, Displaced(m(u), u))
    <3>1. Neat(m(u)) /\ Moves(Now, m(u))
      BY <2>1
    <3> HIDE DEF m
    <3>2. Neat(StopTunnel(m(u), u)) /\ Moves(Now, StopTunnel(m(u), u))
      BY <3>1, StopTunnelStops, StoppedNeat DEF Neat, Core, Moves
    <3> QED
      BY <3>1, <3>2 DEF Displaced
  <2>3. live \subseteq Tunnels
    BY <1>1 DEF States, First
  <2>4. Become(m(Nobody)) \/ \E u \in live : Become(Displaced(m(u), u))
    BY <1>5 DEF Add
  <2> HIDE DEF live, m
  <2> QED
    BY <2>1, <2>2, <2>3, <2>4, BecomeNeat DEF SmoothInv, SlotStep
<1>6. CASE RemoveReturns(t)
  <2>1. PICK d : d = Dropped(Now, {t})
    OBVIOUS
  <2>2. /\ Neat(d) /\ Holders(d) = Holders(Now) \ {t} /\ Waiting(d) = Waiting(Now) \ {t}
        /\ Up(d) = Up(Now) \ {t}
    BY <2>1, DroppedNeat DEF SmoothInv
  <2>3. PICK x : x = Changed(d)
    OBVIOUS
  <2>4. x \in States /\ Plain(x) /\ Unmoved(d, x)
    BY <2>2, <2>3, NotedUnmoved DEF Changed, Neat, Core
  <2>5. Neat(x) /\ Up(x) = Up(d) /\ Holders(x) = Holders(d) /\ Waiting(x) = Waiting(d)
    BY <2>2, <2>4, UnmovedNeat
  <2>6. SlotStep(Now, x)
    <3>1. /\ \A u, v \in Holders(Now) : u = v
          /\ \A u, v \in Waiting(Now) : u = v
          /\ Up(Now) \subseteq Holders(Now) /\ Holders(Now) \cap Waiting(Now) = {}
      BY UpHolds DEF SmoothInv, Neat, Core, OneHolds, OneWaits, Holders
    <3>2. CASE t \in Holders(Now)
      <4>1. Holders(x) = {} /\ Waiting(x) = Waiting(Now) /\ Holders(Now) # {}
        BY <2>2, <2>5, <3>1, <3>2
      <4> QED
        BY <4>1 DEF SlotStep, Vanishes
    <3>3. CASE t \in Waiting(Now)
      <4>1. Holders(x) = Holders(Now) /\ Waiting(x) = {} /\ Up(x) = Up(Now)
        BY <2>2, <2>5, <3>1, <3>3
      <4> QED
        BY <4>1 DEF SlotStep, Forgets
    <3>4. CASE t \notin Holders(Now) \cup Waiting(Now)
      BY <2>2, <2>5, <3>4 DEF SlotStep, Moves
    <3> QED
      BY <3>2, <3>3, <3>4
  <2>7. Become(x)
    BY <1>6, <2>1, <2>3 DEF RemoveReturns
  <2> QED
    BY <2>5, <2>6, <2>7, BecomeNeat DEF SmoothInv
<1> QED
  BY <1>2, <1>3, <1>4, <1>5, <1>6 DEF User

\* A tunnel in use that is to be restarted stays in the slot.
LEMMA RestartingNeat ==
  ASSUME NEW c, Neat(c), NEW t \in Tunnels, c.status[t] \in {"active", "activating"}
  PROVE  LET r == [c EXCEPT !.status[t] = "restarting"]
         IN  /\ Neat(r) /\ Holders(r) = Holders(c) /\ Waiting(r) = Waiting(c)
             /\ r.listed = c.listed /\ r.adding = c.adding
<1> DEFINE r == [c EXCEPT !.status[t] = "restarting"]
<1>1. /\ c \in States
      /\ r \in States /\ r.listed = c.listed /\ r.waitee = c.waitee /\ SamePlan(c, r)
      /\ r.session = c.session /\ r.notes = c.notes
      /\ r.attempting = c.attempting /\ r.outcome = c.outcome
      /\ r.status = [c.status EXCEPT ![t] = "restarting"]
  BY DEF Neat, Core, States, Statuses, SamePlan
<1> HIDE DEF r
<1>2. \A u \in Tunnels : \/ r.status[u] = c.status[u]
                         \/ u = t /\ r.status[u] = "restarting"
  BY <1>1 DEF States
<1>3. Holders(r) = Holders(c) /\ Waiting(r) = Waiting(c)
  <2>1. c.listed \subseteq Tunnels /\ r.listed = c.listed
    BY <1>1 DEF States
  <2>2. r.status[t] = "restarting" \/ t \notin c.listed
    BY <1>1, <2>1 DEF States
  <2> QED
    BY <1>2, <2>1, <2>2 DEF Holders, Operating, Waiting
<1>4. Core(r)
  BY <1>1, <1>3 DEF Neat, Core, Plain, NewIsUnlisted, OneWaits, OneHolds, WaitsForHolder, SamePlan
<1>5. \A u \in Tunnels : Calm(r, u) /\ Moving(r, u)
  BY <1>1, <1>2 DEF Neat, Calm, Moving
<1> QED
  BY <1>1, <1>3, <1>4, <1>5 DEF Neat, SamePlan, r

\* The completion handlers of calls: those of modify are the only ones.
LEMMA CompletionArrives ==
  ASSUME SmoothInv, NEW t \in Tunnels, Completion(t)
  PROVE  Arrives
<1>1. Now.calls = calls /\ Now.status = status /\ Now \in States /\ Plain(Now) /\ Neat(Now)
  BY DEF Now, SmoothInv, Neat, Core
<1>2. ~\E c \in calls : c.tunnel = t /\ (SaveReturns(t, c.count) \/ LoadReturns(t, c.count))
  <2>1. \A n : Call(t, "save", n).kind # "modify" /\ Call(t, "load", n).kind # "modify"
    BY DEF Call
  <2> QED
    BY <1>1, <2>1 DEF Plain, NewIsUnlisted, SaveReturns, LoadReturns
<1>3. ModifyReturns(t)
  BY <1>2 DEF Completion
<1> DEFINE m == [Now EXCEPT !.calls = @ \ {Call(t, "modify", 0)}]
           c == Changed(m)
           r == [c EXCEPT !.status[t] = "restarting"]
<1>4. m \in States /\ Plain(m) /\ Unmoved(Now, m)
  <2> HIDE DEF Now
  <2> QED BY <1>1 DEF States, Plain, NewIsUnlisted, Unmoved
<1>5. Become(m) \/ Become(c) \/ (status[t] \in {"active", "activating"} /\ Become(StopTunnel(r, t)))
  BY <1>3 DEF ModifyReturns
<1> HIDE DEF m
<1>6. c \in States /\ Plain(c) /\ Unmoved(m, c)
  BY <1>4, NotedUnmoved DEF Changed
<1> HIDE DEF c
<1>7. Unmoved(Now, c)
  BY <1>4, <1>6 DEF Unmoved
<1>8. CASE Become(m)
  BY <1>4, <1>8, BecomeUnmoved
<1>9. CASE Become(c)
  BY <1>6, <1>7, <1>9, BecomeUnmoved
<1>10. CASE status[t] \in {"active", "activating"} /\ Become(StopTunnel(r, t))
  <2>1. Neat(c) /\ Up(c) = Up(Now) /\ Holders(c) = Holders(Now) /\ Waiting(c) = Waiting(Now)
    BY <1>1, <1>6, <1>7, UnmovedNeat
  <2>2. c.status[t] \in {"active", "activating"}
    BY <1>1, <1>7, <1>10 DEF Unmoved
  <2>3. Neat(r) /\ Holders(r) = Holders(c) /\ Waiting(r) = Waiting(c)
    BY <2>1, <2>2, RestartingNeat
  <2> HIDE DEF r
  <2>4. Stopped(r, t, StopTunnel(r, t))
    BY <2>3, StopTunnelStops DEF Neat, Core
  <2>5. Neat(StopTunnel(r, t)) /\ Moves(Now, StopTunnel(r, t))
    BY <2>1, <2>3, <2>4, StoppedNeat DEF Moves
  <2> QED
    BY <1>10, <2>5, BecomeNeat DEF SmoothInv, SlotStep
<1> QED
  BY <1>5, <1>8, <1>9, <1>10

\* The iOS hack of add starts the displaced tunnel, or has it wait, like any request.
LEMMA ReactivatedNeat ==
  ASSUME Smooth, NEW m, Neat(m), NEW u \in m.listed, NEW x \in Reactivated(m, u)
  PROVE  Neat(x) /\ SlotStep(m, x)
<1>1. PICK y : /\ y \in StartActivationOf(m, u) \/ y = m
               /\ x = IF y.status[u] \in {"active", "activating"}
                      THEN [y EXCEPT !.status[u] = "restarting"] ELSE y
  BY DEF Reactivated
<1>2. Neat(y) /\ SlotStep(m, y)
  BY <1>1, StartActivationOfNeat DEF SlotStep, Moves
<1>3. u \in Tunnels
  BY DEF Neat, Core, States
<1>4. CASE y.status[u] \in {"active", "activating"}
  <2>1. PICK r : r = [y EXCEPT !.status[u] = "restarting"]
    OBVIOUS
  <2>2. Neat(r) /\ Holders(r) = Holders(y) /\ Waiting(r) = Waiting(y)
    BY <1>2, <1>3, <1>4, <2>1, RestartingNeat
  <2>3. x = r
    BY <1>1, <1>4, <2>1
  <2>4. Up(r) = Up(y)
    BY <1>2, <2>1 DEF Up, Neat, Core, States
  <2> QED
    BY <1>2, <2>2, <2>3, <2>4 DEF SlotStep, Moves, Forgets, Waits, Takes, HandsOver, Releases, Vanishes
<1>5. CASE y.status[u] \notin {"active", "activating"}
  BY <1>1, <1>2, <1>5
<1> QED
  BY <1>4, <1>5

\* A new container is inactive and down: the slot does not move.
LEMMA ListingNeat ==
  ASSUME NEW m, Neat(m), NEW t \in Tunnels \ m.listed
  PROVE  LET x == Listing(m, t)
         IN  Neat(x) /\ Holders(x) = Holders(m) /\ Waiting(x) = Waiting(m) /\ Up(x) = Up(m)
<1> DEFINE x == Listing(m, t)
           c == Changed(m)
<1>1. m \in States /\ m.status \in [Tunnels -> Statuses] /\ m.listed \subseteq Tunnels
  BY DEF Neat, Core, States
<1>2. /\ c \in States /\ c.listed = m.listed /\ c.status = m.status /\ c.session = m.session
      /\ c.waitee = m.waitee /\ c.gone = m.gone /\ c.calls = m.calls /\ c.ask = m.ask
      /\ c.notes = m.notes /\ c.attempting = m.attempting /\ c.outcome = m.outcome
      /\ c.enabled = m.enabled
  BY <1>1 DEF Changed, States
<1>3. x = [c EXCEPT !.listed = @ \cup {t}, !.status[t] = "inactive", !.session[t] = "disconnected",
                    !.enabled[t] = TRUE, !.adding = NoAdd]
  BY DEF Listing
<1> HIDE DEF c, x
<1>4. /\ x \in States /\ x.listed = m.listed \cup {t} /\ x.waitee = m.waitee /\ x.adding = NoAdd
      /\ x.gone = m.gone /\ x.calls = m.calls /\ x.ask = m.ask /\ x.notes = m.notes
      /\ x.attempting = m.attempting /\ x.outcome = m.outcome
  BY <1>2, <1>3 DEF States, Statuses, Sessions, NoAdd
<1>5. /\ x.status = [m.status EXCEPT ![t] = "inactive"]
      /\ x.session = [m.session EXCEPT ![t] = "disconnected"]
      /\ x.enabled = [m.enabled EXCEPT ![t] = TRUE]
  BY <1>2, <1>3 DEF States
<1>6. \A u \in Tunnels \ {t} : SameAt(m, x, u)
  BY <1>1, <1>4, <1>5 DEF SameAt, States
<1>7. x.status[t] = "inactive" /\ x.session[t] = "disconnected" /\ t \in x.listed
  BY <1>1, <1>4, <1>5 DEF States
<1>8. Holders(x) = Holders(m) /\ Waiting(x) = Waiting(m) /\ Up(x) = Up(m)
  BY <1>1, <1>4, <1>6, <1>7 DEF Holders, Operating, Waiting, Up, SameAt
<1>9. Plain(x)
  BY <1>1, <1>4, <1>5 DEF Neat, Core, Plain, NewIsUnlisted, States
<1>10. Core(x)
  BY <1>4, <1>8, <1>9 DEF Neat, Core, OneWaits, OneHolds, WaitsForHolder
<1>11. ASSUME NEW u \in Tunnels PROVE Calm(x, u) /\ Moving(x, u)
  <2>1. CASE u = t
    BY <1>4, <1>7, <2>1 DEF Neat, Calm, Moving
  <2>2. CASE u # t
    BY <1>6, <2>2, SameIsCalm DEF Neat
  <2> QED
    BY <2>1, <2>2
<1> QED
  BY <1>8, <1>10, <1>11 DEF Neat, x

\* The completion handler of add.
LEMMA AddReturnsArrives ==
  ASSUME SmoothInv, AddReturns
  PROVE  Arrives
<1>1. /\ adding # NoAdd /\ adding.new \in Tunnels \ listed /\ Now.adding = adding /\ Now.listed = listed
      /\ Now \in States /\ Plain(Now) /\ Neat(Now) /\ Smooth
  BY DEF AddReturns, SmoothInv, Neat, Core, Plain, NewIsUnlisted, Now
<1>2. CASE Become([Now EXCEPT !.adding = NoAdd])
  <2> DEFINE m == [Now EXCEPT !.adding = NoAdd]
  <2>1. /\ m \in States /\ Unmoved(Now, m) /\ m.adding = NoAdd
        /\ m.gone = Now.gone /\ m.calls = Now.calls /\ m.enabled = Now.enabled /\ m.ask = Now.ask
    <3> HIDE DEF Now
    <3> QED BY <1>1 DEF States, NoAdd, Unmoved
  <2> HIDE DEF m
  <2>2. Plain(m)
    BY <1>1, <2>1 DEF Plain, NewIsUnlisted
  <2> QED
    BY <1>2, <2>1, <2>2, BecomeUnmoved DEF m
<1>3. ASSUME adding.active \in listed,
             NEW x \in Reactivated(Now, adding.active), Become(Listing(x, adding.new))
      PROVE  Arrives
  <2>1. adding.active \in Tunnels
    BY <1>1, <1>3 DEF States
  <2>2. Neat(x) /\ SlotStep(Now, x)
    BY <1>1, <1>3, ReactivatedNeat
  <2>3. x.adding = adding
    BY <1>1, <1>3, <2>1, NeatGood, ReactivatedKeepsAdding
  <2>4. adding.new \in Tunnels \ x.listed
    BY <1>1, <2>2, <2>3 DEF Neat, Core, Plain, NewIsUnlisted
  <2>5. PICK y : y = Listing(x, adding.new)
    OBVIOUS
  <2>6. Neat(y) /\ Holders(y) = Holders(x) /\ Waiting(y) = Waiting(x) /\ Up(y) = Up(x)
    BY <2>2, <2>4, <2>5, ListingNeat
  <2>7. SlotStep(Now, y)
    BY <2>2, <2>6 DEF SlotStep, Moves, Forgets, Waits, Takes, HandsOver, Releases, Vanishes
  <2> QED
    BY <1>1, <1>3, <2>5, <2>6, <2>7, BecomeNeat
<1>4. CASE Become(Listing(Now, adding.new))
  BY <1>1, <1>4, ListingNeat, BecomeNeat DEF SlotStep, Moves
<1> QED
  BY <1>2, <1>3, <1>4 DEF AddReturns

\* The NEVPNStatusDidChange observer.
LEMMA StatusDidChangeArrives ==
  ASSUME SmoothInv, NEW t \in Tunnels, StatusDidChange(t)
  PROVE  Arrives
<1>1. /\ Now.listed = listed /\ Now.notes = notes /\ Now.session = session
      /\ t \in listed /\ notes[t] > 0 /\ Neat(Now) /\ Now \in States /\ Smooth
  BY DEF Now, SmoothInv, StatusDidChange, Neat, Core
<1>2. PICK m : m = Settled([Now EXCEPT !.notes[t] = @ - 1], t)
  OBVIOUS
<1>3. /\ Nearly(m, t) /\ m.listed = Now.listed /\ m.status = Now.status /\ m.waitee = Now.waitee
      /\ m.session = Now.session
  BY <1>1, <1>2, SettledNearly
<1>4. Holders(m) = Holders(Now) /\ Waiting(m) = Waiting(Now) /\ Up(m) = Up(Now)
  BY <1>3, SameSets DEF Up
<1>5. ASSUME NEW x, SlotStep(m, x) PROVE SlotStep(Now, x)
  BY <1>4, <1>5 DEF SlotStep, Moves, Forgets, Waits, Takes, HandsOver, Releases, Vanishes
<1>6. CASE m.status[t] = "restarting" /\ m.session[t] = "disconnected"
  <2>1. PICK x \in StartActivation(m, t, 0) : Become(x)
    BY <1>2, <1>6 DEF StatusDidChange
  <2>2. t \in Holders(m)
    BY <1>1, <1>3, <1>6 DEF Holders, Operating, Waiting
  <2>3. Holders(m) = {t}
    BY <1>3, <2>2 DEF Nearly, Core, OneHolds
  <2>4. Neat(x) /\ Holders(x) = {t} /\ Waiting(x) = Waiting(m)
    BY <1>1, <1>3, <1>6, <2>1, <2>3, StartNeat
  <2>5. SlotStep(m, x)
    BY <2>3, <2>4 DEF SlotStep, Moves
  <2> QED
    BY <1>1, <1>5, <2>1, <2>4, <2>5, BecomeNeat
<1>7. CASE ~(m.status[t] = "restarting" /\ m.session[t] = "disconnected")
  <2>1. PICK x \in RefreshStatus(m, t) : Become(x)
    BY <1>2, <1>7 DEF StatusDidChange
  <2>2. Neat(x) /\ SlotStep(m, x)
    BY <1>1, <1>3, <2>1, RefreshStatusNeat
  <2> QED
    BY <1>1, <1>5, <2>1, <2>2, BecomeNeat
<1> QED
  BY <1>6, <1>7

\* The activation timer.
LEMMA TimerFiresArrives ==
  ASSUME SmoothInv, NEW t \in Tunnels, TimerFires(t)
  PROVE  Arrives
<1>1. Now.listed = listed /\ t \in listed /\ Neat(Now) /\ Now \in States /\ Plain(Now) /\ Smooth
  BY DEF Now, SmoothInv, TimerFires, Neat, Core
<1> DEFINE b == ~(session[t] \in {"connected", "disconnected", "invalid"})
           m == [Now EXCEPT !.timer[t] = b]
<1>2. PICK x \in RefreshStatus(m, t) : Become(x)
  BY DEF TimerFires
<1>3. m \in States /\ Plain(m) /\ Unmoved(Now, m)
  <2>1. b \in BOOLEAN
    OBVIOUS
  <2> HIDE DEF b, Now
  <2> QED BY <1>1, <2>1 DEF States, Plain, NewIsUnlisted, Unmoved
<1> HIDE DEF m
<1>4. Neat(m) /\ Up(m) = Up(Now) /\ Holders(m) = Holders(Now) /\ Waiting(m) = Waiting(Now)
  BY <1>1, <1>3, UnmovedNeat
<1>5. Nearly(m, t) /\ t \in m.listed
  BY <1>1, <1>3, <1>4 DEF Neat, Nearly, Unmoved
<1>6. Neat(x) /\ SlotStep(m, x)
  BY <1>1, <1>2, <1>5, RefreshStatusNeat
<1>7. SlotStep(Now, x)
  BY <1>4, <1>6 DEF SlotStep, Moves, Forgets, Waits, Takes, HandsOver, Releases, Vanishes
<1> QED
  BY <1>1, <1>2, <1>6, <1>7, BecomeNeat

\* The foreground refresh and reload().
LEMMA RefreshArrives ==
  ASSUME SmoothInv, RefreshStatuses \/ Reload
  PROVE  Arrives
<1>1. Neat(Now) /\ Now.gone = {} /\ Now.gone = gone /\ Smooth
  BY DEF Now, SmoothInv, Neat, Core, Plain, NewIsUnlisted
<1>2. CASE RefreshStatuses
  <2>1. PICK x \in RefreshAll(Now, {w \in First(Waiting(Now)) : w > waitee}) : Become(x)
    BY <1>2 DEF RefreshStatuses
  <2>2. Neat(x) /\ SlotStep(Now, x)
    BY <1>1, <2>1, RefreshAllNeat
  <2> QED
    BY <1>1, <2>1, <2>2, BecomeNeat
<1>3. CASE Reload
  <2>1. PICK m : m = Dropped(Now, gone \cap listed)
    OBVIOUS
  <2>2. Neat(m) /\ Up(m) = Up(Now) /\ Holders(m) = Holders(Now) /\ Waiting(m) = Waiting(Now)
    <3>1. PICK S \in SUBSET Tunnels : S = {} /\ m = Dropped(Now, S)
      <4>1. gone \cap listed = {}
        BY <1>1
      <4> QED
        BY <2>1, <4>1
    <3>2. /\ Neat(m) /\ Holders(m) = Holders(Now) \ S /\ Waiting(m) = Waiting(Now) \ S
          /\ Up(m) = Up(Now) \ S
      BY <1>1, <3>1, DroppedNeat
    <3> QED
      BY <3>1, <3>2
  <2>3. PICK next \in {First(Waiting(m)), {}}, more \in BOOLEAN :
               \E x \in RefreshAll(m, next) : Become([x EXCEPT !.reloading = more])
    BY <1>3, <2>1 DEF Reload
  <2>4. PICK x \in RefreshAll(m, next) : Become([x EXCEPT !.reloading = more])
    BY <2>3
  <2>5. Neat(x) /\ SlotStep(m, x)
    BY <1>1, <2>2, <2>3, <2>4, RefreshAllNeat
  <2>6. PICK y : y = [x EXCEPT !.reloading = more]
    OBVIOUS
  <2>7. y \in States /\ Plain(y) /\ Unmoved(x, y)
    BY <2>3, <2>5, <2>6, NotedUnmoved DEF Neat, Core
  <2>8. Neat(y) /\ Up(y) = Up(x) /\ Holders(y) = Holders(x) /\ Waiting(y) = Waiting(x)
    BY <2>5, <2>7, UnmovedNeat
  <2>9. SlotStep(Now, y)
    BY <2>2, <2>5, <2>8 DEF SlotStep, Moves, Forgets, Waits, Takes, HandsOver, Releases, Vanishes
  <2> QED
    BY <1>1, <2>4, <2>6, <2>8, <2>9, BecomeNeat
<1> QED
  BY <1>2, <1>3

\* Every step keeps the invariant and is a step of the slot.
LEMMA NextArrives ==
  ASSUME SmoothInv, [Next]_vars
  PROVE  Arrives
<1>1. CASE UNCHANGED vars
  <2>1. Now' = Now /\ Smooth'
    BY <1>1 DEF vars, Now, SmoothInv, Smooth, AsyncStart, StartsFail, Outside
  <2>2. Moves(Now, Now')
    BY <2>1 DEF Moves
  <2>3. Neat(Now)'
    BY <1>1 DEF vars, Now, SmoothInv, Neat, Core, States, Plain, NewIsUnlisted, OneWaits, OneHolds, WaitsForHolder,
       Calm, Moving, Holders, Operating, Waiting
  <2> QED
    BY <2>1, <2>2, <2>3 DEF Arrives, SlotStep
<1>2. CASE Next
  BY <1>2, UserArrives, CompletionArrives, StatusDidChangeArrives, TimerFiresArrives,
     SystemArrives, RefreshArrives, AddReturnsArrives DEF Next
<1> QED
  BY <1>1, <1>2

\* When the manager is created the tunnels are as their sessions, and at most one is up.
LEMMA InitNeat == Init /\ Smooth => SmoothInv
<1> SUFFICES ASSUME Init, Smooth PROVE SmoothInv
  OBVIOUS
<1>1. Now \in States
  BY InitInv DEF Inv, Good
<1>2. Plain(Now)
  BY DEF Init, Now, Plain, NewIsUnlisted
<1>3. /\ Now.listed = listed /\ Now.session = session /\ listed \subseteq Tunnels
      /\ \A t \in Tunnels : Now.status[t] = StatusFrom(session[t]) /\ ~Now.attempting[t]
                            /\ Now.outcome[t] = "none"
      /\ \A t \in Tunnels : session[t] \in {"disconnected", "connected", "invalid"}
  BY <1>1 DEF Init, Now, States
<1>4. ASSUME NEW t \in Tunnels PROVE Calm(Now, t) /\ Moving(Now, t)
  <2>1. (session[t] = "invalid" <=> t \notin listed) /\ Now.status[t] # "activating"
    BY <1>3, StatusFromUp DEF Init
  <2>2. t \in listed /\ Now.status[t] \in {"inactive", "waiting"} => session[t] = "disconnected"
    BY <1>3, <2>1, StatusFromUp
  <2> QED
    BY <1>3, <2>1, <2>2 DEF Calm, Moving
<1>5. Waiting(Now) = {}
  BY <1>3, StatusFromUp DEF Waiting
<1>6. \A t \in Holders(Now) : session[t] = "connected"
  BY <1>3, StatusFromUp DEF Holders, Operating
<1>7. OneHolds(Now)
  BY <1>3, <1>6 DEF OneHolds, Init, Holders, Operating
<1> QED
  BY <1>1, <1>2, <1>4, <1>5, <1>7 DEF SmoothInv, Neat, Core, OneWaits, WaitsForHolder

\* The invariant of the smooth worlds holds in every reachable state.
THEOREM SmoothInvariant == Spec /\ Smooth => []SmoothInv
<1>1. SmoothInv /\ [Next]_vars => SmoothInv'
  BY NextArrives DEF Arrives, SmoothInv
<1> QED
  BY <1>1, InitNeat, PTL DEF Spec

-----------------------------------------------------------------------------
(* The refinement.                                                         *)

\* The occupant of a place for one.
LEMMA OneOfPlace ==
  ASSUME NEW S \in SUBSET Tunnels, \A t, u \in S : t = u
  PROVE  IF S = {} THEN OneOf(S) = Nobody ELSE S = {OneOf(S)} /\ OneOf(S) \in Tunnels \ {Nobody}
<1>1. CASE S = {}
  BY <1>1 DEF OneOf
<1>2. CASE S # {}
  <2>1. OneOf(S) \in S
    BY <1>2 DEF OneOf
  <2> QED
    BY <2>1, TunnelsAssumption DEF Nobody
<1> QED
  BY <1>1, <1>2

\* The slot, its waiting place and the sessions, in a neat state.
LEMMA Places ==
  ASSUME NEW m, Neat(m)
  PROVE  /\ IF Holders(m) = {} THEN OneOf(Holders(m)) = Nobody
            ELSE Holders(m) = {OneOf(Holders(m))} /\ OneOf(Holders(m)) \in Tunnels \ {Nobody}
         /\ IF Waiting(m) = {} THEN OneOf(Waiting(m)) = Nobody
            ELSE Waiting(m) = {OneOf(Waiting(m))} /\ OneOf(Waiting(m)) \in Tunnels \ {Nobody}
         /\ Up(m) \subseteq Holders(m)
<1>1. Holders(m) \in SUBSET Tunnels /\ Waiting(m) \in SUBSET Tunnels
  BY DEF Neat, Core, States, Holders, Operating, Waiting
<1>2. (\A t, u \in Holders(m) : t = u) /\ (\A t, u \in Waiting(m) : t = u)
  BY DEF Neat, Core, OneHolds, OneWaits
<1>3. Up(m) \subseteq Holders(m)
  BY UpHolds DEF Neat, Core
<1> QED
  BY <1>1, <1>2, <1>3, OneOfPlace

\* The slot is taken, waited for and released as SingleSlot says.
LEMMA SlotNext ==
  ASSUME SmoothInv, Arrives
  PROVE  [Slot!Next]_(Slot!vars)
<1>1. PICK m, x : m = Now /\ x = Now'
  OBVIOUS
<1>2. Neat(m) /\ Neat(x) /\ SlotStep(m, x)
  <2>1. Neat(Now')
    BY DEF Arrives, Neat, Core, States, Plain, NewIsUnlisted, OneWaits, OneHolds, WaitsForHolder, Calm, Moving,
       Holders, Operating, Waiting
  <2> QED
    BY <1>1, <2>1 DEF SmoothInv, Arrives
<1>3. PICK h, n, U : h = OneOf(Holders(m)) /\ n = OneOf(Waiting(m)) /\ U = Up(m)
  OBVIOUS
<1>4. PICK h2, n2, U2 : h2 = OneOf(Holders(x)) /\ n2 = OneOf(Waiting(x)) /\ U2 = Up(x)
  OBVIOUS
<1>5. /\ OneOf(InSlot) = h /\ OneOf(Waiting(Now)) = n
      /\ {t \in listed : session[t] \in {"connecting", "connected", "disconnecting"}} = U
  BY <1>1, <1>3 DEF InSlot, Holders, Up, Now
<1>6. /\ OneOf(InSlot)' = h2 /\ OneOf(Waiting(Now))' = n2
      /\ {t \in listed : session[t] \in {"connecting", "connected", "disconnecting"}}' = U2
  BY <1>1, <1>4 DEF InSlot, Holders, Up, Now, OneOf, Operating, Waiting
<1>7. /\ IF Holders(m) = {} THEN h = Nobody ELSE Holders(m) = {h} /\ h \in Tunnels \ {Nobody}
      /\ IF Waiting(m) = {} THEN n = Nobody ELSE Waiting(m) = {n} /\ n \in Tunnels \ {Nobody}
      /\ U \subseteq Holders(m)
  BY <1>2, <1>3, Places
<1>8. /\ IF Holders(x) = {} THEN h2 = Nobody ELSE Holders(x) = {h2} /\ h2 \in Tunnels \ {Nobody}
      /\ IF Waiting(x) = {} THEN n2 = Nobody ELSE Waiting(x) = {n2} /\ n2 \in Tunnels \ {Nobody}
      /\ U2 \subseteq Holders(x)
  BY <1>2, <1>4, Places
<1>9. CASE Moves(m, x)
  <2>1. h2 = h /\ n2 = n /\ U2 \subseteq {h} \ {Nobody}
    BY <1>3, <1>4, <1>7, <1>8, <1>9 DEF Moves
  <2>2. Slot!Move
    BY <1>5, <1>6, <2>1 DEF Slot!Move, Slot!Nobody, Nobody
  <2> QED
    BY <2>2 DEF Slot!Next
<1>10. CASE Forgets(m, x)
  <2>1. h2 = h /\ n2 = Nobody /\ U2 = U
    BY <1>3, <1>4, <1>8, <1>10 DEF Forgets
  <2>2. Slot!Forget
    BY <1>5, <1>6, <2>1 DEF Slot!Forget, Slot!Nobody, Nobody
  <2> QED
    BY <2>2 DEF Slot!Next
<1>11. CASE Waits(m, x)
  <2>1. PICK t \in Tunnels \ Holders(m) : Waiting(x) = {t}
    BY <1>11 DEF Waits
  <2>2. h \notin {Nobody, t} /\ n2 = t /\ h2 = h /\ U2 = U
    BY <1>3, <1>4, <1>7, <1>8, <1>11, <2>1 DEF Waits
  <2>3. Slot!Wait(t)
    BY <1>5, <1>6, <2>2 DEF Slot!Wait, Slot!Nobody, Nobody
  <2> QED
    BY <2>3 DEF Slot!Next
<1>12. CASE Takes(m, x)
  <2>1. PICK t \in Tunnels : Holders(x) = {t}
    BY <1>12 DEF Takes
  <2>2. h = Nobody /\ h2 = t /\ n2 = Nobody /\ U2 \subseteq {t}
    BY <1>7, <1>8, <1>12, <2>1 DEF Takes
  <2>3. Slot!Take(t)
    BY <1>5, <1>6, <2>2 DEF Slot!Take, Slot!Nobody, Nobody
  <2> QED
    BY <2>3 DEF Slot!Next
<1>13. CASE HandsOver(m, x)
  <2>1. n # Nobody /\ U = {} /\ h2 = n /\ n2 = Nobody /\ U2 \subseteq {n}
    BY <1>3, <1>4, <1>7, <1>8, <1>13 DEF HandsOver
  <2>2. Slot!HandOver
    BY <1>5, <1>6, <2>1 DEF Slot!HandOver, Slot!Nobody, Nobody
  <2> QED
    BY <2>2 DEF Slot!Next
<1>14. CASE Releases(m, x)
  <2>1. h # Nobody /\ U = {} /\ h2 = Nobody /\ n2 = Nobody /\ U2 = {}
    BY <1>3, <1>7, <1>8, <1>14 DEF Releases
  <2>2. Slot!Release
    BY <1>5, <1>6, <2>1 DEF Slot!Release, Slot!Nobody, Nobody
  <2> QED
    BY <2>2 DEF Slot!Next
<1>15. CASE Vanishes(m, x)
  <2>1. h # Nobody /\ h2 = Nobody /\ U2 = {} /\ n2 = n
    BY <1>3, <1>4, <1>7, <1>8, <1>15 DEF Vanishes
  <2>2. Slot!Vanish
    BY <1>5, <1>6, <2>1 DEF Slot!Vanish, Slot!Nobody, Nobody
  <2> QED
    BY <2>2 DEF Slot!Next
<1> QED
  BY <1>2, <1>9, <1>10, <1>11, <1>12, <1>13, <1>14, <1>15 DEF SlotStep

\* The manager starts with a tunnel in the slot if it finds a session up.
LEMMA SlotInit == Init /\ SmoothInv => Slot!Init
<1> SUFFICES ASSUME Init, SmoothInv PROVE Slot!Init
  OBVIOUS
<1>1. PICK m : m = Now
  OBVIOUS
<1>2. Neat(m)
  BY <1>1 DEF SmoothInv
<1>3. PICK h, n, U : h = OneOf(Holders(m)) /\ n = OneOf(Waiting(m)) /\ U = Up(m)
  OBVIOUS
<1>4. /\ OneOf(InSlot) = h /\ OneOf(Waiting(Now)) = n
      /\ {t \in listed : session[t] \in {"connecting", "connected", "disconnecting"}} = U
  BY <1>1, <1>3 DEF InSlot, Holders, Up, Now
<1>5. Waiting(m) = {}
  <2>1. m \in States /\ m.listed = listed /\ \A t \in Tunnels : m.status[t] = StatusFrom(session[t])
    BY <1>1, <1>2 DEF Init, Neat, Core, Now
  <2> QED
    BY <2>1, StatusFromUp DEF Waiting, States
<1>6. h \in Tunnels \cup {Nobody} /\ n = Nobody /\ U \subseteq {h} \ {Nobody}
  BY <1>2, <1>3, <1>5, Places
<1> QED
  BY <1>4, <1>6 DEF Slot!Init, Slot!Nobody, Nobody

\* TunnelsManager implements SingleSlot: for any number of tunnels, a session is up only
\* in the slot, the slot changes hands only when that session is down, and it goes to the
\* tunnel that waits, wherever no start fails or lags and no session starts outside the app.
THEOREM SlotIsImplemented == Spec /\ Smooth => ImplementsSlot
<1>1. SmoothInv /\ [Next]_vars => [Slot!Next]_(Slot!vars)
  BY NextArrives, SlotNext
<1>2. Init /\ SmoothInv => Slot!Init
  BY SlotInit
<1> QED
  BY <1>1, <1>2, SmoothInvariant, PTL DEF Spec, ImplementsSlot, Slot!Spec

-----------------------------------------------------------------------------
(* The safety properties of the smooth worlds.                             *)

\* Apart from the waiting tunnel at most one tunnel is in operation, and no session is up
\* of a tunnel that the app shows as inactive or waiting.
THEOREM OneOperates == Spec /\ Smooth => []OneInOperation
<1>1. SmoothInv => OneInOperation
  <2> SUFFICES ASSUME SmoothInv PROVE OneInOperation
    OBVIOUS
  <2>1. Now.listed = listed /\ Now.status = status /\ Now.session = session /\ listed \subseteq Tunnels
    BY DEF SmoothInv, Neat, Core, States, Now
  <2> QED
    BY <2>1 DEF SmoothInv, Neat, Core, OneHolds, Calm, Holders, OneInOperation
<1> QED
  BY <1>1, SmoothInvariant, PTL

\* A tunnel shown as activating is connecting, or a notification will correct it: it never
\* stays "Activating" with nothing under way.
THEOREM ActivatingGoesOn == Spec /\ Smooth => []ActivatingIsTrying
<1>1. SmoothInv => ActivatingIsTrying
  <2> SUFFICES ASSUME SmoothInv PROVE ActivatingIsTrying
    OBVIOUS
  <2>1. /\ Now.listed = listed /\ Now.status = status /\ Now.session = session /\ Now.notes = notes
        /\ listed \subseteq Tunnels
    BY DEF SmoothInv, Neat, Core, States, Now
  <2> QED
    BY <2>1 DEF SmoothInv, Neat, Moving, ActivatingIsTrying
<1> QED
  BY <1>1, SmoothInvariant, PTL

\* Whoever waits for the outcome of startTunnel will be told: the session is moving or a
\* notification is undelivered.
THEOREM AttemptsAreAnswered == Spec /\ Smooth => []AttemptIsAnswered
<1>1. SmoothInv => AttemptIsAnswered
  <2> SUFFICES ASSUME SmoothInv PROVE AttemptIsAnswered
    OBVIOUS
  <2>1. /\ Now.listed = listed /\ Now.attempting = attempting /\ Now.session = session
        /\ Now.notes = notes /\ listed \subseteq Tunnels
    BY DEF SmoothInv, Neat, Core, States, Now
  <2> QED
    BY <2>1 DEF SmoothInv, Neat, Calm, AttemptIsAnswered
<1> QED
  BY <1>1, SmoothInvariant, PTL

\* After the delegate was told of a failure the tunnel is neither coming up nor up, until
\* it is started again.
THEOREM VerdictsAreTrue == Spec /\ Smooth => []VerdictIsTrue
<1>1. SmoothInv => VerdictIsTrue
  <2> SUFFICES ASSUME SmoothInv PROVE VerdictIsTrue
    OBVIOUS
  <2>1. /\ Now.listed = listed /\ Now.attempting = attempting /\ Now.session = session
        /\ Now.outcome = outcome /\ listed \subseteq Tunnels
    BY DEF SmoothInv, Neat, Core, States, Now
  <2> QED
    BY <2>1 DEF SmoothInv, Neat, Calm, VerdictIsTrue
<1> QED
  BY <1>1, SmoothInvariant, PTL
=============================================================================
