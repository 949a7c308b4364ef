------------------------ MODULE TunnelsManagerProofs ------------------------
(***************************************************************************)
(* The type invariant and the two invariants of the waiting tunnel, for    *)
(* every set of tunnels and every setting of the switches.  The handlers   *)
(* are functions on states, so each method has lemmas of its own: what it  *)
(* does to the fields the invariant reads, and that it takes a good state  *)
(* to good states.                                                         *)
(***************************************************************************)
EXTENDS TunnelsManager, TLAPS

\* The invariant, on a state.
OneWaits(m) == \A t, u \in Waiting(m) : t = u

Watched(m) ==
  Waiting(m) # {} =>
    \/ m.waitee = Lost
    \/ m.waitee \in m.listed /\ m.status[m.waitee] \notin {"inactive", "waiting"}

\* The tunnel that add is saving is not listed yet.
NewIsUnlisted(m) == m.adding # NoAdd => m.adding.new \in Tunnels \ m.listed

Good(m) == m \in States /\ OneWaits(m) /\ Watched(m) /\ NewIsUnlisted(m)

\* x differs from m only in fields the invariant does not read.
Alike(m, x) ==
  /\ x.listed = m.listed /\ x.status = m.status /\ x.waitee = m.waitee /\ x.adding = m.adding

-----------------------------------------------------------------------------
(* The system's side.                                                      *)

\* A counter of notifications never exceeds its bound.
LEMMA PostedType == ASSUME NEW k \in 0 .. MaxNotes PROVE Posted(k) \in 0 .. MaxNotes
BY BoundsAssumption DEF Posted

\* A session's move touches the session and its notifications only.
LEMMA SessionBecomesType ==
  ASSUME NEW m \in States, NEW t \in Tunnels, NEW s \in Sessions
  PROVE  SessionBecomes(m, t, s) \in States /\ Alike(m, SessionBecomes(m, t, s))
<1>1. Posted(m.notes[t]) \in 0 .. MaxNotes
  BY PostedType DEF States
<1> QED
  BY <1>1 DEF SessionBecomes, States, Alike

\* startTunnel and stopTunnel touch the system's side only.
LEMMA StartTunnelType ==
  ASSUME NEW m \in States, NEW t \in Tunnels
  PROVE  StartTunnel(m, t) \in States /\ Alike(m, StartTunnel(m, t))
<1> DEFINE asked == [m EXCEPT !.ask[t] = "start"]
<1>1. asked \in States /\ Alike(m, asked)
  BY DEF States, Alike
<1>2. SessionBecomes(m, t, "connecting") \in States /\ Alike(m, SessionBecomes(m, t, "connecting"))
  BY SessionBecomesType DEF Sessions
<1> QED
  BY <1>1, <1>2 DEF StartTunnel

\* stopTunnel too touches the system's side only.
LEMMA StopTunnelType ==
  ASSUME NEW m \in States, NEW t \in Tunnels
  PROVE  StopTunnel(m, t) \in States /\ Alike(m, StopTunnel(m, t))
<1> DEFINE down == SessionBecomes(m, t, "disconnecting")
           asked == [m EXCEPT !.ask[t] = "start_stop"]
           stopped == [down EXCEPT !.ask[t] = "none"]
<1>1. asked \in States /\ Alike(m, asked)
  BY DEF States, Alike
<1>2. down \in States /\ Alike(m, down)
  BY SessionBecomesType DEF Sessions
<1>3. stopped \in States /\ Alike(m, stopped)
  <2> HIDE DEF down
  <2> QED BY <1>2 DEF States, Alike
<1>4. Alike(m, m)
  BY DEF Alike
<1> QED
  BY <1>1, <1>3, <1>4 DEF StopTunnel

-----------------------------------------------------------------------------
(* The methods.                                                            *)

\* An attempt leaves its tunnel activating or inactive, and the list, the other
\* tunnels and the observer alone.
Effect(m, t, x) ==
  /\ x \in States /\ x.listed = m.listed /\ x.waitee = m.waitee /\ x.adding = m.adding
  /\ \/ x.status = [m.status EXCEPT ![t] = "activating"]
     \/ x.status = [m.status EXCEPT ![t] = "inactive"]

\* What any branch of an attempt does to the fields that matter.
LEMMA AttemptEffect ==
  ASSUME NEW m \in States, NEW t \in Tunnels, NEW n \in 0 .. RecursionLimit - 1,
         NEW x \in Attempt(m, t, n)
  PROVE  Effect(m, t, x)
<1> DEFINE saving == [m EXCEPT !.status[t] = "activating", !.enabled[t] = TRUE,
                               !.calls = @ \cup {Call(t, "save", n)}]
           started(y) == [y EXCEPT !.status[t] = "activating", !.attempting[t] = TRUE,
                                   !.timer[t] = TRUE, !.outcome[t] = "started"]
           refused  == [m EXCEPT !.status[t] = "inactive", !.attempting[t] = FALSE,
                                 !.timer[t] = TRUE, !.outcome[t] = "attemptFailed"]
           stale    == [m EXCEPT !.status[t] = "activating", !.attempting[t] = FALSE,
                                 !.timer[t] = TRUE, !.calls = @ \cup {Call(t, "load", n)}]
<1>1. Call(t, "save", n) \in Calls /\ Call(t, "load", n) \in Calls
  BY DEF Call, Calls
<1>2. Effect(m, t, saving)
  BY <1>1 DEF Effect, States, Statuses
<1>3. ASSUME NEW y \in States, Alike(m, y) PROVE Effect(m, t, started(y))
  BY <1>3 DEF Effect, States, Statuses, Outcomes, Alike
<1>4. Effect(m, t, refused)
  BY DEF Effect, States, Statuses, Outcomes
<1>5. Effect(m, t, stale)
  BY <1>1 DEF Effect, States, Statuses
<1>6. Effect(m, t, started(StartTunnel(m, t)))
  BY <1>3, StartTunnelType
<1>7. x \in {saving, started(StartTunnel(m, t)), refused, stale}
  BY DEF Attempt
<1> QED
  BY <1>2, <1>4, <1>5, <1>6, <1>7

\* Nobody waits: whatever the observer is, the state is good.
LEMMA IdleGood ==
  ASSUME NEW m \in States, NewIsUnlisted(m), Waiting(m) = {}
  PROVE  Good(m)
BY DEF Good, OneWaits, Watched

\* The invariant reads nothing but the fields that Alike compares.
LEMMA AlikeGood ==
  ASSUME NEW m, Good(m), NEW x \in States, Alike(m, x)
  PROVE  Good(x)
BY DEF Good, Alike, OneWaits, Watched, NewIsUnlisted, Waiting

\* Nor does the invariant read whether a reload() is on its way.
LEMMA ReloadingGood ==
  ASSUME NEW m, Good(m), NEW b \in BOOLEAN
  PROVE  Good([m EXCEPT !.reloading = b])
<1>1. [m EXCEPT !.reloading = b] \in States /\ Alike(m, [m EXCEPT !.reloading = b])
  BY DEF Good, States, Alike
<1> QED
  BY <1>1, AlikeGood

\* A change of the stored configurations, as the handlers note it.
LEMMA ChangedGood ==
  ASSUME NEW m, Good(m)
  PROVE  Good(Changed(m)) /\ Alike(m, Changed(m))
<1>1. Good(Changed(m))
  BY ReloadingGood DEF Changed
<1>2. Alike(m, Changed(m))
  BY DEF Good, States, Alike, Changed
<1> QED
  BY <1>1, <1>2

\* Starting the only waiting tunnel leaves nobody waiting.
LEMMA WaiterStarts ==
  ASSUME NEW m \in States, OneWaits(m), NEW w \in Waiting(m), NEW x, Effect(m, w, x)
  PROVE  Waiting(x) = {}
<1>1. w \in Tunnels /\ m.status \in [Tunnels -> Statuses] /\ m.listed \subseteq Tunnels
  BY DEF Waiting, States
<1>2. ASSUME NEW t \in Waiting(x) PROVE FALSE
  <2>1. t \in m.listed /\ x.status[t] = "waiting"
    BY <1>2 DEF Waiting, Effect
  <2>2. t # w
    BY <1>1, <2>1 DEF Effect
  <2>3. m.status[t] = "waiting"
    BY <1>1, <2>1, <2>2 DEF Effect
  <2> QED
    BY <2>1, <2>2, <2>3 DEF Waiting, OneWaits
<1> QED
  BY <1>2

\* The handoff repairs a state in which only the observer of u is out of date.
LEMMA HandoffGood ==
  ASSUME NEW m \in States, NEW u \in Tunnels, OneWaits(m), NewIsUnlisted(m),
         m.waitee # u => Watched(m), NEW x \in Handoff(m, u)
  PROVE  Good(x)
<1>1. CASE m.waitee # u
  BY <1>1 DEF Handoff, Good
<1>2. CASE m.waitee = u /\ Waiting(m) = {}
  <2> DEFINE y == [m EXCEPT !.waitee = Nobody]
  <2>1. x = y
    BY <1>2 DEF Handoff
  <2>2. y \in States /\ y.listed = m.listed /\ y.status = m.status /\ y.adding = m.adding
    BY DEF States
  <2>3. Waiting(y) = {} /\ NewIsUnlisted(y)
    <3> HIDE DEF y
    <3> QED BY <1>2, <2>2 DEF Waiting, NewIsUnlisted
  <2> HIDE DEF y
  <2> QED
    BY <2>1, <2>2, <2>3, IdleGood
<1>3. CASE m.waitee = u /\ Waiting(m) # {}
  <2>1. PICK w \in First(Waiting(m)) : \E y \in Attempt(m, w, 0) : x = [y EXCEPT !.waitee = Nobody]
    BY <1>3 DEF Handoff
  <2>2. w \in Waiting(m) /\ w \in Tunnels
    BY DEF First, Waiting, States
  <2>3. PICK y \in Attempt(m, w, 0) : x = [y EXCEPT !.waitee = Nobody]
    BY <2>1
  <2>4. Effect(m, w, y)
    BY <2>2, AttemptEffect, BoundsAssumption
  <2>5. Waiting(y) = {}
    BY <2>2, <2>4, WaiterStarts
  <2>6. x \in States /\ x.listed = y.listed /\ x.status = y.status /\ x.adding = y.adding
    BY <2>3, <2>4 DEF Effect, States
  <2>7. Waiting(x) = {} /\ NewIsUnlisted(x)
    BY <2>4, <2>5, <2>6 DEF Waiting, NewIsUnlisted, Effect
  <2> QED
    BY <2>6, <2>7, IdleGood
<1> QED
  BY <1>1, <1>2, <1>3

\* A new status other than .waiting for t spoils at most the observer of t.
LEMMA AssignStatus ==
  ASSUME NEW m, Good(m), NEW t \in Tunnels, NEW s \in Statuses \ {"waiting"},
         NEW x \in States, x.listed = m.listed, x.waitee = m.waitee, x.adding = m.adding,
         x.status = [m.status EXCEPT ![t] = s]
  PROVE  /\ OneWaits(x) /\ NewIsUnlisted(x)
         /\ m.waitee # t \/ s # "inactive" => Good(x)
<1>1. m.status \in [Tunnels -> Statuses] /\ m.listed \subseteq Tunnels
  BY DEF Good, States
<1>2. Waiting(x) = Waiting(m) \ {t}
  BY <1>1 DEF Waiting
<1>3. OneWaits(x) /\ NewIsUnlisted(x)
  BY <1>2 DEF Good, OneWaits, NewIsUnlisted
<1>4. ASSUME m.waitee # t \/ s # "inactive" PROVE Watched(x)
  <2>1. SUFFICES ASSUME Waiting(x) # {}, m.waitee # Lost
                 PROVE  x.waitee \in x.listed /\ x.status[x.waitee] \notin {"inactive", "waiting"}
    BY DEF Watched
  <2>2. m.waitee \in m.listed /\ m.status[m.waitee] \notin {"inactive", "waiting"}
    BY <1>2, <2>1 DEF Good, Watched
  <2> QED
    BY <1>1, <1>4, <2>2
<1> QED
  BY <1>3, <1>4 DEF Good

\* An assignment of .inactive, with the observer it may run, leaves a good state.
LEMMA BecomeInactiveGood ==
  ASSUME NEW m, Good(m), NEW t \in Tunnels, NEW x \in BecomeInactive(m, t)
  PROVE  Good(x)
<1> DEFINE y == [m EXCEPT !.status[t] = "inactive"]
<1>1. y \in States /\ y.listed = m.listed /\ y.waitee = m.waitee /\ y.adding = m.adding
      /\ y.status = [m.status EXCEPT ![t] = "inactive"]
  BY DEF Good, States, Statuses
<1>2. x \in Handoff(y, t)
  BY DEF BecomeInactive
<1> HIDE DEF y
<1>3. OneWaits(y) /\ NewIsUnlisted(y) /\ (y.waitee # t => Good(y))
  BY <1>1, AssignStatus DEF Statuses
<1> QED
  BY <1>1, <1>2, <1>3, HandoffGood DEF Good

\* startActivation at any recursionCount.
LEMMA StartActivationGood ==
  ASSUME NEW m, Good(m), NEW t \in Tunnels, NEW n \in Nat, NEW x \in StartActivation(m, t, n)
  PROVE  Good(x)
<1>1. CASE n >= RecursionLimit
  <2> DEFINE y == [m EXCEPT !.outcome[t] = "attemptFailed"]
  <2>1. x = y
    BY <1>1 DEF StartActivation
  <2>2. y \in States /\ Alike(m, y)
    BY DEF Good, States, Outcomes, Alike
  <2> HIDE DEF y
  <2> QED
    BY <2>1, <2>2, AlikeGood DEF Good
<1>2. CASE ~(n >= RecursionLimit)
  <2>1. PICK y \in Attempt(m, t, n) : x \in IF y.status[t] = "inactive" THEN Handoff(y, t) ELSE {y}
    BY <1>2 DEF StartActivation
  <2>2. Effect(m, t, y)
    BY <1>2, AttemptEffect, BoundsAssumption DEF Good
  <2>3. m.status \in [Tunnels -> Statuses]
    BY DEF Good, States
  <2>4. CASE y.status[t] = "inactive"
    <3>1. y.status = [m.status EXCEPT ![t] = "inactive"]
      BY <2>2, <2>3, <2>4 DEF Effect
    <3>2. OneWaits(y) /\ NewIsUnlisted(y) /\ (y.waitee # t => Good(y))
      BY <2>2, <3>1, AssignStatus DEF Effect, Statuses
    <3> QED
      BY <2>1, <2>2, <2>4, <3>2, HandoffGood DEF Effect, Good
  <2>5. CASE y.status[t] # "inactive"
    <3>1. y.status = [m.status EXCEPT ![t] = "activating"]
      BY <2>2, <2>3, <2>5 DEF Effect
    <3> QED
      BY <2>1, <2>2, <2>5, <3>1, AssignStatus DEF Effect, Statuses
  <2> QED
    BY <2>4, <2>5
<1> QED
  BY <1>1, <1>2

\* startDeactivation(of:) changes no status.
LEMMA StartDeactivationAlike ==
  ASSUME NEW m \in States, NEW t \in Tunnels
  PROVE  StartDeactivation(m, t) \in States /\ Alike(m, StartDeactivation(m, t))
<1> DEFINE quiet == [m EXCEPT !.attempting[t] = FALSE]
<1>1. quiet \in States /\ Alike(m, quiet)
  BY DEF States, Alike
<1>2. StopTunnel(quiet, t) \in States /\ Alike(quiet, StopTunnel(quiet, t))
  <2> HIDE DEF quiet
  <2> QED BY <1>1, StopTunnelType
<1>3. StartDeactivation(m, t) = quiet \/ StartDeactivation(m, t) = StopTunnel(quiet, t)
  BY DEF StartDeactivation
<1> HIDE DEF quiet
<1> QED
  BY <1>1, <1>2, <1>3 DEF Alike

\* Making room leaves nobody waiting and no new inactive tunnel in operation.
LEMMA DropWaitingGood ==
  ASSUME NEW m, Good(m)
  PROVE  LET x == DropWaiting(m)
         IN  /\ x \in States /\ Waiting(x) = {} /\ NewIsUnlisted(x)
             /\ x.listed = m.listed
             /\ \A t \in Tunnels : m.status[t] = "inactive" => x.status[t] = "inactive"
<1> DEFINE x == DropWaiting(m)
<1>1. m.status \in [Tunnels -> Statuses] /\ m.listed \subseteq Tunnels
  BY DEF Good, States
<1>2. x \in States /\ x.listed = m.listed /\ x.adding = m.adding
      /\ x.status = [t \in Tunnels |-> IF t \in First(Waiting(m)) THEN "inactive" ELSE m.status[t]]
  BY DEF Good, States, DropWaiting, Statuses
<1> HIDE DEF x
<1>3. ASSUME NEW t \in Waiting(x) PROVE FALSE
  <2>1. t \in m.listed /\ x.status[t] = "waiting"
    BY <1>2, <1>3 DEF Waiting
  <2>2. m.status[t] = "waiting" /\ t \notin First(Waiting(m))
    BY <1>1, <1>2, <2>1
  <2>3. \A u \in Waiting(m) : u = t
    BY <2>1, <2>2 DEF Good, OneWaits, Waiting
  <2>4. t \in Nat
    BY <1>1, <2>1, TunnelsAssumption
  <2>5. t \in First(Waiting(m))
    BY <2>1, <2>2, <2>3, <2>4 DEF First, Waiting
  <2> QED
    BY <2>2, <2>5
<1>4. NewIsUnlisted(x)
  BY <1>2 DEF Good, NewIsUnlisted
<1> QED
  BY <1>1, <1>2, <1>3, <1>4 DEF x

\* A tunnel made to wait for a tunnel in operation, when nobody else waits.
LEMMA WaitForGood ==
  ASSUME NEW m \in States, NewIsUnlisted(m), Waiting(m) = {},
         NEW t \in m.listed, m.status[t] = "inactive", NEW u \in Operating(m)
  PROVE  Good(WaitFor(m, t, u))
<1> DEFINE waits == [m EXCEPT !.status[t] = "waiting", !.waitee = u]
<1>1. t \in Tunnels /\ u \in Tunnels /\ u \in m.listed /\ t # u /\ m.status \in [Tunnels -> Statuses]
      /\ m.status[u] \notin {"inactive", "waiting"}
  BY DEF States, Operating, Waiting
<1>2. waits \in States /\ waits.listed = m.listed /\ waits.waitee = u /\ waits.adding = m.adding
      /\ waits.status = [m.status EXCEPT ![t] = "waiting"]
  BY <1>1 DEF States, Statuses
<1>3. WaitFor(m, t, u) \in {waits, StartDeactivation(waits, u)}
  BY DEF WaitFor
<1> HIDE DEF waits
<1>4. Good(waits)
  <2>1. Waiting(waits) = {t}
    BY <1>1, <1>2 DEF Waiting
  <2>2. OneWaits(waits) /\ NewIsUnlisted(waits)
    BY <1>2, <2>1 DEF OneWaits, NewIsUnlisted
  <2>3. Watched(waits)
    BY <1>1, <1>2 DEF Watched
  <2> QED
    BY <1>2, <2>2, <2>3 DEF Good
<1> QED
  BY <1>1, <1>2, <1>3, <1>4, StartDeactivationAlike, AlikeGood

\* startActivation(of:), the request of the user.
LEMMA StartActivationOfGood ==
  ASSUME NEW m, Good(m), NEW t \in Tunnels, NEW x \in StartActivationOf(m, t)
  PROVE  Good(x)
<1> DEFINE c == DropWaiting(m)
<1>1. CASE t \notin m.listed \/ m.status[t] # "inactive"
  BY <1>1 DEF StartActivationOf
<1>2. CASE t \in m.listed /\ m.status[t] = "inactive"
  <2>1. c \in States /\ Waiting(c) = {} /\ NewIsUnlisted(c) /\ t \in c.listed /\ c.status[t] = "inactive"
    BY <1>2, DropWaitingGood
  <2>2. \/ x \in StartActivation(c, t, 0)
        \/ \E u \in First(Operating(c)) : x = WaitFor(c, t, u)
    BY <1>2 DEF StartActivationOf
  <2>3. Good(c)
    BY <2>1, IdleGood
  <2>4. First(Operating(c)) \subseteq Operating(c)
    BY DEF First
  <2> HIDE DEF c
  <2> QED
    BY <2>1, <2>2, <2>3, <2>4, StartActivationGood, WaitForGood
<1> QED
  BY <1>1, <1>2

\* TunnelStatus.init(from:) yields a status of a session, never .waiting.
LEMMA StatusFromType ==
  ASSUME NEW s PROVE StatusFrom(s) \in Statuses \ {"waiting"}
BY DEF StatusFrom, Statuses

\* refreshStatus() on one container leaves a good state.
LEMMA RefreshStatusGood ==
  ASSUME NEW m, Good(m), NEW t \in Tunnels, NEW x \in RefreshStatus(m, t)
  PROVE  Good(x)
<1> DEFINE s == StatusFrom(m.session[t])
           y == [m EXCEPT !.status[t] = s]
<1>1. s \in Statuses \ {"waiting"}
  BY StatusFromType
<1>2. \/ x = m
      \/ x \in BecomeInactive(m, t)
      \/ s # "inactive" /\ x = y
  BY DEF RefreshStatus
<1>3. y \in States /\ y.listed = m.listed /\ y.waitee = m.waitee /\ y.adding = m.adding
      /\ y.status = [m.status EXCEPT ![t] = s]
  <2> HIDE DEF s
  <2> QED BY <1>1 DEF Good, States
<1> HIDE DEF s, y
<1>4. s # "inactive" => Good(y)
  BY <1>1, <1>3, AssignStatus
<1> QED
  BY <1>2, <1>4, BecomeInactiveGood

\* Refreshing every listed tunnel leaves nobody waiting.
LEMMA RefreshedIdle ==
  ASSUME NEW m \in States, NEW x \in States, x.listed = m.listed
  PROVE  LET y == Refreshed(m, x)
         IN  y \in States /\ Waiting(y) = {} /\ y.listed = m.listed /\ y.adding = x.adding
<1> DEFINE y == Refreshed(m, x)
           st == [t \in Tunnels |->
                    IF t \in m.listed /\ m.status[t] # "restarting" THEN StatusFrom(x.session[t])
                    ELSE m.status[t]]
<1>1. st \in [Tunnels -> Statuses]
  BY StatusFromType DEF States
<1>2. y = [x EXCEPT !.status = st]
  BY DEF Refreshed
<1>3. \A t \in m.listed : st[t] # "waiting"
  BY StatusFromType DEF States
<1> HIDE DEF st, y
<1>4. y \in States /\ y.listed = m.listed /\ y.status = st /\ y.adding = x.adding
  BY <1>1, <1>2 DEF States
<1>5. Waiting(y) = {}
  BY <1>3, <1>4 DEF Waiting
<1> QED
  BY <1>4, <1>5 DEF y

\* refreshStatus() on every container leaves a good state, whether or not the observed
\* tunnel is found down and the waiting tunnel is started on the way.
LEMMA RefreshAllGood ==
  ASSUME NEW m, Good(m), NEW next \in SUBSET First(Waiting(m)), NEW x \in RefreshAll(m, next)
  PROVE  Good(x)
<1>1. m \in States
  BY DEF Good
<1>2. ASSUME NEW y \in States, y.listed = m.listed, y.adding = m.adding
      PROVE  Good(Refreshed(m, y)) /\ Good([Refreshed(m, y) EXCEPT !.waitee = Nobody])
  <2> DEFINE r == Refreshed(m, y)
             n == [r EXCEPT !.waitee = Nobody]
  <2>1. r \in States /\ Waiting(r) = {} /\ r.listed = m.listed /\ r.adding = m.adding
    BY <1>1, <1>2, RefreshedIdle
  <2> HIDE DEF r
  <2>2. n \in States /\ n.listed = r.listed /\ n.status = r.status /\ n.adding = r.adding
    BY <2>1 DEF States
  <2> HIDE DEF n
  <2>3. Waiting(n) = {} /\ NewIsUnlisted(r) /\ NewIsUnlisted(n)
    BY <2>1, <2>2 DEF Waiting, NewIsUnlisted, Good
  <2> QED
    BY <2>1, <2>2, <2>3, IdleGood DEF r, n
<1>3. ASSUME NEW w \in next, NEW y \in Attempt(m, w, 0)
      PROVE  y \in States /\ y.listed = m.listed /\ y.adding = m.adding
  <2>1. w \in Tunnels
    BY <1>1 DEF First, Waiting, States
  <2>2. 0 \in 0 .. RecursionLimit - 1
    BY BoundsAssumption
  <2>3. Effect(m, w, y)
    BY <1>1, <2>1, <2>2, AttemptEffect
  <2> QED
    BY <2>3 DEF Effect
<1>4. \/ x = Refreshed(m, m)
      \/ x = [Refreshed(m, m) EXCEPT !.waitee = Nobody]
      \/ \E w \in next : \E y \in Attempt(m, w, 0) : x = [Refreshed(m, y) EXCEPT !.waitee = Nobody]
  BY DEF RefreshAll
<1>5. Good(Refreshed(m, m)) /\ Good([Refreshed(m, m) EXCEPT !.waitee = Nobody])
  BY <1>1, <1>2
<1>6. ASSUME NEW w \in next, NEW y \in Attempt(m, w, 0)
      PROVE  Good([Refreshed(m, y) EXCEPT !.waitee = Nobody])
  <2>1. y \in States /\ y.listed = m.listed /\ y.adding = m.adding
    BY <1>3
  <2> QED
    BY <1>2, <2>1
<1> QED
  BY <1>4, <1>5, <1>6

\* Containers that leave the list take their observer with them.
LEMMA DroppedGood ==
  ASSUME NEW m, Good(m), NEW S \in SUBSET Tunnels
  PROVE  Good(Dropped(m, S))
<1> DEFINE x == Dropped(m, S)
<1>1. m \in States
  BY DEF Good
<1>2. /\ [t \in Tunnels |-> IF t \in S THEN "inactive" ELSE m.status[t]] \in [Tunnels -> Statuses]
      /\ [t \in Tunnels |-> t \notin S /\ m.attempting[t]] \in [Tunnels -> BOOLEAN]
      /\ [t \in Tunnels |-> t \notin S /\ m.timer[t]] \in [Tunnels -> BOOLEAN]
      /\ [t \in Tunnels |-> IF t \in S THEN "none" ELSE m.outcome[t]] \in [Tunnels -> Outcomes]
      /\ [t \in Tunnels |-> IF t \in S THEN "invalid" ELSE m.session[t]] \in [Tunnels -> Sessions]
      /\ [t \in Tunnels |-> IF t \in S THEN "none" ELSE m.ask[t]] \in [Tunnels -> {"none", "start", "start_stop"}]
      /\ [t \in Tunnels |-> IF t \in S THEN 0 ELSE m.notes[t]] \in [Tunnels -> 0 .. MaxNotes]
  BY <1>1, BoundsAssumption DEF States, Statuses, Outcomes, Sessions
<1>3. x \in States
  BY <1>1, <1>2 DEF States, Dropped
<1>4. /\ x.listed = m.listed \ S /\ x.adding = m.adding
      /\ x.waitee = IF m.waitee \in S THEN Lost ELSE m.waitee
      /\ \A t \in Tunnels \ S : x.status[t] = m.status[t]
  BY <1>1 DEF States, Dropped
<1>5. m.listed \subseteq Tunnels
  BY <1>1 DEF States
<1> HIDE DEF x
<1>6. Waiting(x) \subseteq Waiting(m)
  BY <1>4, <1>5 DEF Waiting
<1>7. OneWaits(x) /\ NewIsUnlisted(x)
  BY <1>4, <1>6 DEF Good, OneWaits, NewIsUnlisted
<1>8. Watched(x)
  BY <1>4, <1>5, <1>6 DEF Good, Watched
<1> QED
  BY <1>3, <1>7, <1>8 DEF Good, x

\* The answer to an attempt is not read by the invariant.
LEMMA SettledGood ==
  ASSUME NEW m, Good(m), NEW t \in Tunnels
  PROVE  Good(Settled(m, t))
<1> DEFINE o == IF m.session[t] = "connected" THEN "activated" ELSE "failed"
           y == [m EXCEPT !.attempting[t] = FALSE, !.outcome[t] = o]
<1>1. o \in Outcomes
  BY DEF Outcomes
<1>2. Settled(m, t) = m \/ Settled(m, t) = y
  BY DEF Settled
<1>3. y \in States /\ Alike(m, y)
  <2> HIDE DEF o
  <2> QED BY <1>1 DEF Good, States, Alike
<1> HIDE DEF y
<1> QED
  BY <1>2, <1>3, AlikeGood

\* The iOS hack of add.
LEMMA ReactivatedGood ==
  ASSUME NEW m, Good(m), NEW u \in Tunnels, NEW x \in Reactivated(m, u)
  PROVE  Good(x)
<1>1. PICK y : /\ y \in StartActivationOf(m, u) \/ y = m
               /\ x = IF y.status[u] \in {"active", "activating"}
                      THEN [y EXCEPT !.status[u] = "restarting"] ELSE y
  BY DEF Reactivated
<1>2. Good(y)
  BY <1>1, StartActivationOfGood
<1>3. CASE x = y
  BY <1>2, <1>3
<1>4. CASE x = [y EXCEPT !.status[u] = "restarting"]
  <2>1. x \in States /\ x.listed = y.listed /\ x.waitee = y.waitee /\ x.adding = y.adding
        /\ x.status = [y.status EXCEPT ![u] = "restarting"]
    BY <1>2, <1>4 DEF Good, States, Statuses
  <2> QED
    BY <1>2, <2>1, AssignStatus DEF Statuses
<1> QED
  BY <1>1, <1>3, <1>4

\* No start touches the add in flight.
LEMMA StartKeepsAdding ==
  ASSUME NEW m \in States, NEW t \in Tunnels, NEW x \in StartActivation(m, t, 0)
  PROVE  x.adding = m.adding
<1>1. 0 \in 0 .. RecursionLimit - 1
  BY BoundsAssumption
<1>2. ASSUME NEW y \in States, NEW z \in Handoff(y, t) PROVE z.adding = y.adding
  <2>1. CASE z = y
    BY <2>1
  <2>2. CASE z = [y EXCEPT !.waitee = Nobody]
    BY <2>2 DEF States
  <2>3. CASE \E w \in First(Waiting(y)) : \E v \in Attempt(y, w, 0) : z = [v EXCEPT !.waitee = Nobody]
    <3>1. PICK w \in First(Waiting(y)) : \E v \in Attempt(y, w, 0) : z = [v EXCEPT !.waitee = Nobody]
      BY <2>3
    <3>2. PICK v \in Attempt(y, w, 0) : z = [v EXCEPT !.waitee = Nobody]
      BY <3>1
    <3>3. w \in Tunnels
      BY DEF First, Waiting, States
    <3>4. Effect(y, w, v)
      BY <1>1, <3>3, AttemptEffect
    <3> QED
      BY <3>2, <3>4 DEF Effect, States
  <2> QED
    BY <1>2, <2>1, <2>2, <2>3 DEF Handoff
<1>3. \/ x = [m EXCEPT !.outcome[t] = "attemptFailed"]
      \/ \E y \in Attempt(m, t, 0) : x = y \/ x \in Handoff(y, t)
  BY DEF StartActivation
<1>4. CASE x = [m EXCEPT !.outcome[t] = "attemptFailed"]
  BY <1>4 DEF States
<1>5. CASE \E y \in Attempt(m, t, 0) : x = y \/ x \in Handoff(y, t)
  <2>1. PICK y \in Attempt(m, t, 0) : x = y \/ x \in Handoff(y, t)
    BY <1>5
  <2>2. Effect(m, t, y)
    BY <1>1, <2>1, AttemptEffect
  <2>3. y \in States /\ y.adding = m.adding
    BY <2>2 DEF Effect
  <2> QED
    BY <1>2, <2>1, <2>3
<1> QED
  BY <1>3, <1>4, <1>5

\* startActivation(of:) does not touch the add in progress.
LEMMA StartOfKeepsAdding ==
  ASSUME NEW m, Good(m), NEW t \in Tunnels, NEW x \in StartActivationOf(m, t)
  PROVE  x.adding = m.adding
<1> DEFINE c == DropWaiting(m)
<1>1. c \in States /\ c.adding = m.adding
  <2>1. c \in States
    BY DropWaitingGood
  <2> QED
    BY <2>1 DEF Good, States, DropWaiting
<1>2. ASSUME NEW u \in First(Operating(c)) PROVE WaitFor(c, t, u).adding = c.adding
  <2> DEFINE waits == [c EXCEPT !.status[t] = "waiting", !.waitee = u]
  <2>1. u \in Tunnels
    BY <1>1 DEF First, Operating, States
  <2>2. waits \in States /\ waits.adding = c.adding
    <3> HIDE DEF c
    <3> QED BY <1>1, <2>1 DEF States, Statuses
  <2>3. WaitFor(c, t, u) \in {waits, StartDeactivation(waits, u)}
    BY DEF WaitFor
  <2> HIDE DEF waits
  <2> QED
    BY <2>1, <2>2, <2>3, StartDeactivationAlike DEF Alike
<1>3. \/ x = m
      \/ x \in StartActivation(c, t, 0)
      \/ \E u \in First(Operating(c)) : x = WaitFor(c, t, u)
  BY DEF StartActivationOf
<1> HIDE DEF c
<1> QED
  BY <1>1, <1>2, <1>3, StartKeepsAdding

\* Nor does the iOS hack of add.
LEMMA ReactivatedKeepsAdding ==
  ASSUME NEW m, Good(m), NEW u \in Tunnels, NEW x \in Reactivated(m, u)
  PROVE  x.adding = m.adding
<1>1. PICK y : /\ y \in StartActivationOf(m, u) \/ y = m
               /\ x = IF y.status[u] \in {"active", "activating"}
                      THEN [y EXCEPT !.status[u] = "restarting"] ELSE y
  BY DEF Reactivated
<1>2. y \in States /\ y.adding = m.adding
  BY <1>1, StartActivationOfGood, StartOfKeepsAdding DEF Good
<1> QED
  BY <1>1, <1>2 DEF States

\* The new container is inactive: it waits for nobody and is not waited for.
LEMMA ListingGood ==
  ASSUME NEW m, Good(m), NEW t \in Tunnels \ m.listed
  PROVE  Good(Listing(m, t))
<1> DEFINE x == Listing(m, t)
           c == Changed(m)
<1>1. m \in States /\ m.status \in [Tunnels -> Statuses] /\ m.listed \subseteq Tunnels
  BY DEF Good, States
<1>2. /\ x \in States /\ x.listed = m.listed \cup {t} /\ x.waitee = m.waitee /\ x.adding = NoAdd
      /\ x.status = [m.status EXCEPT ![t] = "inactive"]
  <2>1. c \in States /\ Alike(m, c)
    BY ChangedGood DEF Good
  <2>2. x = [c EXCEPT !.listed = @ \cup {t}, !.status[t] = "inactive", !.session[t] = "disconnected",
                      !.enabled[t] = TRUE, !.adding = NoAdd]
    BY DEF Listing
  <2> HIDE DEF c, x
  <2> QED
    BY <2>1, <2>2 DEF Alike, States, Statuses, Sessions, NoAdd
<1> HIDE DEF x
<1>3. Waiting(x) = Waiting(m)
  BY <1>1, <1>2 DEF Waiting
<1>4. OneWaits(x) /\ NewIsUnlisted(x)
  BY <1>2, <1>3 DEF Good, OneWaits, NewIsUnlisted
<1>5. Watched(x)
  BY <1>1, <1>2, <1>3 DEF Good, Watched
<1> QED
  BY <1>2, <1>4, <1>5 DEF Good, x

-----------------------------------------------------------------------------
(* The steps.                                                              *)

Inv == Good(Now)

\* A step to a good state re-establishes the invariant.
LEMMA BecomeGood ==
  ASSUME NEW m, Good(m), Become(m)
  PROVE  Inv'
<1>1. Now' \in States /\ Alike(m, Now')
  BY DEF Now, Become, Good, States, Alike
<1> QED
  BY <1>1, AlikeGood DEF Inv, Good, Alike, OneWaits, Watched, NewIsUnlisted, Waiting

\* When the manager is created nobody waits.
LEMMA InitInv == Init => Inv
<1> SUFFICES ASSUME Init PROVE Inv
  OBVIOUS
<1>1. status \in [Tunnels -> Statuses] /\ \A t \in Tunnels : status[t] # "waiting"
  BY StatusFromType DEF Init
<1>2. session \in [Tunnels -> Sessions] /\ listed \in SUBSET Tunnels
  BY WorldsAssumption DEF Init, Sessions, Existing
<1>3. Now \in States
  <2>1. /\ attempting \in [Tunnels -> BOOLEAN] /\ timer \in [Tunnels -> BOOLEAN]
        /\ outcome \in [Tunnels -> Outcomes] /\ notes \in [Tunnels -> 0 .. MaxNotes]
        /\ ask \in [Tunnels -> {"none", "start", "start_stop"}] /\ enabled \in [Tunnels -> BOOLEAN]
    BY BoundsAssumption DEF Init, Outcomes
  <2> QED
    BY <1>1, <1>2, <2>1 DEF Init, Now, States, NoAdd, Nobody
<1>4. Waiting(Now) = {} /\ NewIsUnlisted(Now)
  <2>1. Now.listed \subseteq Tunnels /\ Now.status = status /\ Now.adding = NoAdd
    BY <1>2 DEF Init, Now
  <2> QED BY <1>1, <2>1 DEF Waiting, NewIsUnlisted
<1> QED
  BY <1>3, <1>4, IdleGood DEF Inv

\* A change of the system's fields only.
LEMMA SystemStep ==
  ASSUME Inv, NEW m \in States, Alike(Now, m), Become(m)
  PROVE  Inv'
<1>1. Good(m)
  BY AlikeGood DEF Inv
<1> QED
  BY <1>1, BecomeGood

\* What the user asks for keeps the invariant.
LEMMA UserInv ==
  ASSUME Inv, NEW t \in Tunnels, User(t)
  PROVE  Inv'
<1>1. CASE Activate(t)
  BY <1>1, StartActivationOfGood, BecomeGood DEF Activate, Inv
<1>2. CASE Deactivate(t)
  BY <1>2, StartDeactivationAlike, SystemStep DEF Deactivate, Inv, Good
<1>3. CASE Modify(t)
  <2> DEFINE m == [Now EXCEPT !.enabled[t] = TRUE, !.calls = @ \cup {Call(t, "modify", 0)}]
  <2>1. Call(t, "modify", 0) \in Calls
    BY BoundsAssumption DEF Call, Calls
  <2>2. m \in States /\ Alike(Now, m)
    <3>1. Now \in States
      BY DEF Inv, Good
    <3> HIDE DEF Now
    <3> QED BY <2>1, <3>1 DEF States, Alike
  <2>3. Become(m)
    BY <1>3 DEF Modify
  <2> HIDE DEF m
  <2> QED
    BY <2>2, <2>3, SystemStep
<1>4. CASE Add(t)
  <2> DEFINE m(u) == [Now EXCEPT !.adding = [new |-> t, active |-> u]]
             live == First({u \in listed : status[u] \in {"active", "activating"}})
  <2>1. ASSUME NEW u \in Tunnels \cup {Nobody} PROVE Good(m(u))
    <3>1. Now \in States /\ t \notin Now.listed
      BY <1>4 DEF Inv, Good, Add, Now
    <3>2. m(u) \in States /\ m(u).listed = Now.listed /\ m(u).status = Now.status
          /\ m(u).waitee = Now.waitee /\ m(u).adding.new = t
      <4> HIDE DEF Now
      <4> QED BY <3>1 DEF States
    <3> HIDE DEF m
    <3> QED
      BY <3>1, <3>2 DEF Inv, Good, OneWaits, Watched, NewIsUnlisted, Waiting
  <2>2. ASSUME NEW u \in Tunnels PROVE Good(Displaced(m(u), u))
    <3>1. Good(m(u))
      BY <2>1
    <3> HIDE DEF m
    <3>2. Good(StopTunnel(m(u), u))
      BY <3>1, StopTunnelType, AlikeGood DEF Good
    <3> QED
      BY <3>1, <3>2 DEF Displaced
  <2>3. live \subseteq Tunnels
    BY DEF Inv, Good, States, Now, First
  <2>4. Become(m(Nobody)) \/ \E u \in live : Become(Displaced(m(u), u))
    BY <1>4 DEF Add
  <2> HIDE DEF live, m
  <2> QED
    BY <2>1, <2>2, <2>3, <2>4, BecomeGood
<1>5. CASE RemoveReturns(t)
  <2>1. Good(Dropped(Now, {t}))
    BY DroppedGood DEF Inv
  <2> QED
    BY <1>5, <2>1, ChangedGood, BecomeGood DEF RemoveReturns
<1> QED
  BY <1>1, <1>2, <1>3, <1>4, <1>5 DEF User

\* Forgetting a call, or a notification, is not read by the invariant.
LEMMA CallsGood ==
  ASSUME Inv, NEW C \in SUBSET Calls
  PROVE  Good([Now EXCEPT !.calls = C])
<1>1. Now \in States
  BY DEF Inv, Good
<1>2. [Now EXCEPT !.calls = C] \in States /\ Alike(Now, [Now EXCEPT !.calls = C])
  <2> HIDE DEF Now
  <2> QED BY <1>1 DEF States, Alike
<1> QED
  BY <1>2, AlikeGood DEF Inv

\* Telling the delegate that an attempt failed changes nothing the invariant reads.
LEMMA OutcomeGood ==
  ASSUME NEW m, Good(m), NEW t \in Tunnels
  PROVE  Good([m EXCEPT !.outcome[t] = "attemptFailed"])
<1>1. [m EXCEPT !.outcome[t] = "attemptFailed"] \in States
      /\ Alike(m, [m EXCEPT !.outcome[t] = "attemptFailed"])
  BY DEF Good, States, Alike, Outcomes
<1> QED
  BY <1>1, AlikeGood

\* The completion handlers of start and modify keep the invariant.
LEMMA CompletionInv ==
  ASSUME Inv, NEW t \in Tunnels, Completion(t)
  PROVE  Inv'
<1> DEFINE left(c) == [Now EXCEPT !.calls = @ \ {c}]
<1>1. \A c : Good(left(c))
  <2>1. ASSUME NEW c PROVE Good(left(c))
    <3>1. calls \ {c} \in SUBSET Calls /\ left(c) = [Now EXCEPT !.calls = calls \ {c}]
      BY DEF Inv, Good, States, Now
    <3> QED BY <3>1, CallsGood
  <2> QED BY <2>1
<1>2. ASSUME NEW n \in 0 .. RecursionLimit - 1, SaveReturns(t, n) PROVE Inv'
  <2> DEFINE m == left(Call(t, "save", n))
  <2>1. \/ \E x \in StartActivation(Changed(m), t, n + 1) : Become(x)
        \/ Become([m EXCEPT !.outcome[t] = "attemptFailed"])
    BY <1>2 DEF SaveReturns
  <2>2. Good(m) /\ Good(Changed(m)) /\ n + 1 \in Nat
    <3>1. n + 1 \in Nat
      BY BoundsAssumption
    <3> QED BY <1>1, <3>1, ChangedGood
  <2> HIDE DEF m
  <2>3. ASSUME NEW x \in StartActivation(Changed(m), t, n + 1), Become(x) PROVE Inv'
    BY <2>2, <2>3, StartActivationGood, BecomeGood
  <2>4. CASE Become([m EXCEPT !.outcome[t] = "attemptFailed"])
    BY <2>2, <2>4, OutcomeGood, BecomeGood
  <2> QED
    BY <2>1, <2>3, <2>4
<1>3. ASSUME NEW n \in 0 .. RecursionLimit - 1, LoadReturns(t, n) PROVE Inv'
  <2> DEFINE m == left(Call(t, "load", n))
  <2>1. \/ \E x \in StartActivation(m, t, n + 1) : Become(x)
        \/ \E x \in BecomeInactive(m, t) : Become([x EXCEPT !.outcome[t] = "attemptFailed"])
    BY <1>3 DEF LoadReturns
  <2>2. Good(m) /\ n + 1 \in Nat
    <3>1. n + 1 \in Nat
      BY BoundsAssumption
    <3> QED BY <1>1, <3>1
  <2> HIDE DEF m
  <2>3. ASSUME NEW x \in StartActivation(m, t, n + 1), Become(x) PROVE Inv'
    BY <2>2, <2>3, StartActivationGood, BecomeGood
  <2>4. ASSUME NEW x \in BecomeInactive(m, t), Become([x EXCEPT !.outcome[t] = "attemptFailed"])
        PROVE  Inv'
    <3>1. Good(x)
      BY <2>2, BecomeInactiveGood
    <3> QED
      BY <2>4, <3>1, OutcomeGood, BecomeGood
  <2> QED
    BY <2>1, <2>3, <2>4
<1>4. CASE ModifyReturns(t)
  <2> DEFINE m == left(Call(t, "modify", 0))
             c == Changed(m)
             r == [c EXCEPT !.status[t] = "restarting"]
  <2>1. Become(m) \/ Become(c) \/ Become(StopTunnel(r, t))
    BY <1>4 DEF ModifyReturns
  <2>2. Good(m) /\ Good(c)
    BY <1>1, ChangedGood
  <2> HIDE DEF m, c
  <2>3. r \in States /\ r.listed = c.listed /\ r.waitee = c.waitee /\ r.adding = c.adding
        /\ r.status = [c.status EXCEPT ![t] = "restarting"]
    BY <2>2 DEF Good, States, Statuses
  <2> HIDE DEF r
  <2>4. Good(r)
    BY <2>2, <2>3, AssignStatus DEF Statuses
  <2>5. Good(StopTunnel(r, t))
    BY <2>3, <2>4, StopTunnelType, AlikeGood
  <2> QED
    BY <2>1, <2>2, <2>5, BecomeGood
<1>5. \A c \in calls : c.count \in 0 .. RecursionLimit - 1
  BY DEF Inv, Good, States, Now, Calls
<1> QED
  BY <1>2, <1>3, <1>4, <1>5 DEF Completion

\* The NEVPNStatusDidChange observer keeps the invariant.
LEMMA StatusDidChangeInv ==
  ASSUME Inv, NEW t \in Tunnels, StatusDidChange(t)
  PROVE  Inv'
<1> DEFINE taken == [Now EXCEPT !.notes[t] = @ - 1]
           m == Settled(taken, t)
<1>1. taken \in States /\ Alike(Now, taken)
  <2>1. Now \in States /\ Now.notes[t] > 0
    BY DEF Inv, Good, StatusDidChange, Now
  <2>2. Now.notes[t] - 1 \in 0 .. MaxNotes
    BY <2>1, BoundsAssumption DEF States
  <2> HIDE DEF Now
  <2> QED BY <2>1, <2>2 DEF States, Alike
<1>2. Good(taken)
  BY <1>1, AlikeGood DEF Inv
<1>3. \/ \E x \in StartActivation(m, t, 0) : Become(x)
      \/ \E x \in RefreshStatus(m, t) : Become(x)
  BY DEF StatusDidChange
<1> HIDE DEF taken
<1>4. Good(m)
  BY <1>2, SettledGood
<1> HIDE DEF m
<1>5. ASSUME NEW x \in StartActivation(m, t, 0), Become(x) PROVE Inv'
  BY <1>4, <1>5, StartActivationGood, BecomeGood
<1>6. ASSUME NEW x \in RefreshStatus(m, t), Become(x) PROVE Inv'
  BY <1>4, <1>6, RefreshStatusGood, BecomeGood
<1> QED
  BY <1>3, <1>5, <1>6

\* The activation timer keeps the invariant.
LEMMA TimerFiresInv ==
  ASSUME Inv, NEW t \in Tunnels, TimerFires(t)
  PROVE  Inv'
<1> DEFINE b == ~(session[t] \in {"connected", "disconnected", "invalid"})
           m == [Now EXCEPT !.timer[t] = b]
<1>1. PICK x \in RefreshStatus(m, t) : Become(x)
  BY DEF TimerFires
<1>2. m \in States /\ Alike(Now, m)
  <2>1. b \in BOOLEAN /\ Now \in States
    BY DEF Inv, Good
  <2> HIDE DEF b, Now
  <2> QED BY <2>1 DEF States, Alike
<1>3. Good(m)
  BY <1>2, AlikeGood DEF Inv
<1> HIDE DEF m
<1> QED
  BY <1>1, <1>3, RefreshStatusGood, BecomeGood

\* The foreground refresh and reload() keep the invariant.
LEMMA RefreshInv ==
  ASSUME Inv, RefreshStatuses \/ Reload
  PROVE  Inv'
<1>1. CASE RefreshStatuses
  <2>1. PICK x \in RefreshAll(Now, {w \in First(Waiting(Now)) : w > waitee}) : Become(x)
    BY <1>1 DEF RefreshStatuses
  <2>2. Good(x)
    BY <2>1, RefreshAllGood DEF Inv
  <2> QED
    BY <2>1, <2>2, BecomeGood
<1>2. CASE Reload
  <2> DEFINE m == Dropped(Now, gone \cap listed)
  <2>1. Good(m)
    <3>1. gone \cap listed \in SUBSET Tunnels
      BY DEF Inv, Good, States, Now
    <3> QED BY <3>1, DroppedGood DEF Inv
  <2>2. PICK next \in {First(Waiting(m)), {}}, more \in BOOLEAN :
               \E x \in RefreshAll(m, next) : Become([x EXCEPT !.reloading = more])
    BY <1>2 DEF Reload
  <2>3. PICK x \in RefreshAll(m, next) : Become([x EXCEPT !.reloading = more])
    BY <2>2
  <2> HIDE DEF m
  <2>4. Good(x)
    BY <2>1, <2>2, <2>3, RefreshAllGood
  <2> QED
    BY <2>3, <2>4, ReloadingGood, BecomeGood
<1> QED
  BY <1>1, <1>2

\* The completion handler of add keeps the invariant.
LEMMA AddReturnsInv ==
  ASSUME Inv, AddReturns
  PROVE  Inv'
<1>1. adding # NoAdd /\ adding.new \in Tunnels \ listed /\ Now.adding = adding /\ Now.listed = listed
      /\ Now \in States
  BY DEF AddReturns, Inv, Good, NewIsUnlisted, Now
<1>2. CASE Become([Now EXCEPT !.adding = NoAdd])
  <2> DEFINE m == [Now EXCEPT !.adding = NoAdd]
  <2>1. m \in States /\ m.listed = Now.listed /\ m.status = Now.status /\ m.waitee = Now.waitee
        /\ m.adding = NoAdd
    <3> HIDE DEF Now
    <3> QED BY <1>1 DEF States, NoAdd
  <2> HIDE DEF m
  <2>2. Good(m)
    BY <2>1 DEF Inv, Good, OneWaits, Watched, NewIsUnlisted, Waiting
  <2> QED
    BY <1>2, <2>2, BecomeGood DEF m
<1>3. ASSUME adding.active \in listed,
             NEW x \in Reactivated(Now, adding.active), Become(Listing(x, adding.new))
      PROVE  Inv'
  <2>1. adding.active \in Tunnels
    BY <1>3 DEF Inv, Good, States, Now
  <2>2. Good(x) /\ x.adding = adding
    BY <1>1, <1>3, <2>1, ReactivatedGood, ReactivatedKeepsAdding DEF Inv
  <2>3. adding.new \in Tunnels \ x.listed
    BY <1>1, <2>2 DEF Good, NewIsUnlisted
  <2> QED
    BY <1>3, <2>2, <2>3, ListingGood, BecomeGood
<1>4. CASE Become(Listing(Now, adding.new))
  BY <1>1, <1>4, ListingGood, BecomeGood DEF Inv
<1> QED
  BY <1>2, <1>3, <1>4 DEF AddReturns

\* Whatever the system does on its own, no status and no observer changes.
LEMMA SystemInv ==
  ASSUME Inv, NEW t \in Tunnels, System(t)
  PROVE  Inv'
<1>1. Now \in States /\ Now.gone = gone
  BY DEF Inv, Good, Now
<1>2. ASSUME NEW m \in States, Alike(Now, m), NEW s \in Sessions, Become(SessionBecomes(m, t, s))
      PROVE  Inv'
  <2>1. SessionBecomes(m, t, s) \in States /\ Alike(m, SessionBecomes(m, t, s))
    BY SessionBecomesType
  <2> QED
    BY <1>2, <2>1, SystemStep DEF Alike
<1>3. Alike(Now, Now)
  BY DEF Alike
<1>4. CASE TakesStart(t)
  <2> DEFINE m == [Now EXCEPT !.ask[t] = "none"]
  <2>1. m \in States /\ Alike(Now, m)
    <3> HIDE DEF Now
    <3> QED BY <1>1 DEF States, Alike
  <2>2. Become(m) \/ \E s \in Sessions : Become(SessionBecomes(m, t, s))
    BY <1>4 DEF TakesStart, Sessions
  <2> HIDE DEF m
  <2> QED
    BY <1>2, <2>1, <2>2, SystemStep
<1>5. CASE Connects(t) \/ Drops(t) \/ Disconnected(t) \/ StartsOutside(t)
  <2>1. PICK s \in Sessions : Become(SessionBecomes(Now, t, s))
    BY <1>5 DEF Connects, Drops, Disconnected, StartsOutside, Sessions
  <2> QED
    BY <1>1, <1>2, <1>3, <2>1
<1>6. CASE DeletedOutside(t)
  <2> DEFINE c == Changed(Now)
             y == SessionBecomes(c, t, "invalid")
             m == [y EXCEPT !.ask[t] = "none", !.gone = @ \cup {t}]
  <2>1. y \in States /\ Alike(Now, y)
    <3>1. c \in States /\ Alike(Now, c)
      BY ChangedGood DEF Inv, Good
    <3> HIDE DEF c
    <3>2. y \in States /\ Alike(c, y)
      BY <3>1, SessionBecomesType DEF Sessions
    <3> QED BY <3>1, <3>2 DEF Alike
  <2>2. Become(m)
    BY <1>6 DEF DeletedOutside
  <2> HIDE DEF y
  <2>3. m \in States /\ Alike(Now, m)
    BY <2>1 DEF States, Alike
  <2> HIDE DEF m
  <2> QED
    BY <2>2, <2>3, SystemStep
<1>7. CASE Disabled(t)
  <2> DEFINE c == Changed(Now)
             m == [c EXCEPT !.enabled[t] = FALSE]
  <2>1. m \in States /\ Alike(Now, m)
    <3>1. c \in States /\ Alike(Now, c)
      BY ChangedGood DEF Inv, Good
    <3> HIDE DEF c
    <3> QED BY <3>1 DEF States, Alike
  <2>2. Become(m)
    BY <1>7 DEF Disabled
  <2> HIDE DEF m
  <2> QED
    BY <2>1, <2>2, SystemStep
<1> QED
  BY <1>4, <1>5, <1>6, <1>7 DEF System

\* The invariant is inductive.
LEMMA NextInv == Inv /\ [Next]_vars => Inv'
<1> SUFFICES ASSUME Inv, [Next]_vars PROVE Inv'
  OBVIOUS
<1>1. CASE UNCHANGED vars
  BY <1>1 DEF vars, Inv, Good, Now, OneWaits, Watched, NewIsUnlisted, Waiting
<1>2. CASE Next
  BY <1>2, UserInv, CompletionInv, StatusDidChangeInv, TimerFiresInv, SystemInv, RefreshInv,
     AddReturnsInv DEF Next
<1> QED
  BY <1>1, <1>2

\* The invariant holds in every reachable state.
THEOREM Invariant == Spec => []Inv
BY InitInv, NextInv, PTL DEF Spec

-----------------------------------------------------------------------------
\* The variables of the manager, the containers and the sessions keep their types.
THEOREM TypeCorrect == Spec => []TypeOK
<1>1. Inv => TypeOK
  BY DEF Inv, Good, TypeOK
<1> QED
  BY <1>1, Invariant, PTL

\* At most one listed tunnel waits for its turn, for any number of tunnels, any
\* faults, any edits and any changes made outside the app.
THEOREM OneWaiter == Spec => []AtMostOneWaiting
<1>1. Inv => AtMostOneWaiting
  BY DEF Inv, Good, OneWaits, AtMostOneWaiting
<1> QED
  BY <1>1, Invariant, PTL

\* Whenever a tunnel waits, the observer is on a listed tunnel that has not become
\* inactive yet, or its container was released: no wake-up is lost.
THEOREM WakeupIsKept == Spec => []NoLostWakeup
<1>1. Inv => NoLostWakeup
  BY DEF Inv, Good, Watched, NoLostWakeup, Now
<1> QED
  BY <1>1, Invariant, PTL
=============================================================================
