--------------------------- MODULE TunnelsManager ---------------------------
(***************************************************************************)
(* The activation half of TunnelsManager.swift: the tunnel containers the  *)
(* app lists, the switch from one tunnel to another, the retries of a      *)
(* start, the restart after an edit, and the status notifications of the   *)
(* system.  All of this code runs on the main queue, so a handler is one   *)
(* step; what interleaves is the order of user calls, completion handlers, *)
(* timers and notifications, and the sessions of the NetworkExtension      *)
(* framework, which change on their own (external: modelled from how       *)
(* TunnelsManager.swift uses them).                                        *)
(*                                                                         *)
(* A tunnel is its position in the name order by which `tunnels' is kept   *)
(* sorted, so "first" in the list is the least number.  A handler is a     *)
(* function from a state to the set of states it may leave (a start may be *)
(* accepted or refused): operators that take `m' are the methods of the    *)
(* code, and an action is one handler applied to Now.                      *)
(***************************************************************************)
EXTENDS Integers, FiniteSets

CONSTANTS
  Tunnels,          \* tunnels, by position in the name order
  RecursionLimit,   \* startActivation gives up at this recursionCount (8 in the code)
  MaxNotes,         \* bound: undelivered notifications counted per session
  MaxCalls,         \* bound: preference calls in flight when the user asks for a start
  Worlds            \* the builds and surroundings the app may find itself in

Editing == {"add", "modify", "remove"}
Failing == {"start", "edit"}

ASSUME TunnelsAssumption == Tunnels \subseteq Nat \ {0}
ASSUME BoundsAssumption ==
  /\ RecursionLimit \in Nat \ {0}
  /\ MaxNotes \in Nat \ {0}
  /\ MaxCalls \in Nat
ASSUME WorldsAssumption ==
  Worlds \subseteq [tunnels : SUBSET Tunnels, ios : BOOLEAN, asyncStart : BOOLEAN,
                    faults : SUBSET Failing, outside : BOOLEAN, edits : SUBSET Editing]

Nobody == 0       \* waiteeObservationToken is nil
Lost == -1        \* the token observes a container that no longer exists

Statuses == {"inactive", "activating", "active", "deactivating", "restarting", "waiting"}
Sessions == {"invalid", "disconnected", "connecting", "connected", "disconnecting"}
Outcomes == {"none", "started", "attemptFailed", "activated", "failed"}

\* A preference call in flight: of startActivation (re-enabling "save", or
\* "load" after a stale start) with its recursionCount, or of modify.
Calls == [tunnel : Tunnels, kind : {"save", "load", "modify"}, count : 0 .. RecursionLimit - 1]
Call(t, kind, n) == [tunnel |-> t, kind |-> kind, count |-> n]

NoAdd == [new |-> Nobody, active |-> Nobody]

VARIABLES
  world,        \* the world at hand: it never changes
  listed,       \* the containers in `tunnels'
  status,       \* TunnelContainer.status
  attempting,   \* TunnelContainer.isAttemptingActivation
  timer,        \* TunnelContainer.activationTimer is scheduled
  waitee,       \* the tunnel whose status waiteeObservationToken observes
  outcome,      \* what the activation delegate was last told of the tunnel's start
  calls,        \* completion handlers of preference calls still to run
  adding,       \* the tunnel being saved by add, and its captured activeTunnel
  session,      \* connection.status, owned by the system
  ask,          \* a start the system has accepted and not yet shown
  notes,        \* undelivered NEVPNStatusDidChange notifications
  enabled,      \* NETunnelProviderManager.isEnabled
  gone,         \* tunnels deleted outside the app and still listed
  reloading     \* a reload() is on its way, for a change of the stored configurations

vars == <<world, listed, status, attempting, timer, waitee, outcome, calls, adding,
          session, ask, notes, enabled, gone, reloading>>

Existing == world.tunnels       \* the tunnels there may be
IOS == world.ios                \* the iOS build (#if os(iOS) in add)
AsyncStart == world.asyncStart  \* session.status lags behind startTunnel
StartsFail == "start" \in world.faults   \* starts and their calls fail, tunnels get disabled
EditsFail == "edit" \in world.faults     \* the save of a new tunnel fails
Outside == world.outside        \* sessions start and tunnels vanish without the app
Edits == world.edits            \* the editing operations in use

Now == [listed |-> listed, status |-> status, attempting |-> attempting,
        timer |-> timer, waitee |-> waitee, outcome |-> outcome, calls |-> calls,
        adding |-> adding, session |-> session, ask |-> ask, notes |-> notes,
        enabled |-> enabled, gone |-> gone, reloading |-> reloading]

Become(m) ==
  /\ listed' = m.listed /\ status' = m.status /\ attempting' = m.attempting
  /\ timer' = m.timer /\ waitee' = m.waitee /\ outcome' = m.outcome
  /\ calls' = m.calls /\ adding' = m.adding /\ session' = m.session
  /\ ask' = m.ask /\ notes' = m.notes /\ enabled' = m.enabled /\ gone' = m.gone
  /\ reloading' = m.reloading /\ UNCHANGED world

States ==
  [listed : SUBSET Tunnels, status : [Tunnels -> Statuses],
   attempting : [Tunnels -> BOOLEAN], timer : [Tunnels -> BOOLEAN],
   waitee : Tunnels \cup {Nobody, Lost}, outcome : [Tunnels -> Outcomes],
   calls : SUBSET Calls,
   adding : [new : Tunnels \cup {Nobody}, active : Tunnels \cup {Nobody}],
   session : [Tunnels -> Sessions], ask : [Tunnels -> {"none", "start", "start_stop"}],
   notes : [Tunnels -> 0 .. MaxNotes], enabled : [Tunnels -> BOOLEAN],
   gone : SUBSET Tunnels, reloading : BOOLEAN]

\* Type correctness: every field of a container and of a session keeps its kind.
TypeOK == Now \in States

-----------------------------------------------------------------------------
(* The system's side of a session (external).                              *)

\* TunnelStatus.init(from:).
StatusFrom(s) ==
  CASE s = "connected" -> "active"
    [] s = "connecting" -> "activating"
    [] s = "disconnecting" -> "deactivating"
    [] OTHER -> "inactive"

Posted(n) == IF n < MaxNotes THEN n + 1 ELSE n

SessionBecomes(m, t, s) == [m EXCEPT !.session[t] = s, !.notes[t] = Posted(@)]

\* startTunnel returned without an error.
StartTunnel(m, t) ==
  IF ~AsyncStart /\ m.session[t] = "disconnected"
  THEN SessionBecomes(m, t, "connecting")
  ELSE [m EXCEPT !.ask[t] = "start"]

StopTunnel(m, t) ==
  IF m.session[t] \in {"connecting", "connected"}
  THEN [SessionBecomes(m, t, "disconnecting") EXCEPT !.ask[t] = "none"]
  ELSE IF m.ask[t] = "start" THEN [m EXCEPT !.ask[t] = "start_stop"]
  ELSE m

\* NEVPNConfigurationChange: the stored configurations have changed.
Changed(m) == [m EXCEPT !.reloading = TRUE]

-----------------------------------------------------------------------------
(* TunnelContainer and TunnelsManager, method by method.                   *)

Waiting(m) == {t \in m.listed : m.status[t] = "waiting"}
Operating(m) == {t \in m.listed : m.status[t] # "inactive"}

\* tunnels.first(where:)
First(S) == {t \in S : \A u \in S : t <= u}

\* startActivation at recursionCount n < RecursionLimit, from `status =
\* .activating' on.  The observer of the waitee is Handoff's business.
Attempt(m, t, n) ==
  IF ~m.enabled[t]
  THEN {[m EXCEPT !.status[t] = "activating", !.enabled[t] = TRUE,
                  !.calls = @ \cup {Call(t, "save", n)}]}
  ELSE LET accepted == [StartTunnel(m, t) EXCEPT
                          !.status[t] = "activating", !.attempting[t] = TRUE,
                          !.timer[t] = TRUE, !.outcome[t] = "started"]
           refused  == [m EXCEPT
                          !.status[t] = "inactive", !.attempting[t] = FALSE,
                          !.timer[t] = TRUE, !.outcome[t] = "attemptFailed"]
           stale    == [m EXCEPT
                          !.status[t] = "activating", !.attempting[t] = FALSE,
                          !.timer[t] = TRUE, !.calls = @ \cup {Call(t, "load", n)}]
       IN  IF m.session[t] = "invalid" THEN {refused, stale}
           ELSE IF StartsFail THEN {accepted, refused, stale}
           ELSE {accepted}

\* The observer that activateWaitingTunnelOnDeactivation installed runs inside
\* the assignment of .inactive to u.
Handoff(m, u) ==
  IF m.waitee # u THEN {m}
  ELSE IF Waiting(m) = {} THEN {[m EXCEPT !.waitee = Nobody]}
  ELSE UNION {{[x EXCEPT !.waitee = Nobody] : x \in Attempt(m, w, 0)} : w \in First(Waiting(m))}

BecomeInactive(m, t) == Handoff([m EXCEPT !.status[t] = "inactive"], t)

\* (mutant of StartActivation: the limit is off by one)
StartActivationOnceMore(m, t, n) ==
  IF n > RecursionLimit
  THEN {[m EXCEPT !.outcome[t] = "attemptFailed"]}
  ELSE UNION {IF x.status[t] = "inactive" THEN Handoff(x, t) ELSE {x} : x \in Attempt(m, t, n)}

\* TunnelContainer.startActivation(recursionCount: n).
StartActivation(m, t, n) ==
  IF n >= RecursionLimit
  THEN {[m EXCEPT !.outcome[t] = "attemptFailed"]}
  ELSE UNION {IF x.status[t] = "inactive" THEN Handoff(x, t) ELSE {x} : x \in Attempt(m, t, n)}

\* TunnelsManager.startDeactivation(of:).
StartDeactivation(m, t) ==
  LET quiet == [m EXCEPT !.attempting[t] = FALSE]
  IN  IF m.status[t] \in {"inactive", "deactivating"} THEN quiet ELSE StopTunnel(quiet, t)

\* (mutant of DropWaiting: the tunnel that already waits is left waiting)
KeepWaiting(m) == m

\* The already waiting tunnel makes room.
DropWaiting(m) ==
  [m EXCEPT !.status = [t \in Tunnels |-> IF t \in First(Waiting(m)) THEN "inactive"
                                          ELSE m.status[t]]]

\* (mutant of WaitFor: no observer on a tunnel that is already going down)
WaitForUnobserved(m, t, u) ==
  LET waits == [m EXCEPT !.status[t] = "waiting"]
  IN  IF m.status[u] = "deactivating" THEN waits
      ELSE StartDeactivation([waits EXCEPT !.waitee = u], u)

\* t waits for the tunnel in operation, u.
WaitFor(m, t, u) ==
  LET waits == [m EXCEPT !.status[t] = "waiting", !.waitee = u]
  IN  IF m.status[u] = "deactivating" THEN waits ELSE StartDeactivation(waits, u)

\* (mutant of StartActivationOf: a tunnel going down is not waited for)
StartActivationEarly(m, t) ==
  IF t \notin m.listed \/ m.status[t] # "inactive" THEN {m}
  ELSE LET cleared == DropWaiting(m)
           others  == {u \in Operating(cleared) : cleared.status[u] # "deactivating"}
       IN  IF others = {} THEN StartActivation(cleared, t, 0)
           ELSE {WaitFor(cleared, t, u) : u \in First(others)}

\* TunnelsManager.startActivation(of:).  A request for a tunnel that is not
\* inactive is refused with .tunnelIsNotInactive: no start, and no outcome of one.
StartActivationOf(m, t) ==
  IF t \notin m.listed \/ m.status[t] # "inactive" THEN {m}
  ELSE LET cleared == DropWaiting(m)
       IN  IF Operating(cleared) = {} THEN StartActivation(cleared, t, 0)
           ELSE {WaitFor(cleared, t, u) : u \in First(Operating(cleared))}

\* TunnelContainer.refreshStatus().
RefreshStatus(m, t) ==
  IF m.status[t] = "restarting" THEN {m}
  ELSE IF StatusFrom(m.session[t]) = "inactive" THEN BecomeInactive(m, t)
  ELSE {[m EXCEPT !.status[t] = StatusFrom(m.session[t])]}

\* Every listed container refreshed from the sessions of x.
Refreshed(m, x) ==
  [x EXCEPT !.status = [t \in Tunnels |->
     IF t \in m.listed /\ m.status[t] # "restarting" THEN StatusFrom(x.session[t])
     ELSE m.status[t]]]

\* refreshStatus() on every container, one after the other.  When the waitee is
\* found down, its observer starts the tunnels of `next': the waiting tunnel if
\* its own turn is still to come, none if it was refreshed before (it is then no
\* longer waiting).
RefreshAll(m, next) ==
  LET found == /\ m.waitee \in m.listed
               /\ m.status[m.waitee] # "restarting"
               /\ StatusFrom(m.session[m.waitee]) = "inactive"
  IN  IF ~found THEN {Refreshed(m, m)}
      ELSE IF next = {} THEN {[Refreshed(m, m) EXCEPT !.waitee = Nobody]}
      ELSE UNION {{[Refreshed(m, x) EXCEPT !.waitee = Nobody] : x \in Attempt(m, w, 0)} : w \in next}

\* The containers of S leave `tunnels' and are released: their timers and the
\* [weak self] completion handlers on them do nothing any more.
Dropped(m, S) ==
  [m EXCEPT !.listed = @ \ S,
            !.status = [t \in Tunnels |-> IF t \in S THEN "inactive" ELSE m.status[t]],
            !.attempting = [t \in Tunnels |-> t \notin S /\ m.attempting[t]],
            !.timer = [t \in Tunnels |-> t \notin S /\ m.timer[t]],
            !.outcome = [t \in Tunnels |-> IF t \in S THEN "none" ELSE m.outcome[t]],
            !.waitee = IF @ \in S THEN Lost ELSE @,
            !.calls = {c \in @ : c.tunnel \notin S},
            !.session = [t \in Tunnels |-> IF t \in S THEN "invalid" ELSE m.session[t]],
            !.ask = [t \in Tunnels |-> IF t \in S THEN "none" ELSE m.ask[t]],
            !.notes = [t \in Tunnels |-> IF t \in S THEN 0 ELSE m.notes[t]],
            !.gone = @ \ S]

-----------------------------------------------------------------------------
(* The handlers.                                                           *)

Init ==
  /\ world \in Worlds /\ listed \in SUBSET Existing
  /\ session \in [Tunnels -> {"disconnected", "connected", "invalid"}]
  /\ \A t \in Tunnels : session[t] = "invalid" <=> t \notin listed
  /\ \A t, u \in Tunnels : session[t] = "connected" /\ session[u] = "connected" => t = u
  /\ status = [t \in Tunnels |-> StatusFrom(session[t])]
  /\ attempting = [t \in Tunnels |-> FALSE] /\ timer = [t \in Tunnels |-> FALSE]
  /\ waitee = Nobody /\ outcome = [t \in Tunnels |-> "none"]
  /\ calls = {} /\ adding = NoAdd
  /\ ask = [t \in Tunnels |-> "none"] /\ notes = [t \in Tunnels |-> 0]
  /\ enabled = [t \in Tunnels |-> TRUE] /\ gone = {} /\ reloading = FALSE

\* The user asks for a tunnel.
Activate(t) ==
  /\ t \in listed /\ Cardinality(calls) <= MaxCalls
  /\ \E m \in StartActivationOf(Now, t) : Become(m)

\* The user turns a tunnel off.
Deactivate(t) == t \in listed /\ Become(StartDeactivation(Now, t))

\* (mutants of Settled: only success is an answer; all but success is failure)
SettledByConnecting(m, t) ==
  IF ~m.attempting[t] \/ m.session[t] # "connected" THEN m
  ELSE [m EXCEPT !.attempting[t] = FALSE, !.outcome[t] = "activated"]

SettledAtOnce(m, t) ==
  IF ~m.attempting[t] THEN m
  ELSE [m EXCEPT !.attempting[t] = FALSE,
                 !.outcome[t] = IF m.session[t] = "connected" THEN "activated" ELSE "failed"]

\* The answer to a pending attempt, as the NEVPNStatusDidChange observer finds it.
Settled(m, t) ==
  IF ~m.attempting[t] \/ m.session[t] \notin {"connected", "disconnected"} THEN m
  ELSE [m EXCEPT !.attempting[t] = FALSE,
                 !.outcome[t] = IF m.session[t] = "connected" THEN "activated" ELSE "failed"]

\* (mutant of StatusDidChange: an answer is reported and the status left alone)
AnswerWithoutRefresh(t) ==
  /\ t \in listed /\ notes[t] > 0
  /\ LET n == [Now EXCEPT !.notes[t] = @ - 1]
         m == Settled(n, t)
     IN  \E x \in IF m # n THEN {m}
                  ELSE IF m.status[t] = "restarting" /\ m.session[t] = "disconnected"
                  THEN StartActivation(m, t, 0) ELSE RefreshStatus(m, t) : Become(x)

\* The NEVPNStatusDidChange observer.
StatusDidChange(t) ==
  /\ t \in listed /\ notes[t] > 0
  /\ LET m == Settled([Now EXCEPT !.notes[t] = @ - 1], t)
     IN  \E x \in IF m.status[t] = "restarting" /\ m.session[t] = "disconnected"
                  THEN StartActivation(m, t, 0) ELSE RefreshStatus(m, t) : Become(x)

\* The repeating activationTimer.
TimerFires(t) ==
  /\ t \in listed /\ timer[t]
  /\ LET over == session[t] \in {"connected", "disconnected", "invalid"}
     IN  \E m \in RefreshStatus([Now EXCEPT !.timer[t] = ~over], t) : Become(m)

\* refreshStatuses(), when the app comes to the foreground.
RefreshStatuses ==
  \E m \in RefreshAll(Now, {w \in First(Waiting(Now)) : w > waitee}) : Become(m)

\* The completion handler of reload(), after that of the call that changed the
\* configurations.  The order of the loaded managers is the system's, and another
\* reload() may be on its way.
Reload ==
  /\ reloading
  /\ LET m == Dropped(Now, gone \cap listed)
     IN  \E next \in {First(Waiting(m)), {}}, more \in BOOLEAN :
           \E x \in RefreshAll(m, next) : Become([x EXCEPT !.reloading = more])

\* The completion handler of startActivation's "save" call.
SaveReturns(t, n) ==
  /\ Call(t, "save", n) \in calls
  /\ LET m == [Now EXCEPT !.calls = @ \ {Call(t, "save", n)}]
     IN  \/ \E x \in StartActivation(Changed(m), t, n + 1) : Become(x)
         \/ StartsFail /\ Become([m EXCEPT !.outcome[t] = "attemptFailed"])

\* (mutant of LoadReturns: recursionCount is passed on as it was)
LoadReturnsUncounted(t, n) ==
  /\ Call(t, "load", n) \in calls
  /\ LET m == [Now EXCEPT !.calls = @ \ {Call(t, "load", n)}]
     IN  \/ \E x \in StartActivation(m, t, n) : Become(x)
         \/ StartsFail /\ \E x \in BecomeInactive(m, t) :
              Become([x EXCEPT !.outcome[t] = "attemptFailed"])

\* The completion handler of startActivation's "load" call.
LoadReturns(t, n) ==
  /\ Call(t, "load", n) \in calls
  /\ LET m == [Now EXCEPT !.calls = @ \ {Call(t, "load", n)}]
     IN  \/ \E x \in StartActivation(m, t, n + 1) : Become(x)
         \/ StartsFail /\ \E x \in BecomeInactive(m, t) :
              Become([x EXCEPT !.outcome[t] = "attemptFailed"])

\* modify: isEnabled is set and the new configuration is being saved (one at a
\* time: a bound).
Modify(t) ==
  /\ "modify" \in Edits /\ t \in listed /\ \A c \in calls : c.kind # "modify"
  /\ Become([Now EXCEPT !.enabled[t] = TRUE, !.calls = @ \cup {Call(t, "modify", 0)}])

\* A tunnel in use whose configuration has changed is turned off and on again;
\* after a failed save, or a change of the name or the rules alone, it is not.
ModifyReturns(t) ==
  /\ Call(t, "modify", 0) \in calls
  /\ LET m == [Now EXCEPT !.calls = @ \ {Call(t, "modify", 0)}]
     IN  \/ Become(m) \/ Become(Changed(m))
         \/ /\ status[t] \in {"active", "activating"}
            /\ Become(StopTunnel([Changed(m) EXCEPT !.status[t] = "restarting"], t))

\* "In iOS, adding a tunnel causes deactivation of any currently active tunnel."
Displaced(m, u) == IF IOS THEN StopTunnel(m, u) ELSE m

\* add: activeTunnel is captured before the new tunnel is saved.
Add(t) ==
  /\ "add" \in Edits /\ t \in Existing \ listed /\ adding = NoAdd
  /\ LET live == First({u \in listed : status[u] \in {"active", "activating"}})
     IN  \/ live = {} /\ Become([Now EXCEPT !.adding = [new |-> t, active |-> Nobody]])
         \/ \E u \in live : Become(Displaced([Now EXCEPT !.adding = [new |-> t, active |-> u]], u))

\* The iOS hack of add's completion handler, on the captured tunnel u.
Reactivated(m, u) ==
  LET started == IF m.status[u] \in {"inactive", "deactivating"} THEN StartActivationOf(m, u) ELSE {m}
  IN  {IF x.status[u] \in {"active", "activating"} THEN [x EXCEPT !.status[u] = "restarting"] ELSE x
         : x \in started}

Listing(m, t) ==
  [Changed(m) EXCEPT !.listed = @ \cup {t}, !.status[t] = "inactive", !.session[t] = "disconnected",
            !.enabled[t] = TRUE, !.adding = NoAdd]

AddReturns ==
  /\ adding # NoAdd
  /\ LET u == adding.active
     IN  \/ EditsFail /\ Become([Now EXCEPT !.adding = NoAdd])
         \/ /\ IOS /\ u \in listed
            /\ \E x \in Reactivated(Now, u) : Become(Listing(x, adding.new))
         \/ ~(IOS /\ u \in listed) /\ Become(Listing(Now, adding.new))

\* The completion handler of remove.
RemoveReturns(t) ==
  /\ "remove" \in Edits /\ t \in listed /\ Call(t, "modify", 0) \notin calls
  /\ Become(Changed(Dropped(Now, {t})))

-----------------------------------------------------------------------------
(* The system (external).                                                  *)

TakesStart(t) ==
  /\ ask[t] # "none" /\ session[t] # "disconnecting"
  /\ LET m == [Now EXCEPT !.ask[t] = "none"]
     IN  \/ session[t] = "disconnected" /\ ask[t] = "start" /\ Become(SessionBecomes(m, t, "connecting"))
         \/ session[t] = "disconnected" /\ ask[t] = "start_stop" /\ Become(SessionBecomes(m, t, "disconnecting"))
         \/ session[t] \in {"invalid", "connecting", "connected"} /\ Become(m)

Connects(t) == session[t] = "connecting" /\ Become(SessionBecomes(Now, t, "connected"))

\* The provider gives up, the system or another app takes the tunnel down.
Drops(t) == session[t] \in {"connecting", "connected"} /\ Become(SessionBecomes(Now, t, "disconnecting"))

Disconnected(t) == session[t] = "disconnecting" /\ Become(SessionBecomes(Now, t, "disconnected"))

\* On-demand rules or the system settings start a tunnel.
StartsOutside(t) ==
  Outside /\ session[t] = "disconnected" /\ enabled[t] /\ Become(SessionBecomes(Now, t, "connecting"))

DeletedOutside(t) ==
  /\ Outside /\ t \in listed \ gone
  /\ Become([SessionBecomes(Changed(Now), t, "invalid") EXCEPT !.ask[t] = "none", !.gone = @ \cup {t}])

\* Another configuration becomes the enabled one.
Disabled(t) ==
  StartsFail /\ t \in listed /\ enabled[t] /\ Become([Changed(Now) EXCEPT !.enabled[t] = FALSE])

-----------------------------------------------------------------------------
User(t) == Activate(t) \/ Deactivate(t) \/ Modify(t) \/ Add(t) \/ RemoveReturns(t)

Completion(t) ==
  \/ \E c \in calls : c.tunnel = t /\ (SaveReturns(t, c.count) \/ LoadReturns(t, c.count))
  \/ ModifyReturns(t)

System(t) ==
  \/ TakesStart(t) \/ Connects(t) \/ Drops(t) \/ Disconnected(t)
  \/ StartsOutside(t) \/ DeletedOutside(t) \/ Disabled(t)

Next ==
  \/ \E t \in Tunnels : User(t) \/ Completion(t) \/ StatusDidChange(t) \/ TimerFires(t) \/ System(t)
  \/ AddReturns \/ RefreshStatuses \/ Reload

Spec == Init /\ [][Next]_vars

\* The system delivers its notifications and completion handlers, the run loop
\* fires its timers, and a session does not stay half way for ever.  The user
\* and the foreground refresh are owed nothing.
Fairness ==
  /\ \A t \in Tunnels :
       /\ WF_vars(StatusDidChange(t)) /\ WF_vars(TimerFires(t)) /\ WF_vars(Completion(t))
       /\ WF_vars(TakesStart(t)) /\ WF_vars(Connects(t) \/ Disconnected(t))
  /\ WF_vars(AddReturns) /\ WF_vars(Reload)

FairSpec == Spec /\ Fairness

-----------------------------------------------------------------------------
(* Properties.                                                             *)

\* At most one listed tunnel waits for its turn, whatever is started, stopped,
\* edited, refreshed or retried in between: waitingTunnel() and the observer's
\* first(where:) rely on it.
AtMostOneWaiting == \A t, u \in Waiting(Now) : t = u

\* No wake-up is lost: while a tunnel waits, the token observes a tunnel whose
\* status is not yet .inactive, so the assignment that makes it so is still to
\* come and will be seen (or the observed container was released).
NoLostWakeup ==
  Waiting(Now) # {} =>
    \/ waitee = Lost
    \/ waitee \in listed /\ status[waitee] \notin {"inactive", "waiting"}

\* t is on its way up by the app's doing: a call of startActivation is in flight
\* or the outcome of startTunnel is awaited.
Trying(t) == attempting[t] \/ \E c \in calls : c.tunnel = t /\ c.kind # "modify"

\* "Ensure that no other tunnel can attempt activation until this tunnel is done
\* trying" (startActivation): no two tunnels are on their way up at once.
OneTries == \A t, u \in listed : Trying(t) /\ Trying(u) => t = u

\* A switch does not overlap two tunnels: apart from the waiting tunnel at most one
\* listed tunnel is in operation, and only that one's session is up.
OneInOperation ==
  /\ \A t, u \in Operating(Now) \ Waiting(Now) : t = u
  /\ \A t \in listed : session[t] \in {"connecting", "connected"} =>
       status[t] \notin {"inactive", "waiting"}

\* An .activating tunnel is getting somewhere: a call of startActivation is in
\* flight, or its session is moving or has moved and a notification will say so.
ActivatingIsTrying ==
  \A t \in listed : status[t] = "activating" =>
    Trying(t) \/ ask[t] # "none" \/ notes[t] > 0 \/ session[t] = "connecting"

\* Whoever waits for the outcome of startTunnel will be told: the session is
\* still moving, or the notification of its last move is undelivered.
AttemptIsAnswered ==
  \A t \in listed : attempting[t] =>
    notes[t] > 0 \/ ask[t] # "none" \/ session[t] \in {"connecting", "disconnecting"}

\* What the delegate was last told holds of the session: after "startTunnel wasn't
\* called or failed" and after "status didn't change to connected" the tunnel is
\* neither coming up nor up.
VerdictIsTrue ==
  \A t \in listed : outcome[t] \in {"attemptFailed", "failed"} =>
    ~attempting[t] /\ session[t] \notin {"connecting", "connected"}

UserActs == \E t \in Tunnels : User(t)

\* Once the user stops asking, no tunnel waits for ever ("Waiting for another
\* tunnel to be brought down"): it has been started, dropped or replaced.
WaitEnds ==
  []<><<UserActs>>_vars \/ <>[](\A t \in Tunnels : status[t] # "waiting")

\* Once the user stops asking, no tunnel is .restarting for ever: it came back or
\* its start was refused.
RestartEnds ==
  []<><<UserActs>>_vars \/ <>[](\A t \in Tunnels : status[t] # "restarting")

\* Nothing is left to happen: every accepted start is answered, no retry is in
\* flight, no restart pending; and nobody waits where nothing is edited or fails.
AtRest ==
  /\ calls = {}
  /\ \A t \in Tunnels : ~attempting[t] /\ status[t] # "restarting"
  /\ Edits = {} /\ ~StartsFail => \A t \in Tunnels : status[t] # "waiting"

\* Once the user stops asking, the manager comes to rest, whatever starts, stops,
\* retries and restarts were under way.
ComesToRest == []<><<UserActs>>_vars \/ <>[]AtRest
=============================================================================
