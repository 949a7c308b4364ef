------------------------- MODULE PacketTunnelProvider -------------------------
(***************************************************************************)
(* The network extension: PacketTunnelProvider, its ErrorNotifier, the Go  *)
(* bridge's table of tunnel handles, and the app's reading of the error    *)
(* file.  The extension's calls run one after the other on its queue; the  *)
(* path monitor of the iOS build has a queue of its own.  Sessions follow  *)
(* each other, each with a provider object of its own, in one process as   *)
(* long as that lives, of one tunnel or of several.  Tunnels with a peer   *)
(* in common count as one.                                                 *)
(***************************************************************************)
EXTENDS Integers, FiniteSets

CONSTANTS
  Sessions,   \* an interval of numbers from 1: the sessions, in the order of their starts
  Worlds      \* the worlds explored, each with bounds of its own:
              \* [build, last, paths, app, tunnel]

VARIABLES
  world,          \* the build, the last session, the number of network paths, whether the app runs,
                  \* and the tunnel of each session
  provider,       \* per session: its provider object and what is known of the session
  alive,          \* the sessions whose provider objects live in the extension's process
  tunnelHandles,  \* api-ios.go: handle numbers to the sessions that own the devices
  devices,        \* the sessions that have a device
  endpoints,      \* per device and tunnel whose peers it has: the path for which their endpoints
                  \* are set and, a history, the session that set them
  path,           \* the current network path
  errorFile       \* the extension's last error file

vars == <<world, provider, alive, tunnelHandles, devices, endpoints, path, errorFile>>

None == "none"
NoFile == [attempt |-> 0, error |-> None]
NoUpdate == [handle |-> -1, path |-> 0]

Errors ==
  {"savedProtocolConfigurationIsInvalid", "dnsResolutionFailure", "couldNotSetNetworkSettings",
   "couldNotDetermineFileDescriptor", "couldNotStartBackend"}

Fresh ==
  [stage    |-> "idle",   \* idle, asked, settings (outstanding), opening, done
   app      |-> FALSE,    \* started by the app, with an attempt's id
   answer   |-> None,     \* what the start was answered: up or an error
   stopped  |-> "no",     \* when stopTunnel came: before or after the answer
   handle   |-> -1,
   monitor  |-> None,     \* none, on, cancelled
   queued   |-> FALSE,    \* a path update is queued
   update   |-> NoUpdate, \* the path update under way: the handle it read and the path
   read     |-> 0,        \* the path for which the configuration was made
   since    |-> 0,        \* the path at the time of the answer
   shown    |-> None]     \* what the app told the user of the attempt's end

Nothing == [h \in {} |-> 0]

Init ==
  /\ world \in Worlds
  /\ provider = [s \in Sessions |-> Fresh]
  /\ alive = {} /\ tunnelHandles = Nothing /\ devices = {}
  /\ endpoints = [s \in Sessions |-> {}]
  /\ path = 1 /\ errorFile = NoFile

\* The system starts a session when the one before is over.
Over(s) ==
  LET p == provider[s] IN
  \/ p.stage = "done" /\ p.answer # "up"
  \/ p.stopped # "no"
  \/ p.stage \notin {"idle", "asked"} /\ s \notin alive

IsNext(s) ==
  s <= world.last /\ provider[s].stage = "idle" /\ \A r \in Sessions : r < s => Over(r)

\* The app asks for a tunnel under a new attempt's id.
AppAsks(s) ==
  /\ world.app /\ IsNext(s)
  /\ provider' = [provider EXCEPT ![s] = [@ EXCEPT !.stage = "asked", !.app = TRUE]]
  /\ UNCHANGED <<world, alive, tunnelHandles, devices, endpoints, path, errorFile>>

\* The extension cannot be launched.
NotLaunched(s) ==
  /\ provider[s].stage = "asked"
  /\ provider' = [provider EXCEPT ![s].stage = "done"]
  /\ UNCHANGED <<world, alive, tunnelHandles, devices, endpoints, path, errorFile>>

\* ErrorNotifier.notify: only an attempt of the app is noted.
Noted(s, e) == IF provider[s].app THEN [attempt |-> s, error |-> e] ELSE NoFile

Answered(s, e) == [provider[s] EXCEPT !.stage = "done", !.answer = e]

StartTunnel(s) ==
  /\ provider[s].stage = "asked" \/ IsNext(s)
  /\ alive' = alive \cup {s}
  /\ \/ \E e \in {"savedProtocolConfigurationIsInvalid", "dnsResolutionFailure"} :
          /\ provider' = [provider EXCEPT ![s] = Answered(s, e)]
          /\ errorFile' = Noted(s, e)
     \/ /\ provider' = [provider EXCEPT ![s].stage = "settings"]
        /\ errorFile' = NoFile
  /\ UNCHANGED <<world, tunnelHandles, devices, endpoints, path>>

\* A failure after the start had removed the file of the attempt before.
Fail(s, e, p) ==
  /\ provider' = [provider EXCEPT ![s] = p]
  /\ errorFile' = IF p.app THEN Noted(s, e) ELSE errorFile

\* The path monitor is started, which reports the path it finds.
Monitored(p) ==
  IF world.build = "iOS" THEN [p EXCEPT !.monitor = "on", !.queued = TRUE] ELSE p

\* The completion handler of setTunnelNetworkSettings, up to wgTurnOn.
SettingsReturn(s) ==
  /\ s \in alive /\ provider[s].stage = "settings"
  /\ \/ Fail(s, "couldNotSetNetworkSettings", Answered(s, "couldNotSetNetworkSettings"))
     \/ Fail(s, "couldNotDetermineFileDescriptor",
             Monitored(Answered(s, "couldNotDetermineFileDescriptor")))
     \/ /\ provider' = [provider EXCEPT ![s] =
             Monitored([@ EXCEPT !.stage = "opening", !.read = path])]
        /\ UNCHANGED errorFile
  /\ UNCHANGED <<world, alive, tunnelHandles, devices, endpoints, path>>

\* Mutant: the number is how many there are.
NumberByCount == Cardinality(DOMAIN tunnelHandles)

SmallestFree ==
  CHOOSE h \in 0..Cardinality(DOMAIN tunnelHandles) :
    h \notin DOMAIN tunnelHandles /\ \A g \in 0..(h - 1) : g \in DOMAIN tunnelHandles

\* The endpoints of a session's peers, for a path.
Peers(s, p) == [tunnel |-> world.tunnel[s], path |-> p, by |-> s]

\* wgTurnOn succeeds.
TurnOn(s) ==
  /\ tunnelHandles' = [h \in DOMAIN tunnelHandles \cup {SmallestFree} |->
                         IF h = SmallestFree THEN s ELSE tunnelHandles[h]]
  /\ devices' = devices \cup {s}
  /\ endpoints' = [endpoints EXCEPT ![s] = {Peers(s, provider[s].read)}]

\* The rest of the completion handler: wgTurnOn, which cannot make the device, rejects
\* its configuration and leaves it, or returns the handle.
Open(s) ==
  /\ s \in alive /\ provider[s].stage = "opening"
  /\ \/ /\ Fail(s, "couldNotStartBackend", Answered(s, "couldNotStartBackend"))
        /\ devices' \in {devices, devices \cup {s}}
        /\ UNCHANGED <<tunnelHandles, endpoints>>
     \/ /\ TurnOn(s)
        /\ provider' = [provider EXCEPT ![s] =
             [Answered(s, "up") EXCEPT !.handle = SmallestFree, !.since = path]]
        /\ UNCHANGED errorFile
  /\ UNCHANGED <<world, alive, path>>

\* Mutant: the device is not closed.
TurnOffUnclosed(h) ==
  /\ tunnelHandles' = [g \in DOMAIN tunnelHandles \ {h} |-> tunnelHandles[g]]
  /\ UNCHANGED devices

\* wgTurnOff.
TurnOff(h) ==
  IF h \in DOMAIN tunnelHandles
    THEN /\ devices' = devices \ {tunnelHandles[h]}
         /\ tunnelHandles' = [g \in DOMAIN tunnelHandles \ {h} |-> tunnelHandles[g]]
    ELSE UNCHANGED <<devices, tunnelHandles>>

\* The process ends, and everything in it.
ProcessEnds(providers) ==
  /\ provider' = [s \in Sessions |-> IF s \in alive
                    THEN [providers[s] EXCEPT !.queued = FALSE, !.update = NoUpdate]
                    ELSE providers[s]]
  /\ alive' = {} /\ tunnelHandles' = Nothing /\ devices' = {}

\* stopTunnel cancels the monitor; the handle is kept.
Stopped(s) ==
  [provider EXCEPT ![s] =
    [@ EXCEPT !.stopped = IF provider[s].answer = None THEN "before" ELSE "after",
              !.monitor = IF provider[s].monitor = "on" THEN "cancelled"
                          ELSE provider[s].monitor]]

\* The macOS build exits at the end.
Stop(s) ==
  /\ s \in alive /\ provider[s].stopped = "no"
  /\ provider[s].stage = "settings" \/ provider[s].answer = "up"
  /\ errorFile' = NoFile
  /\ IF world.build = "macOS"
       THEN ProcessEnds(Stopped(s))
       ELSE provider' = Stopped(s) /\ TurnOff(provider[s].handle) /\ UNCHANGED alive
  /\ UNCHANGED <<world, endpoints, path>>

\* The system ends the process, or it crashes.
Killed ==
  /\ alive # {} /\ ProcessEnds(provider)
  /\ UNCHANGED <<world, endpoints, path, errorFile>>

PathChanges ==
  /\ path < world.paths /\ path' = path + 1
  /\ provider' = [s \in Sessions |-> IF s \in alive /\ provider[s].monitor = "on"
                    THEN [provider[s] EXCEPT !.queued = TRUE] ELSE provider[s]]
  /\ UNCHANGED <<world, alive, tunnelHandles, devices, endpoints, errorFile>>

\* Mutant: the endpoints resolved at the start are used.
UpdateBeginsUnresolved(s) ==
  /\ provider[s].queued /\ provider[s].update = NoUpdate
  /\ provider' = [provider EXCEPT ![s] =
       [@ EXCEPT !.queued = FALSE,
                 !.update = IF provider[s].handle = -1 THEN NoUpdate
                            ELSE [handle |-> provider[s].handle, path |-> provider[s].read]]]
  /\ UNCHANGED <<world, alive, tunnelHandles, devices, endpoints, path, errorFile>>

\* pathUpdate reads the handle and resolves the endpoints for the path there is.
UpdateBegins(s) ==
  /\ provider[s].queued /\ provider[s].update = NoUpdate
  /\ provider' = [provider EXCEPT ![s] =
       [@ EXCEPT !.queued = FALSE,
                 !.update = IF provider[s].handle = -1 THEN NoUpdate
                            ELSE [handle |-> provider[s].handle, path |-> path]]]
  /\ UNCHANGED <<world, alive, tunnelHandles, devices, endpoints, path, errorFile>>

\* wgSetConfig sets the endpoints of the device that has the number now, and adds the
\* peers that it does not know.
UpdateEnds(s) ==
  LET u   == provider[s].update
      new == Peers(s, u.path)
  IN
  /\ u # NoUpdate
  /\ endpoints' = IF u.handle \in DOMAIN tunnelHandles
                    THEN [endpoints EXCEPT ![tunnelHandles[u.handle]] =
                           {e \in @ : e.tunnel # new.tunnel} \cup {new}]
                    ELSE endpoints
  /\ provider' = [provider EXCEPT ![s].update = NoUpdate]
  /\ UNCHANGED <<world, alive, tunnelHandles, devices, path, errorFile>>

\* Mutant: the attempt's id is not compared.
LastErrorTextOfAny(s) == IF errorFile # NoFile THEN errorFile.error ELSE "activationFailed"

LastErrorText(s) ==
  IF errorFile.attempt = s THEN errorFile.error ELSE "activationFailed"

\* The app hears that its attempt's session is disconnected.
AppShows(s) ==
  /\ provider[s].app /\ Over(s) /\ provider[s].shown = None
  /\ \A r \in Sessions : r > s => ~provider[r].app
  /\ provider' = [provider EXCEPT ![s].shown = LastErrorText(s)]
  /\ UNCHANGED <<world, alive, tunnelHandles, devices, endpoints, path, errorFile>>

Next ==
  \/ \E s \in Sessions :
       \/ AppAsks(s) \/ NotLaunched(s) \/ StartTunnel(s) \/ SettingsReturn(s) \/ Open(s)
       \/ Stop(s) \/ UpdateBegins(s) \/ UpdateEnds(s) \/ AppShows(s)
  \/ Killed \/ PathChanges

Spec == Init /\ [][Next]_vars
-----------------------------------------------------------------------------
\* A device outlives its session's stop only when the settings were outstanding then,
\* and the end of a failed start only when wgTurnOn had made it and rejected its
\* configuration.
NoDeviceLingers ==
  \A s \in devices :
    \/ provider[s].answer = "up" /\ provider[s].stopped # "after"
    \/ provider[s].answer = "couldNotStartBackend"

\* The number a provider keeps is that of its own device, whatever sessions came and
\* went in the process, as long as it has not turned the device off.
HandleIsOwn ==
  \A s \in alive :
    provider[s].answer = "up" /\ provider[s].stopped # "after" =>
      /\ provider[s].handle \in DOMAIN tunnelHandles
      /\ tunnelHandles[provider[s].handle] = s

\* When no path update of a session is queued or under way, its peers' endpoints are
\* those for the present path.  They may be older in two cases only: the updates were
\* dropped that came before the handle was set, and the path has not changed since; or
\* the last to set them was a late update of a session that had been stopped.  No other
\* update is lost or overtaken, and none reaches the device of another session before
\* its own is stopped.
EndpointsFollowPath ==
  \A s \in alive :
    /\ world.build = "iOS" /\ provider[s].answer = "up" /\ provider[s].stopped = "no"
    /\ ~provider[s].queued /\ provider[s].update = NoUpdate
    => \A e \in endpoints[s] :
         IF e.by = s
           THEN e.path = path \/ (e.path = provider[s].read /\ provider[s].since = path)
           ELSE provider[e.by].stopped = "after"

\* The reason the app shows for an attempt's failure is the one that attempt had, though
\* a failed attempt's file may be left by a killed process and overwritten by a stopped
\* session's late answer.
ReasonIsOfAttempt ==
  \A s \in Sessions : provider[s].shown \in Errors => provider[s].answer = provider[s].shown
=============================================================================
