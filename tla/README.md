# Verification of the tunnel manager and its neighbours

This directory holds TLA+ modules of the VPN client in `src/` (a fork of
WireGuard for iOS and macOS), the TLC configurations that check them, and
theorems about them proved with TLAPS.

```
tlc -workers 2 -config Rough.cfg MCTunnelsManager      # one run; the table below lists all
tlapm TunnelsManagerProofs.tla                         # the proofs
```

Paths below are relative to `src/WireGuard/` unless they begin with `src/`.

## 1. The system

| part | state it keeps | operations | what makes it correct |
|---|---|---|---|
| **Tunnel manager, activation** `WireGuard/Tunnel/TunnelsManager.swift`, `TunnelStatus.swift` | a status per tunnel, who waits, one observer, retry counters in closures, a timer per tunnel | start, stop, switch; status notifications; timer; foreground refresh | one tunnel in operation; a waiting tunnel gets its turn; every start is answered, truthfully; retries end |
| **Tunnel manager, store** same file, `Shared/Keychain.swift`, `Shared/Model/NETunnelProviderProtocol+Extension.swift` | list of containers, preferences, keychain items | create, add, addMultiple, modify, remove, reload | names unique, list sorted, list = preferences, every tunnel has its keychain item and no item is orphaned, every call answers once |
| **Ring log** `Shared/Logging/ringlogger.c`, `Logger.swift`, `WireGuard/UI/LogViewHelper.swift` | a ring of lines in a file mapped by app and extension; a cursor per log view | write, export, follow, open | readers see whole lines, in order, none twice; the view catches up |
| **Packet tunnel provider** `WireGuardNetworkExtension/PacketTunnelProvider.swift`, `ErrorNotifier.swift`, `PacketTunnelSettingsGenerator.swift` | device handle, path monitor, settings generator; the error file | startTunnel, stopTunnel, pathUpdate, handleAppMessage | the device is up only between start and stop; the app reads the error of its own attempt |
| **Go bridge** `src/wireguard-go-bridge/api-ios.go` | map from handles to devices | wgTurnOn, wgTurnOff, wgSetConfig, wgGetConfig | a handle names one live device; no device is lost |
| **DNS resolver** `WireGuardNetworkExtension/DNSResolver.swift` | results of concurrent look-ups | resolveSync, withReresolvedIP | every endpoint answered or the whole refused |
| **On-demand options** `WireGuard/Tunnel/ActivateOnDemandOption.swift` | none | apply, init(from:) | reading back what was written |
| **Configurations** `Shared/Model/*`, `TunnelConfiguration+UapiConfig.swift` | none | wg-quick and UAPI parsers and printers, key codecs | what was accepted and written can be read back as it was (all but hosts that lose their brackets); duplicate or missing parts are refused |
| **Recent tunnels** `WireGuard/UI/iOS/RecentTunnelsTracker.swift` | at most ten names | activated, renamed, removed, cleanup | no name twice, newest first |
| **Import** `WireGuard/UI/TunnelImporter.swift`, `WireGuard/ZipArchive/` | parsed configurations | importFromFile | every file is accounted for, the caller is told |
| **Syntax highlighter** `WireGuard/UI/macOS/View/highlighter.c` | a scanner over the text | highlight_config | every character marked once; errors are what the parser refuses |
| **macOS current tunnel** `WireGuard/UI/macOS/TunnelsTracker.swift` | currentTunnel | list and status callbacks | nothing creates it in this program, see section 7 |
| Views, sign-in flow, theme code, Curve25519, `Pods/` and other vendored code | | | see section 7 |

**How they interact.** Everything in the tunnel manager runs on the main queue.
It calls the NetworkExtension framework (`startTunnel`, `stopTunnel`,
`saveToPreferences`, `loadFromPreferences`, `removeFromPreferences`,
`loadAllFromPreferences`), which answers through completion handlers, and it
receives `NEVPNStatusDidChange` and `NEVPNConfigurationChange` notifications.
Containers announce status changes by key-value observation: the manager's own
observer (`waiteeObservationToken`) runs *inside* the assignment of a status.
The extension is another process; it is started and stopped by the framework,
answers `sendProviderMessage`, leaves its last error in a file that the app reads
on a disconnect, and shares the log file with the app.

**What is hard.** The status the app believes in (`TunnelContainer.status`)
lags behind the session's; retries live in completion handlers that outlast the
status that justified them; a switch depends on an observer seeing an assignment
that other code makes; edits and reloads arrive in the middle of a switch. The
log is written without a lock by several threads of two processes that may be
killed at any point. `PROJECT.json` lists each hazard at its line.

## 2. Modules

| module | models | role |
|---|---|---|
| `TunnelsManager` | `TunnelsManager.swift` (activation), `TunnelStatus.swift` | specification and properties |
| `MCTunnelsManager` | | the worlds TLC explores |
| `TunnelsManagerProofs`, `TunnelsManagerSlotProofs` | | inductive invariants and theorems; the refinement, proved |
| `SingleSlot` | | what a switch promises: an abstract specification |
| `TunnelsManagerSlot` | | the refinement mapping from `TunnelsManager` to `SingleSlot` |
| `TunnelStore`, `MCTunnelStore` | `TunnelsManager.swift` (create, add, modify, remove, reload), `Keychain.swift`, `NETunnelProviderProtocol+Extension.swift` | specification and properties; its worlds |
| `TunnelStoreInvariant`, `TunnelStoreProofs` | | inductive invariant and its steps; `reload`, and the theorems |
| `RingLogger` | `ringlogger.c`, `LogViewHelper.swift` | specification and properties |
| `RingLoggerProofs` | | inductive invariants and theorems |
| `PacketTunnelProvider` | `PacketTunnelProvider.swift`, `ErrorNotifier.swift`, `api-ios.go`, reading of the error file in `TunnelsManager.swift` | composition of extension, bridge and app |
| `PacketTunnelProviderProofs` | | inductive invariants and theorems |
| `DNSResolver` | `DNSResolver.swift` | concurrent look-ups |
| `TunnelImporter` | `TunnelImporter.swift`, `ZipImporter.swift`, `addMultiple` | the chain of an import |
| `LogOpening` | `ringlogger.c` (`open_log`), `Logger.swift` | processes that open, clear, write and are killed |
| `RecentTunnels` | `RecentTunnelsTracker.swift` and its callers | the list across launches |
| `OnDemandOption` | `ActivateOnDemandOption.swift` | algorithm and reference definition |
| `PartsProofs` | | inductive invariants and theorems about `DNSResolver`, `TunnelImporter`, `LogOpening`, `RecentTunnels`, `OnDemandOption` and `Highlighter` |
| `Filtering` | `removeAll(where:)`, `compactMap` (external) | leaving elements out of a list |
| `WgQuickConfig` | `TunnelConfiguration+WgQuickConfig.swift` | the reader's automaton, the writer, reference definition |
| `KeyEncoding` | `key.c`, `Data+KeyEncoding.swift` | algorithm in C's integers and reference definition |
| `Highlighter` | `highlighter.c` (scanner) | algorithm and reference definition |
| `AddressSyntax` | `highlighter.c` (`is_valid_ipv4`, `is_valid_ipv6`) | algorithm and reference definition; the only module with RECURSIVE operators |
| `NumberLemmas` | | induction and division, for the proofs about loops and the ring |
| `MCParts` | | explores the ten parts above that have no run of their own |

Some operators are marked as mutants: the form another one would have after a
plausible slip. They are used by nothing; putting one in the place of the other
makes a property fail (`PROJECT.json` pairs them), which shows that the property
depends on that code.

### TunnelsManager

A tunnel is a number: its place in the name order by which `tunnels` is sorted,
so that `tunnels.first(where:)` is `First`, the least. The state is a record
`Now` of functions over the tunnels; methods of the code are operators from a
state to the set of states they may leave it in (`StartActivation`,
`StartActivationOf`, `StartDeactivation`, `RefreshStatus`, ...), so that a
handler that calls three methods is one atomic action, as it is on the main
queue. Assigning `.inactive` goes through `Handoff`, the key-value observer: it may
start the waiting tunnel in the middle of the assignment.

| code | model |
|---|---|
| `status`, `isAttemptingActivation`, `activationTimer` | `status`, `attempting`, `timer` |
| `waiteeObservationToken` | `waitee`: nobody, a listed tunnel, or `Lost` when its container was released |
| completion handlers of `saveToPreferences`/`loadFromPreferences` within `startActivation`, with `recursionCount` | `calls` of kind "save" and "load" |
| `modify` between call and completion | `calls` of kind "modify" |
| `add` between call and completion, with the captured `activeTunnel` | `adding` |
| a scheduled `reload()` | `reloading` |
| what the activation delegate was told last | `outcome` |
| `connection.status`, undelivered notifications | `session`, `notes` |
| `isEnabled` | `enabled` |
| tunnels deleted in the settings, not yet reloaded | `gone` |
| `refreshStatuses`, `reload` | `RefreshStatuses`, `Reload` |

The **world** is a variable that never changes: which tunnels exist, iOS or
macOS, whether the session's status follows `startTunnel` at once or later,
whether starts or the saving of new tunnels fail, whether tunnels start and vanish without the
app, which editing operations are in use. One run thus checks several
surroundings, and a theorem speaks of all of them. Restricting a world is a
statement about the environment, never about the code.

Assumptions about the system, from how the code uses it:
- Sessions move disconnected, connecting, connected, disconnecting, disconnected,
  may drop at any time and become invalid when deleted; they never reassert
  (`TunnelStatus.swift:12`: "Not a possible state at present").
- Whether `startTunnel` has changed `connection.status` when it returns is not
  known: both are modelled (`asyncStart`). A stop of a start that was accepted but not
  yet shown is remembered (`ask`).
- Notifications are not lost; at most `MaxNotes` undelivered ones are counted per
  session. As the handler reads the status when it runs, two pending
  notifications differ from one only in a second, idempotent delivery.
- Saving a new tunnel on iOS takes the active one down (comment,
  `TunnelsManager.swift:146`).
- Successful saves, removals and outside changes cause a `reload()`, whose
  completion comes after theirs (comment, `:468-471`); several may be on their way.

Bounds and simplifications: one `add` and one `modify` at a time; the user asks for a
start while at most `MaxCalls` preference calls are in flight; two calls in flight
that are equal in tunnel, kind and count are one; a removal is not completed while
a modification of the same tunnel is in flight (the code would force-unwrap a
missing index, `:229`; `TunnelStore` models that). `.tunnelIsNotInactive`, the
refusal of a request for a tunnel that is not inactive, is no outcome of a start
and is not recorded.

### SingleSlot

One slot for the tunnel in operation and one place for a tunnel that waits. A session is
up only in the slot; the slot changes hands only while the session in it is down, and then
to the tunnel that waits; a newer request takes the waiting place; a removal frees the
slot and tells nobody. `TunnelsManagerSlot` maps the holder to the tunnel whose status is
neither `.inactive` nor `.waiting`, the next one to the waiting tunnel, and the sessions to
themselves. The property `ImplementsSlot` of the run `smooth` says that every step of
`TunnelsManager` is a step of `SingleSlot` or leaves it alone, in worlds where no start
fails, sessions follow `startTunnel` at once and nothing starts outside the app (elsewhere it
is false: with a retry under way the slot may change hands too early, see `overlap_by_retry`); `TunnelsManagerSlotProofs` proves it there.

### TunnelStore

| code | model |
|---|---|
| `tunnels` | `tunnels`: a container is a name and a manager object as edited in memory, with its cached availability and body |
| the preferences (external) | `prefs`: name, password reference, text not yet migrated; `saved` is a ghost |
| keychain items of the app | `items`: reference to body |
| requests to the system | `calls`, answered in the order they were made |
| `NEVPNConfigurationChange` posted, `reload()` to come | `changed` |
| `makeReference` | `NewRef`, `WithItem` (a new item, then the old one is deleted) |
| `migrateConfigurationIfNeeded` | `Migrated` |
| `create` | `Launch`, in `Relaunch` after a crash |
| `isEquivalentTo` | `Equivalent` |

A crash may come between any two steps; the system has then seen the first `n` of the
requests (`AfterCalls`). What `create` leaves behind is said of the whole (`Launch`): which items and
containers there are, with references and containers chosen by injections, and the requests it makes, in the
order in which the system lists its configurations. Assumptions: the system answers in order
(the comment at `:468` relies on it) and loads new manager objects each time; the names of profiles are not
those the user gives; a migration's save that another save has overtaken is refused as stale.
Bounds: finitely many configurations, references and containers, an edit or a reload needs free ones
(`MayEdit`, `Room`); one edit at a time (the view that asked waits for the answer); one reload
at a time; no edit between a refused modify or clean-up and the next launch, since the code
cannot roll these back (its TODO at `:224`): after a refused modify the list has the
new name and the preferences the old one, so that the old name counts as free and two
stored configurations of one name may arise; after a refused removal at launch an addition
may repeat the name.

### RingLogger

Each access to shared memory by `write_msg_to_log` is a step: read the clock,
claim an index, clear the time, erase, print, store the time. A message is the
number of its clock reading and stands for time stamp and text alike, so a line is
whole when its two fields agree. Readers copy the log field by field (`memcpy`
beside running writers) and then run `View` or `Export` on the copy; `View` is the
loop of `view_lines_from_cursor`. The log view fetches one batch at a time, as its
only callers make sure (`isFetchingLogEntries`). A writer in `Mortal` may be killed
between any two steps; the mapped file stays.

Memory is assumed sequentially consistent: the steps of a writer become visible to every other
writer and reader in program order. `ringlogger.c` uses C11 atomics for the index and the time, which make
up a total order, but plain stores for the text; a reader on a processor that reorders these is not modelled.

The comments in `ringlogger.c` admit three races: claims out of clock order (the
model allows it; properties speak of claim order), old data shown after new data (a
claimed line not yet cleared; `raced` marks the behaviours in which the follower
copies or inherits one), and clashing writers. `Lapping = FALSE` excludes the last:
no writer is overtaken by `MaxLines` messages while it writes one.

### PacketTunnelProvider

A session is a number, in the order of the starts; each has a provider object of its own
(`provider[s]`). `alive` are the sessions whose objects live in the present process: on iOS
the process may serve several sessions, on macOS `stopTunnel` exits. `tunnelHandles` and
`devices` are the bridge's: `wgTurnOn` takes the smallest free number, `wgTurnOff` closes the
device of a number, `wgSetConfig` knows only the number. `StartTunnel`, `SettingsReturn` and
`Open` are the three stretches of `startTunnel` between which other calls may come;
`UpdateBegins` and `UpdateEnds` are the path monitor's, on a queue of its own. The app asks
under an attempt's id (`AppAsks`), and reads the error file when the session is over (`AppShows`).

The sessions of a process may be of one tunnel, which is started again, or of several
(`world.tunnel`). `endpoints[s]` are the endpoints set on the device of session `s`: per tunnel whose peers
the device has, the path they are for, with a history of which session set them. `UpdateEnds` is
`wgSetConfig` as it is: it sets them on whatever device has the number by then, and adds peers the device does
not know. So a path update of a stopped session that ends late undoes a newer one of the same tunnel,
or brings peers of its own to another tunnel's device; TLC reaches both. `EndpointsFollowPath`
says that nothing but such late updates, and the updates dropped before the handle was
set, leaves endpoints that are not for the present path.

Assumptions: the extension's calls are delivered one after the other on its queue; tunnels that
share a peer's key share all (they count as one); the system starts a session when the one before is
over, and does not stop one whose start has failed; a path update that is queued when
the monitor is cancelled may still run. A start by the app follows only a
session whose end it may still hear of late.

### The parts in MCParts

- `DNSResolver`: the caller's loop and each work item write elements of one captured Swift
  array. A write is two steps; writes that overlap may each be lost. A lost address makes
  the call fail or, if it was an address to begin with, ends the process at the `fatalError` of
  `DNSResolver.swift:48`. The comment at `:89` speaks of skipping further IPv6 addresses; the code keeps
  the last one, and so does the model.
- `TunnelImporter`: files are read side by side and answered in any order, then added one by one.
  An archive's entries are sorted by insertion (`Sorted`). A taken name stops the chain for good (`TunnelsManager.swift:121`); the error of
  an earlier link is forgotten (the shadowed `lastError`, `:182`); an archive that cannot be read,
  among several files, is passed over in silence when everything else succeeds. The property
  states these limits.
- `LogOpening`: app and extension open the log when their processes start (`open_log`,
  `Logger.configureGlobal`). The test of the magic, each field that `memset` clears, in any order, and the setting of
  the magic are steps of their own, and a process may be killed between them; a write is its claim and its
  store (`RingLogger` has its other steps). Before the log has settled, messages may be lost in three ways: to an
  opener that has read the magic too early, to one that finds what a killed one has left half cleared,
  and to a writer that claimed its line before the index was cleared. The property says that no other way exists.
- `RecentTunnels`: driven by the calls `TunnelsManager` makes: a tunnel that has to wait is not
  recorded, one deleted outside keeps its entry until the next launch.
- `OnDemandOption`: options to rules and back, and the rules' first-match meaning.
- `WgQuickConfig`: lines are headers, attributes, blank or junk; a value is a list of entries.
  A header on the last line opens a section that nobody looks at. Entries are converted when they are read and
  when they are written, as far as that tells them apart: `Endpoint(from:)` takes a host in brackets or up
  to the first colon, and makes a name of one that is no address; `stringRepresentation` puts brackets around
  IPv6 addresses only, so that a name with a colon, given in brackets, is accepted and written as a text that is refused
  when read back (`Endpoint.swift:34`); ranges get the longest prefix when none or a longer one is given.
  `WrittenIsReadBack` says that this loss is the only one. An endpoint that ends at its closing
  bracket makes `Endpoint.swift:55` read past the end of the string, which traps: not among the texts.
- `KeyEncoding`: characters are numbers, `char` signed; the computation is in words of 16 bits, wide enough
  for everything it does with them, where C has `int` of 32 bits (shifts, signs, the final `1 & ((ret - 1) >> 8)`), for a key of five bytes: two
  groups, the second short by one byte, as with 32.
- `Highlighter`: a text is a sequence of tokens (a word, a key, a header, a separator, a
  space), each standing for characters that the scanner treats alike. It differs from
  the parser where the reference definition says so: a comma too many is an error only at the end.
- `AddressSyntax`: `is_valid_ipv4` and `is_valid_ipv6` on characters, with two octets and four groups.
  The test for `..` in `is_valid_hostname` (`highlighter.c:97`) is out of reach, not modelled.

## 3. Runs

| run | cfg | checks | world and bounds |
|---|---|---|---|
| `rough` | `Rough.cfg` | `TypeOK`, `AtMostOneWaiting`, `NoLostWakeup` | 2 tunnels; failing starts; lagging sessions with outside changes; edits; failing saves on macOS; limit 2 |
| `smooth` | `Smooth.cfg` | `AtMostOneWaiting`, `OneInOperation`, `ActivatingIsTrying`, `AttemptIsAnswered`, `VerdictIsTrue`, `ImplementsSlot` | no start fails and sessions follow at once; 3 tunnels with remove; 2 with add, modify and remove whose saves may fail; 2 with add on macOS; a start may be asked for during a modification |
| `live` | `Live.cfg` | `ComesToRest` | fairness; 2 tunnels: switching, with modifications, with failures; limit 2 |
| `overlap_by_retry` | `OverlapByRetry.cfg` | `OneTries` fails | 2 tunnels, failing starts, limit 8 |
| `wait_on_restart` | `WaitOnRestart.cfg` | `WaitEnds` fails | fairness; modifications |
| `restart_by_add` | `RestartByAdd.cfg` | `RestartEnds` fails | fairness; additions on iOS |
| `ring_log` | `RingLog.cfg` | `TypeOK`, `LineIsWhole`, `ExportIsTail`, `ShownInOrder` | 2 writers (one mortal), 3 lines, 4 messages |
| `ring_catch_up` | `RingCatchUp.cfg` | `CatchesUp` | fairness; 2 writers, 3 lines, 3 messages |
| `ring_clash` | `RingClash.cfg` | `WritersDoNotClash` fails | lapping allowed, 2 lines |
| `store` | `Store.cfg` | `TypeOK`, `SavedIsKept`, `NothingLeftBehind`, `ListIsStored`, `NamesAreUnique` | 2 configurations, 2 names, 1 profile, 2 bodies; five worlds: refusals and crashes on both systems (1 refusal), deletions outside, profiles with migration that fails (2) or crashes |
| `store_drop` | `StoreDrop.cfg` | `DroppedWasDeleted` fails | nothing goes wrong |
| `parts` | `Parts.cfg` | two properties each of the highlighter with its address checks (three), on-demand options, configurations, keys; four of the provider; one each of recent tunnels, DNS resolver, import and the opening of the log | see below |

`parts` explores parts that do not act on each other side by side: an initial state picks one, the others'
variables stay idle. Its bounds: three sessions in one process, of which two are of one tunnel, two of one
tunnel with the app and a change of path, two of different tunnels with three paths, two on macOS; texts of four lines after three beginnings; three tokens after ten
beginnings that bring every kind of value under way; three networks' names; addresses of up to
6 or 8 characters from those around the limits; three names with two places in the recent list
and four activations; three peers with six answers; two files, of 15 kinds; four starts of app or extension, three lines, three messages.

**Why the bounds are enough to be interesting.** Two tunnels make a switch, three a
switch that is overtaken by a further one; a retry limit of 2 lets a start
be retried and give up, and nothing in the code looks at the count but the
comparison with the limit (the runs that find divergences use the code's 8). One
undelivered notification is enough to be late. The ring wraps (4 messages, 3 lines) and so does the
index, which starts two short of its range of 6, a multiple of the ring as 2^32
is of 2048; two writers interleave at every step, and the follower starts before,
during and after them.

**What the passing runs show.** However starts fail, tunnels get disabled, sessions
lag or move on their own and edits intervene, at most one tunnel waits and the
observer that will wake it is in place. Where nothing fails, tunnels never
overlap, `.activating` always means that something is under way, every accepted start will be
answered and no answer is wrong. The manager comes to rest when the user does.
The log's order of stores makes a time vouch for its text, and neither wrap breaks
export or view. What the store has saved can be read back unless the very edit of it failed; a launch
cleans up what a crash left; list, preferences and keychain agree when all is quiet. A device
outlives its session in two ways only: a stop that comes while the network settings are outstanding
(`PacketTunnelProvider.swift:52`), and a configuration that `wgTurnOn` rejects after making the device
(`api-ios.go:110`). A handle stays its own device's although numbers are used again. Endpoints follow the
path but for the two cases named in section 2; the reason shown is that of the attempt.

**What the failing runs show.** Each quotes a statement of the source that the code
does not keep; `PROJECT.json` has the details.
- `overlap_by_retry`: while the load call of a retry is in flight, a refresh (here: the timer of the
  same start) makes the tunnel look inactive, and a second one is started at once although the first is
  not done trying: it will call `startTunnel` when the call returns (`TunnelsManager.swift:584`).
- `wait_on_restart`: a tunnel asked for while another is restarting waits for it; that
  one is started again rather than brought down (`TunnelStatus.swift:14`).
- `restart_by_add`: the hack that restarts the tunnel which adding has taken down
  starts it and then marks it `.restarting`, a status it does not leave while it is up.
- `store_drop`: a reload asked for before a modification and answered after it drops the container
  as deleted outside, because it compares the loaded manager with the edited one
  (`TunnelsManager.swift:88`); the modification's answer then looks for it in the list in vain (`:229`).
- `ring_clash`: two writers are enough for the clash that the comment ascribes to more than
  `MAX_LINES` of them, if one of them stalls (`ringlogger.c:48`).

Met while modelling, and without a run of their own: a start that gives up after the
limit or whose save fails leaves the status at `.activating` (`:576`, `:593`); so
`ActivatingIsTrying` and `VerdictIsTrue` are checked where starts do not fail. The
failure of an older retry may be reported for a tunnel whose newer `startTunnel` has
succeeded. A tunnel that waits for one that is then removed is woken only by the
refresh of the next reload, as inactive. An endpoint such as `[1:2]:80` is accepted, written
as `1:2:80` and refused when read back (`Endpoint.swift:34`). A path update that ends after its session
was stopped changes the next device that has the number (`PacketTunnelProvider.swift:101`).

**What the properties leave out.** Where the code is known to go wrong, a property that should hold cannot
forbid it; it then names the case as an exception, and says that nothing else goes wrong. The
`note` of a hazard in `PROJECT.json` tells which part of it is covered so and which is not.

## 4. Fairness

`FairSpec` of `TunnelsManager` asks that notifications, completion handlers, timers and the
`reload()` due are delivered in the end (the framework and the run loop
promise as much), that accepted starts are taken up, and that a session
does not stay connecting or disconnecting for ever. Nothing is asked of the user, of
foreground refreshes, of drops, outside starts or disabling. All of it is weak
fairness per tunnel. `Completion` is fair as a whole per tunnel: its calls are finite in
number and each return removes one. Liveness properties are stated for
behaviours in which the user eventually stops asking (`[]<><<UserActs>>_vars \/ ...`):
a user who keeps switching can keep any tunnel waiting.

`FairSpec` of `RingLogger` asks that a writer which has begun goes on (no mortal writers in
that run) and that the log view's timer keeps fetching.

## 5. Proofs

The theorems hold for every value of the constants. `TunnelsManager` assumes that tunnels are
positive numbers, the limit and the bounds are naturals and worlds are worlds; `RingLogger` that the ring has at
least one line and the range of the index is a multiple of its size; `LogOpening` and `DNSResolver` that their bounds are
numbers and their inputs what the code gets; `RecentTunnels` that the limit of the list is a number; `TunnelImporter` that
names are positive numbers and a `.conf` file is one configuration; `Highlighter` that texts are sequences of tokens; `TunnelStore` that identities, references and containers are
numbers, the stored configurations finitely many, and a profile's name is none the user gives; `PacketTunnelProvider` and
`OnDemandOption` assume nothing.

**`TunnelsManagerProofs`.** `Invariant`: `Spec => []Inv`, where `Inv` is the conjunction
of `TypeOK`, `AtMostOneWaiting`, `NoLostWakeup` and "the tunnel being added is not listed yet".
The first three alone are not inductive: a new container may only be added as inactive
because it is not one that waits or is waited for. As every handler is a function on
states, each method has a lemma "from a good state, only good states"
(`StartActivationGood`, `HandoffGood`, `WaitForGood`, `RefreshAllGood`, ...), and an action
follows from the lemmas of the methods it calls. The argument in a sentence: the
observer is moved in the same step that makes a tunnel wait, is dropped only in a step after which nobody
waits, and any assignment of `.inactive` to the observed tunnel runs `Handoff`, which leaves nobody waiting.
`TypeCorrect`, `OneWaiter` and `WakeupIsKept` are the three properties of `rough`.

**`TunnelsManagerSlotProofs`.** In smooth worlds (`Smooth`: no start fails, the session follows `startTunnel`
at once, nothing starts or vanishes outside; sessions still drop on their own, notifications are late, and
edits and their saves may fail): `SmoothInvariant`, from it `OneOperates` (`OneInOperation`), `ActivatingGoesOn`
(`ActivatingIsTrying`), `AttemptsAreAnswered` (`AttemptIsAnswered`), `VerdictsAreTrue` (`VerdictIsTrue`), and
`SlotIsImplemented`: `Spec => SingleSlot's Spec` under the refinement mapping, initial states and every
step. None of the four is inductive by itself. The invariant ties the status of each tunnel to its session
and to what is still to be delivered: a status may differ from what the session says only while a
notification, a completion handler or a `reload()` that will correct it is on its way. The hypothesis is
needed: with lagging sessions TLC finds `OneInOperation` and `VerdictIsTrue` violated, with failing starts
`VerdictIsTrue` and `ActivatingIsTrying`, with starts outside the app all four.

**`RingLoggerProofs`.** For any number of writers, lines and messages, killed writers included, across every wrap:

- `RingTypes`: `TypeOK`, lapping or not. That the cursor stays in the ring is an induction over the rounds of
  `View` (`ViewCursor`).
- `LinesAreWhole`: without lapping, `LineIsWhole`. The inductive invariant `RingInv` adds that two writers at work
  never share a slot (`OwnsSlot`), that a writer at work has a message (`HasMessage`) and what its slot holds at each
  stage (`Progress`: the time is unset from clearing to publishing, and the text is the message once printed).
- `ExportsAreTails`: without lapping, `ExportIsTail`. The invariant adds the ledger (`Ledger`, `LinesFollow`): the index
  counts the claims, a writer at work has one of the last `MaxLines` of them, and the line of such a claim
  has that claim's time or none once it has been cleared, and its time once its writer is done. At rest the times are then
  unset up to some line and set after it, and the loop of `write_log_to_file` keeps the latter (`WithTimeTail`).
- `ViewsAreInOrder`: without lapping, `ShownInOrder`. The invariant `Following` says where the follower is: what it has shown
  is the claims up to some `m`, its cursor is at the slot of claim `m + 1`, which has not been overtaken, and
  a copy under way holds, for each claim after `m`, no time or that claim's time and then its text, since a line that had its time
  when the time was copied is no longer written. `RoundFinds` does one round of `view_lines_from_cursor`, `ViewFinds` all of them.

What these rest on is the arithmetic of the ring: claim `n` gets the slot `(FirstIndex + n - 1) % IndexRange % MaxLines`
(`ClaimSlot`), claims less than `MaxLines` apart differ in their slots, and the wrap of the index does not show
because its range is a multiple of the ring's (`SlotIsRemainder`).

**`PacketTunnelProviderProofs`.** `ProviderInvariant`: `Spec => []ProviderInv`, for any number of sessions and
any worlds; from it `HandlesAreOwn` (`HandleIsOwn`) and `DevicesEnd` (`NoDeviceLingers`). Alone, `HandleIsOwn` is
not inductive: `wgTurnOn` could overwrite the entry of a session that lives. The invariant adds that the table is
finite (`Numbered`), so that the search for the smallest free number ends at one that is free (`SmallestFreeIsFree`:
a pigeonhole argument for the existence, a least element for the choice), and the order of a session's life
(`InOrder`): a start is answered once, and handle and device come with the answer. A stop then removes the entry
of its own session, and no other provider holds that number because the table is a function.

In the same module, `PathInvariant`: `Spec => []PathInv`, relative to `ProviderInv`; from it
`PathIsFollowed` (`EndpointsFollowPath`) and `ShownIsOwn` (`ReasonIsOfAttempt`). The properties speak of settled
states; the invariant says why they settle so. The monitor is on from before `wgTurnOn` until the stop (`Watches`), so
every path change queues an update; an update under way has the handle of its own session (`UpdatesOwn`) and, if none
is queued behind it, has read the present path (`UpdatesToPath`); by `HandleIsOwn` that number is still its own
device's as long as the session runs, so that its end sets the endpoints of the path there. A late update, of a session that has been stopped,
may find any device; `Strays` keeps account of them: what a device has from another session was set after the
other's stop. `PerDevice` and `Sets` say that a step of one session adds endpoints in its own name only. For the error file: an entry under an attempt's number, and an error that was
shown, is what that attempt's start was answered (`Reported`).

**`TunnelStoreInvariant` and `TunnelStoreProofs`.** `InvHolds`: `Spec => [](Types /\ StoreInv)`, for any number of configurations,
names, references and containers, in all worlds: refusals, items that cannot be made, crashes between any two
steps, and changes outside the app, with a `reload` due at any time. From it `TypesHold` (`TypeOK`), `SavedStays` (`SavedIsKept`),
`NamesStayUnique` (`NamesAreUnique`), `NothingStaysBehind` (`NothingLeftBehind`) and `ListStaysStored` (`ListIsStored`).

None of these is inductive. That saved text can be read back depends on what the requests under way will write; that names are
unique depends on what the system will store when it answers a question that was decided by the list; and what `reload` lists
depends on both. The invariant has four parts, of which the last three are about preferences, items, list and requests
together:

- `InOrder`: at most one edit and one load under way; behind a load no migration and no clean-up, so that the managers a reload
  loads and the requests of the launch do not cross.
- `OneOwner`: a reference belongs to one configuration, in the preferences, the list and the requests.
- `Disk`: a configuration whose last edit did not fail has its item with the text saved last, or its text is still in the
  profile, or the very request that replaced the item is under way; each request will find what it needs; names that count
  (`Counts`) are taken once, those of requests included.
- `List`: a container shows a stored configuration and agrees with it (`Agrees`), up to the edit or migration under way.

`Disk` and `List` are operators of the preferences, items, list and requests. In a crash the first `n` requests take effect in
one step, so `Disk` is carried through all the preferences of `AfterCalls`; in a `reload` the list changes once for
every loaded manager, so `List` has a loop invariant of its own (`Reloaded`: the containers that no manager has taken yet are
those from before, each manager gone through has one container). `NothingLeftBehind` adds who uses each item while nothing has
gone wrong (`Clean`), and `ListIsStored` that the list lacks nothing once no reload is to come (`Listing`, `Synced`).

Two hypotheses are needed. That profiles have names of their own (`Names \cap ProfileNames = {}`) is needed for
`NamesAreUnique`: nothing in the app prevents a profile from having the name of a tunnel. And an edit between
a refused one and the next launch (`MayEdit`) would break it, as described in section 2.

**`PartsProofs`**, six parts:

- The opening of the log. `OpeningInvariant`, and from it `SettledLogKeeps` (`SettledLogIsKept`): for any number of processes and
  messages, nothing written after the log has settled is lost to a process that opens it, whoever was killed half way
  before. Once settled, no process is clearing or about to; the claims since then are consecutive, so two of them
  within the ring have different lines (`LinesDiffer`).
- The on-demand option. `OptionsComeBack` and `RulesAreTheOption`, for all interface options and lists of networks: the rules
  written for an option are read back as that option, and decide every network as the option says.
- The resolver. `ResolutionsAreTrue` (`ResolutionIsTrue`), for any number of peers, answers and orders: a start that
  goes on has an endpoint of its own for every peer. The loop over the addresses found is a recursive function;
  `LoopFindsBest` proves by induction what it picks. The invariant says of the shared array that an element holds its own
  peer's answer or nothing, and that it can still be lost only while a write overlaps.
- The recent tunnels. `NewestStandFirst` (`NewestFirst`), for every limit of the list. The invariant `RecentInv` speaks of the names that
  count, those not deleted outside the app: they are listed tunnels, in the order of their last activations (`InTurn`), and every
  tunnel that is not in the list is older than all in it (`OthersOlder`), which is why cutting the list at the limit loses the oldest.
- The import. `SilentImportsAddAll` (`SilenceMeansAllAdded`), for any files and any failures. The invariant follows what each
  file gave until all are read (`ReadSoFar`; `ReadIs` says what a file gives, `SortedIs` that sorting loses nothing) and then
  compares what has been added with what was to be added (`Chain`): as long as no link has failed they agree. The code
  forgets the error of an earlier link, but not the count of the successes, and that is what the proof rests on; with one
  configuration the two cannot differ.
- The highlighter. `AllIsMarked` (`EverythingIsMarkedOnce`), for every text, of any length and any tokens. The invariant
  `IsScanTo` says how far the scan has got: all before the current piece is marked (`MarkedTo`), the piece ends with the
  token just read, and after the length at the last space it is blank (`IsHeld`); on a value, the sign is still to be
  marked and only blanks lie between it and the piece (`InValue`). Marks are cut in parts in a list and in an endpoint, so
  the loop over a list has the same invariant one level down (`IsListTo`), and a valid endpoint must be shown
  to have the three tokens it is cut into.

Induction over the numbers is proved in `NumberLemmas` from the well-foundedness of `<`, as the absence of a least
counterexample, for a set of numbers; a recursive function is given its equations by proving that a function with
them exists (`RoundsExist`).

**Only model-checked:**
- the liveness properties (out of the prover's reach);
- `ReadAsSaid`, `WrittenIsReadBack` and `ErrorsAreTheWrongLines` compare an automaton with a reference definition over texts;
  `AddressesAreRecognised` is about RECURSIVE operators and `OneTextPerKey`, `HexIsReadAndWritten` about bit operations, which the
  provers do not know.

## 6. What remains

- As theorems: the answers of starts when sessions lag; a bound on retries; the configuration reader, and the errors
  the highlighter marks, against their reference definitions.
- In the model: the store's and the provider's steps composed with the activation's
  (they share the status of a container, which `TunnelStore` leaves out).

## 7. Not modelled, and why

- `TunnelsTracker`, `StatusMenu`, `StatusItemController`: no code creates them; the lines that did are commented
  out (`WireGuard/UI/macOS/AppDelegate.swift:85-96`), so the program has no such behaviour.
- The length limit of a log line and the time formats are data; `RingLogger` starts with an opened log, `LogOpening`
  opens it.
- `getRuntimeTunnelConfiguration` changes no state of the manager; the UAPI reader turns its answer into
  a configuration.
- The network settings that `PacketTunnelSettingsGenerator` makes, the digits of addresses and numbers in
  configurations, DNS servers, and the highlighter's checks of keys, numbers and host names are data; `x25519.c` is
  arithmetic modulo 2^255 - 19, out of TLC's reach.
- `TunnelViewModel`, `ActivateOnDemandViewModel`: validation and formatting field by field.
- The Go runtime's answer to unsynchronised access of the map of handles: each call of the bridge is one step.
- A look-up that never answers keeps a start pending (`DNSResolver.swift:39`, "TODO: Timeout?"): nothing
  bounds it, so nothing is promised.
- Views, controllers, the sign-in flow (its server is not in the repository), theme code: user interface.
- `Pods/` (Firebase, Protobuf, nanopb, Alamofire and others), `Spring`, `ITSwitch`, minizip: third-party
  libraries. They are nearly all of the repository's C and header lines, so a count of modelled lines over
  those of the whole repository stays small; the program's own C files are `ringlogger.c`, `key.c` and
  `highlighter.c`, which are modelled, and `x25519.c`.
