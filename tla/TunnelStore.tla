----------------------------- MODULE TunnelStore -----------------------------
(***************************************************************************)
(* The persistence half of TunnelsManager.swift: the list of tunnels in    *)
(* memory, the VPN configurations the system keeps (preferences), and the  *)
(* keychain items that hold the wg-quick text the configurations refer to. *)
(* add, modify and remove change the keychain first, then ask the system   *)
(* to change the preferences, and change the list when it answers; reload  *)
(* brings the list in line with the preferences; create does so at launch  *)
(* and sweeps the keychain.                                                *)
(*                                                                         *)
(* The preferences are external.  The system is taken to answer requests   *)
(* in the order they were made, which is what the comment in               *)
(* startObservingTunnelConfigurations relies on, and to load new manager   *)
(* objects every time.  A tunnel configuration is a name and a body.       *)
(***************************************************************************)
EXTENDS Integers, SequencesExt

CONSTANTS
  Ids,          \* identities of stored VPN configurations
  Refs,         \* persistent references of keychain items
  Slots,        \* identities of TunnelContainer objects
  Names,        \* names the user gives
  ProfileNames, \* names of profiles added outside the app
  Bodies,
  Worlds        \* builds, and what may go wrong in them

NoRef == 0          \* a protocol without passwordReference
NoProtocol == -1    \* no protocolConfiguration: makeReference failed
NoBody == "none"

Mishaps == {"item", "save", "crash", "deleted", "added"}

ASSUME StoreAssumption ==
  /\ Ids \subseteq Nat /\ Refs \subseteq Nat \ {NoRef} /\ Slots \subseteq Nat
  /\ IsFiniteSet(Ids)
  /\ NoBody \notin Bodies /\ Names \cap ProfileNames = {}
  /\ Worlds \subseteq [ios : BOOLEAN, mishaps : SUBSET Mishaps, most : Nat]

\* A stored configuration: localizedDescription, passwordReference and the
\* text of a profile not yet migrated.  `saved' is the body last saved (ghost).
AllNames == Names \cup ProfileNames

Entries == [name : AllNames, ref : Refs \cup {NoRef}, legacy : Bodies \cup {NoBody},
            saved : Bodies]

\* NETunnelProviderManager: the stored configuration id as edited in memory,
\* with its cached availability and body.
Managers == [id : Ids, name : AllNames, ref : Refs \cup {NoRef, NoProtocol}, legacy : Bodies \cup {NoBody},
             available : BOOLEAN, body : Bodies \cup {NoBody}]

Containers == [name : AllNames, manager : Managers]

\* Requests to the system; slot is the container of an edit.  A modify that leaves
\* the configuration alone saves the on-demand rules.
Ops == {"add", "modify", "rules", "remove", "load", "save", "drop"}
Call(op, slot, m) == [op |-> op, slot |-> slot, manager |-> m]
Load == [op |-> "load"]

VARIABLES
  prefs,     \* the stored configurations
  items,     \* the keychain items of the app: reference -> body
  tunnels,   \* the listed containers
  calls,     \* requests the system has not answered yet, oldest first
  changed,   \* NEVPNConfigurationChange has been posted, reload() is still to run
  world,     \* the world at hand: it never changes
  left,      \* failures still to come (at most world.most: a bound)
  failed,    \* ghost: configurations whose last edit failed or was cut off
  messy,     \* ghost: an edit failed or something happened outside since launch
  refused    \* the system has refused a modify or a clean-up since launch

vars == <<prefs, items, tunnels, calls, changed, world, left, failed, messy, refused>>

With(f, x, v) == [y \in DOMAIN f \cup {x} |-> IF y = x THEN v ELSE f[y]]
Without(f, x) == [y \in DOMAIN f \ {x} |-> f[y]]

EditOps == {"add", "modify", "rules", "remove"}
EditCalls == {c \in ToSet(calls) : c.op \in EditOps}
AboutManager == {c \in ToSet(calls) : c.op # "load"}
BeingEdited == {c.manager.id : c \in EditCalls}

-----------------------------------------------------------------------------
(* The keychain, and managers as the system loads them.                    *)

RefsInUse(p, s) ==
  DOMAIN s.items \cup {p[i].ref : i \in DOMAIN p}
    \cup {s.tunnels[c].manager.ref : c \in DOMAIN s.tunnels}
    \cup {c.manager.ref : c \in {d \in ToSet(s.calls) : d.op # "load"}}

\* Keychain.makeReference: a new item, then the old one is deleted.
NewRef(s) == Min(Refs \ RefsInUse(prefs, s))
\* (mutant of WithItem: the old item is not deleted)
WithItemBesideOld(its, new, body, old) == With(its, new, body)
WithItem(its, new, body, old) == With(Without(its, old), new, body)

\* What TLC explores and the list handlers work on.
Now == [items |-> items, tunnels |-> tunnels, calls |-> calls]

SlotsInUse(s) == DOMAIN s.tunnels \cup {c.slot : c \in {d \in ToSet(s.calls) : d.op # "load"}}
NewSlot(s) == Min(Slots \ SlotsInUse(s))

\* (mutant of Loaded: a reference is taken for an item)
LoadedUnverified(p, its, i) ==
  LET e == p[i]
  IN  [id |-> i, name |-> e.name, ref |-> e.ref, legacy |-> e.legacy,
       available |-> e.ref # NoRef,
       body |-> IF e.ref \in DOMAIN its THEN its[e.ref] ELSE e.legacy]

\* A manager as loaded; its item is looked up when first asked for.
Loaded(p, its, i) ==
  LET e == p[i]
  IN  [id |-> i, name |-> e.name, ref |-> e.ref, legacy |-> e.legacy,
       available |-> e.ref \in DOMAIN its,
       body |-> IF e.ref \in DOMAIN its THEN its[e.ref] ELSE e.legacy]

\* migrateConfigurationIfNeeded: the text moves to an item of its own, or is lost when
\* none can be made (NoRef).
Migrated(m, ref) ==
  IF m.legacy = NoBody THEN m
  ELSE [m EXCEPT !.legacy = NoBody, !.ref = ref, !.body = IF ref = NoRef THEN NoBody ELSE m.legacy]

-----------------------------------------------------------------------------
(* The preferences (external): what a request does to them.                *)

\* A manager without a protocol, or one deleted meanwhile, cannot be saved, nor can
\* a migration that another save has overtaken (NEVPNError.configurationStale).
Possible(p, c) ==
  /\ c.manager.ref = NoProtocol => c.op \in {"remove", "drop"}
  /\ c.op # "add" => c.manager.id \in DOMAIN p
  /\ c.op = "save" => p[c.manager.id].legacy # NoBody

Entry(m, saved) == [name |-> m.name, ref |-> m.ref, legacy |-> m.legacy, saved |-> saved]

Stored(p, c) ==
  IF c.op \in {"remove", "drop"} THEN Without(p, c.manager.id)
  ELSE IF c.op \in {"save", "rules"} THEN With(p, c.manager.id, Entry(c.manager, p[c.manager.id].saved))
  ELSE With(p, c.manager.id, Entry(c.manager, c.manager.body))

StoredIfPossible(p, c) == IF c.op # "load" /\ Possible(p, c) THEN Stored(p, c) ELSE p

\* What the first requests make of the preferences.
AfterCalls(n) ==
  LET p[k \in 0 .. n] == IF k = 0 THEN prefs ELSE StoredIfPossible(p[k - 1], calls[k]) IN p

-----------------------------------------------------------------------------
(* create, and a crash of the app before it.                               *)

\* A saved new item mends the configuration.
Mended(c) == IF c.op = "modify" /\ c.manager.ref # NoProtocol THEN {c.manager.id} ELSE {}

\* Ids whose edit is cut off in a crash.
CutOff(cs) == {c.manager.id : c \in {d \in ToSet(cs) : d.op \in {"modify", "remove"}}}

\* (mutant of Referenced: the reference as it was before the migration)
ReferencedBefore(p, its, m) ==
  IF p[m.id].ref # NoRef /\ (world.ios => p[m.id].ref \in DOMAIN its) THEN p[m.id].ref ELSE NoRef

\* passwordRef: on macOS the reference is taken unverified.
Referenced(p, its, m) == IF world.ios /\ m.ref \notin DOMAIN its THEN NoRef ELSE m.ref

\* The requests of create, in the order in which the system lists its configurations.  One
\* that has lost its text is saved before it is removed.
Requests(asked) ==
  {order \in Bijection(1 .. Cardinality(asked), asked) :
     \A k \in DOMAIN order :
       order[k].op = "drop" /\ (\E c \in asked : c.op = "save" /\ c.manager = order[k].manager)
         => k > 1 /\ order[k - 1] = [order[k] EXCEPT !.op = "save"]}

\* The app starts with the preferences p and the keychain as it is: profiles are migrated,
\* managers without an item are removed, all other items are deleted.  `lost' are the
\* profiles for which no item can be made.  (bounds: references and containers left)
Launch(p, lost) ==
  LET migrating == {i \in DOMAIN p : p[i].legacy # NoBody}
      free      == Refs \ (DOMAIN items \cup {p[i].ref : i \in DOMAIN p})
      new       == CHOOSE f \in Injection(migrating \ lost, free) : TRUE
      owner     == AntiFunction(new)
      kept      == [r \in DOMAIN items \cup DOMAIN owner |->
                      IF r \in DOMAIN owner THEN p[owner[r]].legacy ELSE items[r]]
      manager   == [i \in DOMAIN p |->
                      Migrated(Loaded(p, items, i), IF i \in lost THEN NoRef ELSE new[i])]
      listed    == {i \in DOMAIN p : Referenced(p, kept, manager[i]) # NoRef}
      slot      == CHOOSE f \in Injection(listed, Slots) : TRUE
      shown     == AntiFunction(slot)
  IN  /\ Injection(migrating \ lost, free) # {} /\ Injection(listed, Slots) # {}
      /\ items' = [r \in {manager[i].ref : i \in listed} \cap DOMAIN kept |-> kept[r]]
      /\ tunnels' = [c \in DOMAIN shown |->
           LET i == shown[c] IN
           [name |-> p[i].name,
            manager |-> [manager[i] EXCEPT !.available = manager[i].ref \in DOMAIN kept]]]
      /\ calls' \in Requests({Call("save", NoRef, manager[i]) : i \in migrating}
                               \cup {Call("drop", NoRef, manager[i]) : i \in DOMAIN p \ listed})

\* The first n requests have reached the system, the rest is lost with the app.
Relaunch(n, lost) ==
  LET q == AfterCalls(n)[n]
  IN  /\ prefs' = q /\ Launch(q, lost \cap DOMAIN q)
      /\ changed' = FALSE /\ messy' = (lost # {}) /\ refused' = FALSE /\ UNCHANGED world
      /\ failed' = (DOMAIN q) \cap (lost \cup
           (failed \ UNION {Mended(c) : c \in ToSet(SubSeq(calls, 1, n))})
             \cup CutOff(SubSeq(calls, n + 1, Len(calls))))

-----------------------------------------------------------------------------
(* add, modify, remove: up to the request.                                 *)

\* What may go wrong, and the failures that are counted.
May(kind) == kind \in world.mishaps
Fine == UNCHANGED left
Happens(kind) == May(kind) /\ left > 0 /\ left' = left - 1

\* One edit at a time: the view that asked for it waits for the answer.  (bounds:
\* references and containers left in the model; no edit between a refused one, which
\* the code cannot roll back, and the next launch)
MayEdit ==
  /\ EditCalls = {} /\ ~refused
  /\ Cardinality(Refs \ RefsInUse(prefs, Now)) > Cardinality(Ids)
  /\ Slots \ SlotsInUse(Now) # {}

NameTaken(name) == \E c \in DOMAIN tunnels : tunnels[c].name = name

FreshIds == Ids \ (DOMAIN prefs \cup {tunnels[c].manager.id : c \in DOMAIN tunnels}
                     \cup {c.manager.id : c \in AboutManager})

\* When the name is taken the call returns without an answer and nothing changes.
Add(name, body) ==
  /\ MayEdit /\ ~NameTaken(name) /\ FreshIds # {}
  /\ LET ref == NewRef(Now)
         m   == [id |-> Min(FreshIds), name |-> name, ref |-> ref, legacy |-> NoBody,
                 available |-> TRUE, body |-> body]
     IN  \/ /\ Fine /\ items' = WithItem(items, ref, body, NoRef)
            /\ calls' = Append(calls, Call("add", NewSlot(Now), m))
         \/ /\ Happens("item") /\ UNCHANGED items
            /\ calls' = Append(calls, Call("add", NewSlot(Now), [m EXCEPT !.ref = NoProtocol]))
  /\ UNCHANGED <<prefs, tunnels, changed, world, failed, messy, refused>>

\* (mutant of Renamable: a name in use may be taken)
RenamableAtWill(m, name) == TRUE
Renamable(m, name) == name # m.name => ~NameTaken(name)

\* The container is renamed and the item replaced before the save.  Without a
\* change of name or body only the on-demand rules are saved.
Modify(c, name, body) ==
  /\ MayEdit /\ c \in DOMAIN tunnels
  /\ LET m   == tunnels[c].manager
         ref == NewRef(Now)
         new == [m EXCEPT !.name = name, !.body = body, !.available = TRUE, !.legacy = NoBody]
         Asked(op, its, n) ==
           /\ items' = its
           /\ tunnels' = [tunnels EXCEPT ![c] = [name |-> IF name # m.name THEN name ELSE @.name,
                                                 manager |-> n]]
           /\ calls' = Append(calls, Call(op, c, n))
     IN  /\ Renamable(m, name)
         /\ \/ name = m.name /\ body = m.body /\ Fine /\ Asked("rules", items, m)
            \/ /\ name # m.name \/ body # m.body
               /\ \/ Fine /\ Asked("modify", WithItem(items, ref, body, m.ref), [new EXCEPT !.ref = ref])
                  \/ Happens("item") /\ Asked("modify", items, [new EXCEPT !.ref = NoProtocol])
  /\ UNCHANGED <<prefs, changed, world, failed, messy, refused>>

\* The item goes first, if the container believes there is one.
RemoveTunnel(c) ==
  /\ MayEdit /\ c \in DOMAIN tunnels
  /\ LET m == tunnels[c].manager
     IN  /\ items' = IF m.available THEN Without(items, m.ref) ELSE items
         /\ calls' = Append(calls, Call("remove", c, m))
  /\ Fine /\ UNCHANGED <<prefs, tunnels, changed, world, failed, messy, refused>>

-----------------------------------------------------------------------------
(* The answers.                                                            *)

Answered(op) == calls # <<>> /\ Head(calls).op = op

\* The system does what the oldest request asks for, if it can, and reports a
\* change of the configurations.
Succeeds(c) == Fine /\ Possible(prefs, c) /\ prefs' = Stored(prefs, c) /\ changed' = TRUE
Fails(c) ==
  /\ UNCHANGED <<prefs, changed>>
  /\ (~Possible(prefs, c) /\ Fine) \/ (Possible(prefs, c) /\ Happens("save"))

AddReturns ==
  /\ Answered("add")
  /\ LET c == Head(calls)
         m == c.manager
     IN  \/ /\ Succeeds(c)
            /\ tunnels' = With(tunnels, c.slot, [name |-> m.name, manager |-> m])
            /\ UNCHANGED items
         \/ Fails(c) /\ items' = Without(items, m.ref) /\ UNCHANGED tunnels
  /\ calls' = Tail(calls) /\ UNCHANGED <<world, failed, messy, refused>>

\* After a failure the stored configuration refers to an item that is gone.  After
\* a success the container must still be listed: its index is force-unwrapped.
ModifyReturns ==
  /\ Answered("modify") \/ Answered("rules")
  /\ LET c == Head(calls)
     IN  \/ /\ Succeeds(c) /\ c.slot \in DOMAIN tunnels
            /\ calls' = Tail(calls) /\ failed' = failed \ Mended(c)
            /\ UNCHANGED <<items, tunnels, world, messy, refused>>
         \/ /\ Possible(prefs, c) /\ c.slot \notin DOMAIN tunnels
            /\ Fine /\ \E n \in 1 .. Len(calls) : Relaunch(n, {})
         \/ /\ Fails(c) /\ calls' = Tail(calls)
            /\ failed' = (failed \cup IF c.op = "modify" THEN {c.manager.id} ELSE {}) \cap DOMAIN prefs
            /\ messy' = TRUE /\ refused' = TRUE /\ UNCHANGED <<items, tunnels, world>>

RemoveReturns ==
  /\ Answered("remove")
  /\ LET c == Head(calls)
         i == c.manager.id
     IN  \/ /\ Succeeds(c) /\ tunnels' = Without(tunnels, c.slot) /\ failed' = failed \ {i}
         \/ /\ Fails(c) /\ UNCHANGED tunnels /\ failed' = (failed \cup {i}) \cap DOMAIN prefs
  /\ calls' = Tail(calls) /\ UNCHANGED <<items, world, messy, refused>>

\* saveToPreferences { _ in } after a migration, removeFromPreferences { _ in } of
\* create: nobody looks at the outcome.
BackgroundReturns ==
  /\ Answered("save") \/ Answered("drop")
  /\ LET c == Head(calls)
         i == c.manager.id
     IN  \/ Succeeds(c) /\ failed' = failed \cap DOMAIN prefs' /\ UNCHANGED <<messy, refused>>
         \/ /\ Fails(c)
            /\ failed' = IF Possible(prefs, c) THEN failed \cup {i} ELSE failed
            /\ messy' = TRUE /\ refused' = TRUE
  /\ calls' = Tail(calls) /\ UNCHANGED <<items, tunnels, world>>

-----------------------------------------------------------------------------
(* reload.                                                                 *)

\* The notification's handler runs reload(), which asks for the managers (one
\* such request at a time: a bound).
PostReload ==
  /\ changed /\ changed' = FALSE
  /\ \A c \in ToSet(calls) : c.op # "load"
  /\ calls' = Append(calls, Load)
  /\ Fine /\ UNCHANGED <<prefs, items, tunnels, world, failed, messy, refused>>

\* (mutant of Equivalent: the names of readable configurations are not compared)
EquivalentByBody(m, c) ==
  /\ m.available = c.manager.available
  /\ IF m.available THEN m.body = c.manager.body ELSE m.name = c.name

\* NETunnelProviderManager.isEquivalentTo.
Equivalent(m, c) ==
  /\ m.available = c.manager.available
  /\ IF m.available THEN m.name = c.manager.name /\ m.body = c.manager.body
     ELSE m.name = c.name

\* One loaded manager takes the place of the manager of an equivalent container, or
\* gets a new container.  Its availability is cached when it is compared with
\* anything, that is before a migration.
Matched(lost, s, i) ==
  LET m    == Loaded(prefs, s.items, i)
      like == {c \in DOMAIN s.tunnels : Equivalent(m, s.tunnels[c])}
      x    == Migrated(m, IF i \in lost THEN NoRef ELSE NewRef(s))
      its  == IF m.legacy = NoBody \/ i \in lost THEN s.items ELSE With(s.items, x.ref, m.legacy)
      new  == [x EXCEPT !.available =
                 IF s.compared \/ DOMAIN s.tunnels # {} THEN m.available ELSE x.ref \in DOMAIN its]
  IN  IF like # {} THEN [s EXCEPT !.tunnels[Min(like)].manager = m]
      ELSE [s EXCEPT !.items = its,
                     !.tunnels = With(@, NewSlot(s), [name |-> m.name, manager |-> new]),
                     !.calls = IF m.legacy = NoBody THEN @ ELSE Append(@, Call("save", NoRef, x))]

\* The list while the loaded managers are gone through; those of `lost' cannot be migrated.
Reloading(order, lost) ==
  LET like(c) == \E i \in DOMAIN prefs : Equivalent(Loaded(prefs, items, i), tunnels[c])
      start   == [items |-> items,
                  tunnels |-> [c \in {d \in DOMAIN tunnels : like(d)} |-> tunnels[c]],
                  calls |-> Tail(calls), compared |-> DOMAIN tunnels # {}]
      s[k \in 0 .. Len(order)] == IF k = 0 THEN start ELSE Matched(lost, s[k - 1], order[k])
  IN  s

\* (bounds: references and containers left)
Room(s) == Refs \ RefsInUse(prefs, s) # {} /\ Slots \ SlotsInUse(s) # {}

\* The system lists its configurations in any order.
Reload(lost) ==
  /\ Answered("load")
  /\ \E order \in Bijection(1 .. Cardinality(DOMAIN prefs), DOMAIN prefs) :
       LET s == Reloading(order, lost) IN
       /\ \A k \in 1 .. Len(order) : Room(s[k - 1])
       /\ items' = s[Len(order)].items /\ tunnels' = s[Len(order)].tunnels
       /\ calls' = s[Len(order)].calls
  /\ failed' = failed \cup lost /\ messy' = (messy \/ lost # {})
  /\ UNCHANGED <<prefs, changed, world, refused>>

-----------------------------------------------------------------------------
(* Mishaps.                                                                *)

Legacy == {i \in DOMAIN prefs : prefs[i].legacy # NoBody}

\* The app is closed, or killed, and started again; the system has seen some of its
\* requests.
Crash ==
  \/ calls = <<>> /\ Fine /\ Relaunch(0, {})
  \/ May("crash") /\ Fine /\ \E n \in 0 .. Len(calls) : Relaunch(n, {})
  \/ Happens("item") /\ Legacy # {} /\ \E n \in 0 .. Len(calls) : Relaunch(n, Legacy)

DeletedOutside(i) ==
  /\ Happens("deleted") /\ i \in DOMAIN prefs
  /\ prefs' = Without(prefs, i) /\ changed' = TRUE /\ messy' = TRUE /\ failed' = failed \ {i}
  /\ UNCHANGED <<items, tunnels, calls, world, refused>>

\* A profile (.mobileconfig) brings its configuration along as text, under a name
\* of its own.
AddedOutside(name, body) ==
  /\ Happens("added") /\ FreshIds # {}
  /\ \A i \in DOMAIN prefs : prefs[i].name # name
  /\ prefs' = With(prefs, Min(FreshIds), [name |-> name, ref |-> NoRef, legacy |-> body, saved |-> body])
  /\ changed' = TRUE /\ messy' = TRUE
  /\ UNCHANGED <<items, tunnels, calls, world, failed, refused>>

-----------------------------------------------------------------------------
\* First launch.
Init ==
  /\ prefs = <<>> /\ items = <<>> /\ tunnels = <<>> /\ calls = <<>> /\ changed = FALSE
  /\ world \in Worlds /\ left = world.most /\ failed = {} /\ messy = FALSE /\ refused = FALSE

Edit ==
  \/ \E name \in Names, body \in Bodies : Add(name, body)
  \/ \E c \in DOMAIN tunnels :
       \/ \E name \in Names \cup {tunnels[c].name}, body \in Bodies : Modify(c, name, body)
       \/ RemoveTunnel(c)

Outside ==
  \/ \E name \in ProfileNames, body \in Bodies : AddedOutside(name, body)
  \/ \E i \in Ids : DeletedOutside(i)

Next ==
  \/ Edit \/ AddReturns \/ ModifyReturns \/ RemoveReturns \/ BackgroundReturns
  \/ PostReload \/ (Reload({}) /\ Fine) \/ (Legacy # {} /\ Happens("item") /\ Reload(Legacy))
  \/ Crash \/ Outside

Spec == Init /\ [][Next]_vars

-----------------------------------------------------------------------------
(* Properties.                                                             *)

\* Type correctness; a configuration said to be available has been read.
TypeOK ==
  /\ DOMAIN prefs \subseteq Ids /\ \A i \in DOMAIN prefs : prefs[i] \in Entries
  /\ DOMAIN items \subseteq Refs /\ \A r \in DOMAIN items : items[r] \in Bodies
  /\ DOMAIN tunnels \subseteq Slots /\ \A c \in DOMAIN tunnels : tunnels[c] \in Containers
  /\ \A c \in DOMAIN tunnels : tunnels[c].manager.available => tunnels[c].manager.body # NoBody
  /\ \A c \in ToSet(calls) : c = Load \/ (c.op \in Ops /\ c.manager \in Managers)
  /\ changed \in BOOLEAN /\ failed \subseteq Ids /\ messy \in BOOLEAN

\* What was saved last can be read back: a stored configuration refers to an item
\* that exists and holds the body last saved, unless an edit of it is under way or
\* went wrong.  No step on another tunnel and no launch takes the item away.
SavedIsKept ==
  \A i \in DOMAIN prefs \ (failed \cup BeingEdited) :
    LET e == prefs[i]
    IN  IF e.legacy # NoBody THEN e.legacy = e.saved
        ELSE e.ref \in DOMAIN items /\ items[e.ref] = e.saved

\* No private key is left behind in the keychain: every item belongs to a stored
\* configuration or to one being saved, until an edit fails or something happens
\* outside the app; after the next launch this is so again.
NothingLeftBehind ==
  messy \/ \A r \in DOMAIN items :
             \/ \E i \in DOMAIN prefs : prefs[i].ref = r
             \/ \E c \in AboutManager : c.manager.ref = r

\* When nothing is under way, the list shows each stored configuration once, under
\* its name and with its item, and nothing else.
ListIsStored ==
  calls = <<>> /\ ~changed =>
    /\ \A i \in DOMAIN prefs \ failed :
         \E c \in DOMAIN tunnels :
           /\ tunnels[c].name = prefs[i].name /\ tunnels[c].manager.ref = prefs[i].ref
           /\ \A d \in DOMAIN tunnels : tunnels[d].manager.id = i <=> d = c
    /\ \A c \in DOMAIN tunnels : tunnels[c].manager.id \in DOMAIN prefs

\* No two usable tunnels have the same name, in the list or stored, whatever is
\* renamed, reloaded or cut off in between.
NamesAreUnique ==
  LET usable == {c \in DOMAIN tunnels : tunnels[c].manager.available}
  IN  /\ \A c, d \in usable : tunnels[c].name = tunnels[d].name => c = d
      /\ \A i, j \in DOMAIN prefs \ failed : prefs[i].name = prefs[j].name => i = j

\* "Tunnel was deleted outside the app": a reload drops only containers whose
\* configuration is no longer stored.
DroppedWasDeleted ==
  [][Answered("load") /\ calls' = Tail(calls) =>
       \A c \in DOMAIN tunnels \ DOMAIN tunnels' : tunnels[c].manager.id \notin DOMAIN prefs]_vars
=============================================================================
