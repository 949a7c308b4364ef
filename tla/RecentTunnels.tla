---------------------------- MODULE RecentTunnels ----------------------------
(***************************************************************************)
(* RecentTunnelsTracker, as TunnelsManager calls it in the iOS build: the  *)
(* names of the tunnels activated last, kept in the user defaults across   *)
(* launches.  Tunnels deleted outside the app are not reported to it until *)
(* the next launch.                                                        *)
(***************************************************************************)
EXTENDS Integers, SequencesExt, Filtering

CONSTANTS
  Names,
  MaxNumberOfTunnels,   \* 10
  MaxActivations        \* bound on the activations

ASSUME RecentAssumption == MaxNumberOfTunnels \in Nat

VARIABLES
  tunnels,   \* the names of the tunnels in the list
  recent,    \* recentlyActivatedTunnelNames
  last,      \* when each tunnel was last activated, or 0
  stale,     \* names whose entries may be of tunnels deleted outside since the launch
  now        \* the number of activations so far

recentVars == <<tunnels, recent, last, stale, now>>

RecentInit ==
  /\ tunnels \in SUBSET Names
  /\ recent = <<>> /\ last = [n \in Names |-> 0] /\ stale = {} /\ now = 0

Shortened(names) == SubSeq(names, 1, IF Len(names) > MaxNumberOfTunnels
                                     THEN MaxNumberOfTunnels ELSE Len(names))

\* Mutant: a name that is listed already stays where it is.
InFrontUnlessListed(n) ==
  IF n \in Range(recent) THEN recent ELSE Shortened(<<n>> \o recent)

InFront(n) == Shortened(<<n>> \o RemoveFirst(recent, n))

\* handleTunnelActivated, from startActivation(of:) unless the tunnel has to wait.
Activate(n) ==
  /\ n \in tunnels /\ now < MaxActivations
  /\ now' = now + 1 /\ last' = [last EXCEPT ![n] = now + 1]
  /\ recent' = InFront(n)
  /\ UNCHANGED <<tunnels, stale>>

\* A tunnel is added under a free name.
Add(n) ==
  /\ n \notin tunnels /\ tunnels' = tunnels \cup {n}
  /\ last' = [last EXCEPT ![n] = 0]
  /\ UNCHANGED <<recent, stale, now>>

\* handleTunnelRemoved
RemoveTunnel(n) ==
  /\ n \in tunnels /\ tunnels' = tunnels \ {n}
  /\ recent' = RemoveFirst(recent, n)
  /\ UNCHANGED <<last, stale, now>>

\* handleTunnelRenamed: the name keeps its place.
Rename(old, new) ==
  /\ old \in tunnels /\ new \notin tunnels
  /\ tunnels' = (tunnels \ {old}) \cup {new}
  /\ recent' = IF old \in Range(recent)
               THEN [recent EXCEPT ![SelectInSeq(recent, LAMBDA n : n = old)] = new] ELSE recent
  /\ last' = [last EXCEPT ![new] = last[old]]
  /\ stale' = IF old \in stale THEN stale \cup {new} ELSE stale
  /\ UNCHANGED now

\* reload drops a container; the tracker is not told (reload).
DeletedOutside(n) ==
  /\ n \in tunnels /\ tunnels' = tunnels \ {n} /\ stale' = stale \cup {n}
  /\ UNCHANGED <<recent, last, now>>

\* cleanupTunnels, when the app is launched.
Launch ==
  /\ recent' = Kept(recent, tunnels)
  /\ stale' = stale \cap tunnels
  /\ UNCHANGED <<tunnels, last, now>>

RecentNext ==
  \/ \E n \in Names :
       \/ Activate(n) \/ Add(n) \/ RemoveTunnel(n) \/ DeletedOutside(n)
       \/ \E new \in Names : Rename(n, new)
  \/ Launch

RecentSpec == RecentInit /\ [][RecentNext]_recentVars
-----------------------------------------------------------------------------
\* The tunnels in the recent list stand in the order of their last activations, the newest
\* first and none twice, and a tunnel that is not in the list is older than all that are,
\* through renaming, removal and the list's limit.  Only names of tunnels deleted outside
\* the app, and tunnels that took over such a name, may be out of place or twice.
NewestFirst ==
  \A i \in DOMAIN recent : recent[i] \in stale \/
    /\ \A j \in DOMAIN recent :
         i < j /\ recent[j] \notin stale => last[recent[i]] > last[recent[j]]
    /\ \A n \in tunnels \ (stale \cup Range(recent)) : last[n] < last[recent[i]]
=============================================================================
