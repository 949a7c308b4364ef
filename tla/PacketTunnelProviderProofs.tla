--------------------- MODULE PacketTunnelProviderProofs ---------------------
(***************************************************************************)
(* A provider's handle is that of its own device, and no device is left    *)
(* behind by a stop that comes after the start's answer: for every number  *)
(* of sessions, in one process or several, of both builds.                 *)
(***************************************************************************)
EXTENDS PacketTunnelProvider, FiniteSetTheorems, WellFoundedInduction, TLAPS

\* The state of a session, and of the error file.
Provider ==
  [stage : {"idle", "asked", "settings", "opening", "done"}, app : BOOLEAN,
   answer : Errors \cup {None, "up"}, stopped : {"no", "before", "after"}, handle : Int,
   monitor : {None, "on", "cancelled"}, queued : BOOLEAN,
   update : [handle : Int, path : Nat], read : Nat, since : Nat,
   shown : Errors \cup {None, "activationFailed"}]

Type ==
  /\ provider \in [Sessions -> Provider]
  /\ alive \subseteq Sessions /\ devices \subseteq Sessions
  /\ path \in Nat
  /\ errorFile.error \in Errors \cup {None}

\* The table of handles is a finite function on numbers.
Numbered ==
  /\ tunnelHandles \in [DOMAIN tunnelHandles -> Sessions]
  /\ DOMAIN tunnelHandles \subseteq Nat /\ IsFiniteSet(DOMAIN tunnelHandles)

\* A start is answered once, at its end; a handle and a device come with the answer,
\* and only then can a stop come after it.
InOrder ==
  \A s \in Sessions :
    /\ provider[s].answer # None => provider[s].stage = "done"
    /\ provider[s].answer # "up" => provider[s].handle = -1
    /\ provider[s].stopped = "after" => provider[s].answer = "up"
    /\ s \in alive => provider[s].stage \notin {"idle", "asked"}
    /\ s \in devices => provider[s].stage = "done"

ProviderInv == Type /\ Numbered /\ InOrder /\ HandleIsOwn /\ NoDeviceLingers
-----------------------------------------------------------------------------
\* A finite set of numbers leaves one out that is not greater than their number.
LEMMA FreeNumber ==
  ASSUME NEW S \in SUBSET Nat, IsFiniteSet(S)
  PROVE  \E h \in 0..Cardinality(S) : h \notin S
<1> DEFINE n == Cardinality(S)
<1>1. n \in Nat
  BY FS_CardinalityType
<1>2. SUFFICES ASSUME 0..n \subseteq S PROVE FALSE
  OBVIOUS
<1>3. Cardinality(0..n) <= n
  BY <1>2, FS_Subset
<1>4. Cardinality(0..n) = n + 1
  BY <1>1, FS_Interval
<1> QED
  BY <1>1, <1>3, <1>4

\* Of such numbers there is a least one.
LEMMA LeastFreeNumber ==
  ASSUME NEW S \in SUBSET Nat, IsFiniteSet(S)
  PROVE  \E h \in 0..Cardinality(S) : h \notin S /\ \A g \in 0..(h - 1) : g \in S
<1> DEFINE T == {h \in 0..Cardinality(S) : h \notin S}
<1>1. Cardinality(S) \in Nat
  BY FS_CardinalityType
<1>2. T \subseteq Nat /\ T # {}
  BY <1>1, FreeNumber
<1>3. PICK h \in T : \A g \in T : ~(<<g, h>> \in OpToRel(<, Nat))
  BY <1>2, NatLessThanWellFounded, WFMin
<1>4. \A g \in T : ~(g < h)
  BY <1>2, <1>3 DEF OpToRel
<1>5. \A g \in 0..(h - 1) : g \in S
  BY <1>1, <1>2, <1>4
<1> QED
  BY <1>3, <1>5

\* wgTurnOn's number is free.
LEMMA SmallestFreeIsFree ==
  ASSUME Numbered
  PROVE  SmallestFree \in Nat /\ SmallestFree \notin DOMAIN tunnelHandles
<1>1. Cardinality(DOMAIN tunnelHandles) \in Nat
  BY FS_CardinalityType DEF Numbered
<1>2. /\ SmallestFree \in 0..Cardinality(DOMAIN tunnelHandles)
      /\ SmallestFree \notin DOMAIN tunnelHandles
  BY LeastFreeNumber DEF SmallestFree, Numbered
<1> QED
  BY <1>1, <1>2
-----------------------------------------------------------------------------
\* No session has begun, and there are no devices.
LEMMA ProviderInit ==
  ASSUME Init PROVE ProviderInv
<1>1. Type
  BY DEF Init, Type, Provider, Fresh, NoUpdate, NoFile, None, Errors
<1>2. Numbered
  <2>1. IsFiniteSet({})
    BY FS_EmptySet
  <2> QED
    BY <2>1 DEF Init, Numbered, Nothing
<1>3. InOrder /\ HandleIsOwn /\ NoDeviceLingers
  BY DEF Init, InOrder, HandleIsOwn, NoDeviceLingers, Fresh, None
<1> QED
  BY <1>1, <1>2, <1>3 DEF ProviderInv

\* What changes a session's own state p only, and nothing of its answer, stop and handle.
LEMMA Bystander ==
  ASSUME ProviderInv, NEW s \in Sessions, NEW p \in Provider,
         provider' = [provider EXCEPT ![s] = p],
         UNCHANGED <<alive, tunnelHandles, devices, path, errorFile>>,
         p.answer = provider[s].answer, p.stopped = provider[s].stopped,
         p.handle = provider[s].handle,
         provider[s].stage = "done" => p.stage = "done",
         s \in alive => p.stage \notin {"idle", "asked"}
  PROVE  ProviderInv'
<1>1. Type'
  BY DEF ProviderInv, Type
<1>2. provider'[s] = p /\ \A r \in Sessions \ {s} : provider'[r] = provider[r]
  BY DEF ProviderInv, Type
<1>3. Numbered'
  BY DEF ProviderInv, Numbered
<1>4. InOrder'
  BY <1>2 DEF ProviderInv, InOrder
<1>5. HandleIsOwn'
  BY <1>2 DEF ProviderInv, HandleIsOwn, Type
<1>6. NoDeviceLingers'
  BY <1>2 DEF ProviderInv, NoDeviceLingers, Type
<1> QED
  BY <1>1, <1>3, <1>4, <1>5, <1>6 DEF ProviderInv

\* The app's request changes nothing in the extension.
LEMMA AppAsksKeeps ==
  ASSUME ProviderInv, NEW s \in Sessions, AppAsks(s) PROVE ProviderInv'
<1> DEFINE p == [provider[s] EXCEPT !.stage = "asked", !.app = TRUE]
<1>1. provider[s] \in Provider
  BY DEF ProviderInv, Type
<1>2. p \in Provider /\ p.answer = provider[s].answer /\ p.stopped = provider[s].stopped
      /\ p.handle = provider[s].handle
  BY <1>1 DEF Provider
<1>3. s \notin alive /\ provider[s].stage = "idle"
  BY DEF ProviderInv, InOrder, AppAsks, IsNext
<1> QED
  BY <1>2, <1>3, Bystander DEF AppAsks

\* A session whose extension is not launched leaves nothing.
LEMMA NotLaunchedKeeps ==
  ASSUME ProviderInv, NEW s \in Sessions, NotLaunched(s) PROVE ProviderInv'
<1> DEFINE p == [provider[s] EXCEPT !.stage = "done"]
<1>1. provider[s] \in Provider
  BY DEF ProviderInv, Type
<1>2. p \in Provider /\ p.answer = provider[s].answer /\ p.stopped = provider[s].stopped
      /\ p.handle = provider[s].handle /\ p.stage = "done"
  BY <1>1 DEF Provider
<1> QED
  BY <1>2, Bystander DEF NotLaunched

\* A path update reads the handle.
LEMMA UpdateBeginsKeeps ==
  ASSUME ProviderInv, NEW s \in Sessions, UpdateBegins(s) PROVE ProviderInv'
<1> DEFINE u == IF provider[s].handle = -1 THEN NoUpdate
                ELSE [handle |-> provider[s].handle, path |-> path]
           p == [provider[s] EXCEPT !.queued = FALSE, !.update = u]
<1>1. provider[s] \in Provider /\ path \in Nat
  BY DEF ProviderInv, Type
<1>2. u \in [handle : Int, path : Nat]
  BY <1>1 DEF Provider, NoUpdate
<1>3. p \in Provider /\ p.answer = provider[s].answer /\ p.stopped = provider[s].stopped
      /\ p.handle = provider[s].handle /\ p.stage = provider[s].stage
  BY <1>1, <1>2 DEF Provider
<1>4. /\ provider' = [provider EXCEPT ![s] = p]
      /\ UNCHANGED <<alive, tunnelHandles, devices, path, errorFile>>
  BY DEF UpdateBegins
<1>5. s \in alive => p.stage \notin {"idle", "asked"}
  BY <1>3 DEF ProviderInv, InOrder
<1> HIDE DEF p
<1> QED
  BY <1>3, <1>4, <1>5, Bystander

\* A path update sets endpoints only.
LEMMA UpdateEndsKeeps ==
  ASSUME ProviderInv, NEW s \in Sessions, UpdateEnds(s) PROVE ProviderInv'
<1> DEFINE p == [provider[s] EXCEPT !.update = NoUpdate]
<1>1. provider[s] \in Provider
  BY DEF ProviderInv, Type
<1>2. p \in Provider /\ p.answer = provider[s].answer /\ p.stopped = provider[s].stopped
      /\ p.handle = provider[s].handle /\ p.stage = provider[s].stage
  BY <1>1 DEF Provider, NoUpdate
<1> QED
  BY <1>2, Bystander DEF UpdateEnds, ProviderInv, InOrder

\* The app only reads the error file.
LEMMA AppShowsKeeps ==
  ASSUME ProviderInv, NEW s \in Sessions, AppShows(s) PROVE ProviderInv'
<1> DEFINE p == [provider[s] EXCEPT !.shown = LastErrorText(s)]
<1>1. LastErrorText(s) \in Errors \cup {None, "activationFailed"}
  BY DEF ProviderInv, Type, LastErrorText
<1>2. provider[s] \in Provider
  BY DEF ProviderInv, Type
<1>3. p \in Provider /\ p.answer = provider[s].answer /\ p.stopped = provider[s].stopped
      /\ p.handle = provider[s].handle /\ p.stage = provider[s].stage
  BY <1>1, <1>2 DEF Provider
<1>4. /\ provider' = [provider EXCEPT ![s] = p]
      /\ UNCHANGED <<alive, tunnelHandles, devices, path, errorFile>>
  BY DEF AppShows
<1>5. s \in alive => p.stage \notin {"idle", "asked"}
  BY <1>3 DEF ProviderInv, InOrder
<1> HIDE DEF p
<1> QED
  BY <1>3, <1>4, <1>5, Bystander

\* A start goes on, or ends with an error; then a device is left only by the backend.
LEMMA StartGoesOn ==
  ASSUME ProviderInv, NEW s \in Sessions, NEW p \in Provider,
         provider[s].stage # "done",
         provider' = [provider EXCEPT ![s] = p],
         p.answer # "up", p.handle = provider[s].handle, p.stopped = provider[s].stopped,
         p.answer # None => p.stage = "done",
         p.stage \notin {"idle", "asked"},
         alive' \in {alive, alive \cup {s}}, UNCHANGED <<tunnelHandles, path>>,
         devices' \in {devices, devices \cup {s}},
         s \in devices' => p.answer = "couldNotStartBackend" /\ p.stage = "done",
         errorFile'.error \in Errors \cup {None}
  PROVE  ProviderInv'
<1>1. Type'
  BY DEF ProviderInv, Type
<1>2. provider'[s] = p /\ \A r \in Sessions \ {s} : provider'[r] = provider[r]
  BY DEF ProviderInv, Type
<1>3. Numbered'
  BY DEF ProviderInv, Numbered
<1>4. provider[s].answer # "up" /\ provider[s].stopped # "after" /\ provider[s].handle = -1
  BY DEF ProviderInv, InOrder, None
<1>5. InOrder'
  BY <1>2, <1>4 DEF ProviderInv, InOrder
<1>6. HandleIsOwn'
  BY <1>2 DEF ProviderInv, HandleIsOwn, Type
<1>7. NoDeviceLingers'
  BY <1>2 DEF ProviderInv, NoDeviceLingers, Type
<1> QED
  BY <1>1, <1>3, <1>5, <1>6, <1>7 DEF ProviderInv

\* What an answer with an error makes of a session.
LEMMA AnsweredIs ==
  ASSUME ProviderInv, NEW s \in Sessions, NEW e \in Errors
  PROVE  /\ Answered(s, e) \in Provider
         /\ Answered(s, e).stage = "done" /\ Answered(s, e).answer = e
         /\ Answered(s, e).handle = provider[s].handle
         /\ Answered(s, e).stopped = provider[s].stopped
         /\ Noted(s, e).error \in Errors \cup {None}
<1>1. provider[s] \in Provider
  BY DEF ProviderInv, Type
<1> QED
  BY <1>1 DEF Answered, Provider, Noted, NoFile

\* The path monitor changes nothing that the invariant is about.
LEMMA MonitoredIs ==
  ASSUME NEW p \in Provider
  PROVE  /\ Monitored(p) \in Provider
         /\ Monitored(p).stage = p.stage /\ Monitored(p).answer = p.answer
         /\ Monitored(p).handle = p.handle /\ Monitored(p).stopped = p.stopped
BY DEF Monitored, Provider

\* A start begins, or fails before the settings.
LEMMA StartTunnelKeeps ==
  ASSUME ProviderInv, NEW s \in Sessions, StartTunnel(s) PROVE ProviderInv'
<1>1. provider[s].stage \in {"idle", "asked"} /\ s \notin devices
  BY DEF ProviderInv, InOrder, StartTunnel, IsNext
<1>u. alive' = alive \cup {s} /\ UNCHANGED <<tunnelHandles, path, devices>>
  BY DEF StartTunnel
<1>2. ASSUME NEW e \in Errors, provider' = [provider EXCEPT ![s] = Answered(s, e)],
             errorFile' = Noted(s, e)
      PROVE  ProviderInv'
  <2> DEFINE p == Answered(s, e)
  <2>1. e # "up" /\ e # None
    BY DEF Errors, None
  <2>2. p \in Provider /\ p.stage = "done" /\ p.answer = e
        /\ p.handle = provider[s].handle /\ p.stopped = provider[s].stopped
    BY AnsweredIs
  <2>3. provider' = [provider EXCEPT ![s] = p] /\ errorFile'.error \in Errors \cup {None}
    BY <1>2, AnsweredIs
  <2> HIDE DEF p
  <2> QED
    BY <1>1, <1>u, <2>1, <2>2, <2>3, StartGoesOn
<1>3. ASSUME provider' = [provider EXCEPT ![s].stage = "settings"], errorFile' = NoFile
      PROVE  ProviderInv'
  <2> DEFINE p == [provider[s] EXCEPT !.stage = "settings"]
  <2>1. provider[s] \in Provider
    BY DEF ProviderInv, Type
  <2>2. p \in Provider /\ p.stage = "settings" /\ p.answer = provider[s].answer
        /\ p.handle = provider[s].handle /\ p.stopped = provider[s].stopped
    BY <2>1 DEF Provider
  <2>3. provider[s].answer = None
    BY <1>1 DEF ProviderInv, InOrder
  <2>4. provider' = [provider EXCEPT ![s] = p] /\ errorFile'.error \in Errors \cup {None}
    BY <1>3 DEF NoFile
  <2> HIDE DEF p
  <2> QED
    BY <1>1, <1>u, <2>2, <2>3, <2>4, StartGoesOn DEF None
<1> QED
  BY <1>2, <1>3 DEF StartTunnel, Errors

\* The settings come back, with or without an error.
LEMMA SettingsReturnKeeps ==
  ASSUME ProviderInv, NEW s \in Sessions, SettingsReturn(s) PROVE ProviderInv'
<1>1. provider[s].stage = "settings" /\ s \notin devices /\ provider[s].answer = None
  BY DEF ProviderInv, InOrder, SettingsReturn
<1>u. UNCHANGED <<alive, tunnelHandles, path, devices>>
  BY DEF SettingsReturn
<1>2. ASSUME NEW e \in Errors, NEW p \in {Answered(s, e), Monitored(Answered(s, e))},
             Fail(s, e, p)
      PROVE  ProviderInv'
  <2>1. p \in Provider /\ p.stage = "done" /\ p.answer = e
        /\ p.handle = provider[s].handle /\ p.stopped = provider[s].stopped
    BY <1>2, AnsweredIs, MonitoredIs
  <2>2. errorFile'.error \in Errors \cup {None}
    BY <1>2, AnsweredIs DEF Fail, ProviderInv, Type
  <2>3. e # "up"
    BY DEF Errors
  <2> QED
    BY <1>1, <1>u, <1>2, <2>1, <2>2, <2>3, StartGoesOn DEF Fail
<1>3. ASSUME UNCHANGED errorFile,
             provider' = [provider EXCEPT ![s] =
               Monitored([@ EXCEPT !.stage = "opening", !.read = path])]
      PROVE  ProviderInv'
  <2> DEFINE q == [provider[s] EXCEPT !.stage = "opening", !.read = path]
  <2>1. provider[s] \in Provider /\ path \in Nat
    BY DEF ProviderInv, Type
  <2>2. q \in Provider /\ q.stage = "opening" /\ q.answer = provider[s].answer
        /\ q.handle = provider[s].handle /\ q.stopped = provider[s].stopped
    BY <2>1 DEF Provider
  <2>3. provider' = [provider EXCEPT ![s] = Monitored(q)]
    BY <1>3
  <2>5. /\ Monitored(q) \in Provider /\ Monitored(q).stage = "opening"
        /\ Monitored(q).answer = None /\ Monitored(q).handle = provider[s].handle
        /\ Monitored(q).stopped = provider[s].stopped
    BY <1>1, <2>2, MonitoredIs
  <2>4. errorFile'.error \in Errors \cup {None}
    BY <1>3 DEF ProviderInv, Type
  <2> HIDE DEF q
  <2> QED
    BY <1>1, <1>u, <2>3, <2>4, <2>5, StartGoesOn DEF None
<1> QED
  BY <1>2, <1>3 DEF SettingsReturn, Errors

\* wgTurnOn succeeds: the device and its number are new.
LEMMA TurnedOnKeeps ==
  ASSUME ProviderInv, NEW s \in Sessions, s \in alive, provider[s].stage = "opening",
         NEW p \in Provider, provider' = [provider EXCEPT ![s] = p],
         p.stage = "done", p.answer = "up", p.handle = SmallestFree,
         p.stopped = provider[s].stopped,
         TurnOn(s), UNCHANGED <<alive, path, errorFile>>
  PROVE  ProviderInv'
<1> USE DEF TurnOn
<1>1. Type'
  BY DEF ProviderInv, Type
<1>2. provider'[s] = p /\ \A r \in Sessions \ {s} : provider'[r] = provider[r]
  BY DEF ProviderInv, Type
<1>3. SmallestFree \in Nat /\ SmallestFree \notin DOMAIN tunnelHandles
  BY SmallestFreeIsFree DEF ProviderInv
<1>4. Numbered'
  <2>1. DOMAIN tunnelHandles' = DOMAIN tunnelHandles \cup {SmallestFree}
    OBVIOUS
  <2>2. IsFiniteSet(DOMAIN tunnelHandles \cup {SmallestFree})
    BY FS_AddElement DEF ProviderInv, Numbered
  <2>3. tunnelHandles' \in [DOMAIN tunnelHandles' -> Sessions]
    BY <2>1 DEF ProviderInv, Numbered
  <2>4. IsFiniteSet(DOMAIN tunnelHandles')
    BY <2>1, <2>2
  <2>5. DOMAIN tunnelHandles' \subseteq Nat
    BY <1>3, <2>1 DEF ProviderInv, Numbered
  <2> QED
    BY <2>3, <2>4, <2>5 DEF Numbered
<1>5. provider[s].answer = None /\ provider[s].stopped # "after" /\ s \notin devices
  BY DEF ProviderInv, InOrder, None
<1>6. InOrder'
  BY <1>2, <1>5 DEF ProviderInv, InOrder, None
<1>7. HandleIsOwn'
  BY <1>2, <1>3 DEF ProviderInv, HandleIsOwn, Type
<1>8. NoDeviceLingers'
  BY <1>2, <1>5 DEF ProviderInv, NoDeviceLingers, Type
<1> QED
  BY <1>1, <1>4, <1>6, <1>7, <1>8 DEF ProviderInv

\* The backend fails, or the start is answered.
LEMMA OpenKeeps ==
  ASSUME ProviderInv, NEW s \in Sessions, Open(s) PROVE ProviderInv'
<1>1. /\ s \in alive /\ provider[s].stage = "opening"
      /\ UNCHANGED <<alive, path>>
  BY DEF Open
<1>2. s \notin devices
  BY <1>1 DEF ProviderInv, InOrder
<1>3. ASSUME Fail(s, "couldNotStartBackend", Answered(s, "couldNotStartBackend")),
             devices' \in {devices, devices \cup {s}}, UNCHANGED tunnelHandles
      PROVE  ProviderInv'
  <2> DEFINE p == Answered(s, "couldNotStartBackend")
  <2>1. p \in Provider /\ p.stage = "done" /\ p.answer = "couldNotStartBackend"
        /\ p.handle = provider[s].handle /\ p.stopped = provider[s].stopped
    BY AnsweredIs DEF Errors
  <2>2. Noted(s, "couldNotStartBackend").error \in Errors \cup {None}
    BY AnsweredIs DEF Errors
  <2>3. provider' = [provider EXCEPT ![s] = p] /\ errorFile'.error \in Errors \cup {None}
    BY <1>3, <2>2 DEF Fail, ProviderInv, Type
  <2> HIDE DEF p
  <2> QED
    BY <1>1, <1>2, <1>3, <2>1, <2>3, StartGoesOn
<1>4. ASSUME TurnOn(s), UNCHANGED errorFile,
             provider' = [provider EXCEPT ![s] =
               [Answered(s, "up") EXCEPT !.handle = SmallestFree, !.since = path]]
      PROVE  ProviderInv'
  <2> DEFINE a == Answered(s, "up")
             h == SmallestFree
             p == [a EXCEPT !.handle = h, !.since = path]
  <2>1. provider[s] \in Provider /\ path \in Nat /\ h \in Int
    BY SmallestFreeIsFree DEF ProviderInv, Type
  <2>2. a \in Provider /\ a.stage = "done" /\ a.answer = "up" /\ a.stopped = provider[s].stopped
    BY <2>1 DEF Answered, Provider
  <2>3. provider' = [provider EXCEPT ![s] = p]
    BY <1>4
  <2>4. h = SmallestFree
    OBVIOUS
  <2> HIDE DEF a, h
  <2>5. p \in Provider /\ p.stage = "done" /\ p.answer = "up" /\ p.handle = h
        /\ p.stopped = provider[s].stopped
    BY <2>1, <2>2 DEF Provider
  <2> HIDE DEF p
  <2> QED
    BY <1>1, <1>4, <2>3, <2>4, <2>5, TurnedOnKeeps
<1> QED
  BY <1>3, <1>4 DEF Open

\* What stopTunnel makes of the sessions.
LEMMA StoppedIs ==
  ASSUME ProviderInv, NEW s \in Sessions
  PROVE  /\ Stopped(s) \in [Sessions -> Provider]
         /\ \A r \in Sessions :
              /\ Stopped(s)[r].stage = provider[r].stage /\ Stopped(s)[r].answer = provider[r].answer
              /\ Stopped(s)[r].handle = provider[r].handle
              /\ r # s => Stopped(s)[r] = provider[r]
         /\ Stopped(s)[s].stopped = IF provider[s].answer = None THEN "before" ELSE "after"
<1> DEFINE p == [provider[s] EXCEPT
                   !.stopped = IF provider[s].answer = None THEN "before" ELSE "after",
                   !.monitor = IF provider[s].monitor = "on" THEN "cancelled"
                               ELSE provider[s].monitor]
<1>1. provider[s] \in Provider /\ provider \in [Sessions -> Provider]
  BY DEF ProviderInv, Type
<1>2. p \in Provider /\ p.stage = provider[s].stage /\ p.answer = provider[s].answer
      /\ p.handle = provider[s].handle
      /\ p.stopped = IF provider[s].answer = None THEN "before" ELSE "after"
  BY <1>1 DEF Provider
<1>3. Stopped(s) = [provider EXCEPT ![s] = p]
  BY DEF Stopped
<1> HIDE DEF p
<1> QED
  BY <1>1, <1>2, <1>3

\* With the process, its handles and devices end.
LEMMA ProcessEndsKeeps ==
  ASSUME ProviderInv, NEW q \in [Sessions -> Provider], ProcessEnds(q),
         \A s \in Sessions : /\ q[s].stage = provider[s].stage /\ q[s].answer = provider[s].answer
                             /\ q[s].handle = provider[s].handle
                             /\ q[s].stopped = "after" => q[s].answer = "up",
         UNCHANGED path, errorFile'.error \in Errors \cup {None}
  PROVE  ProviderInv'
<1> DEFINE Quiet(p) == [p EXCEPT !.queued = FALSE, !.update = NoUpdate]
<1>1. \A p \in Provider :
        /\ Quiet(p) \in Provider /\ Quiet(p).stage = p.stage /\ Quiet(p).answer = p.answer
        /\ Quiet(p).handle = p.handle /\ Quiet(p).stopped = p.stopped
  <2>1. NoUpdate \in [handle : Int, path : Nat]
    BY DEF NoUpdate
  <2> HIDE DEF NoUpdate
  <2> TAKE p \in Provider
  <2> QED
    BY <2>1 DEF Provider
<1>2. provider' = [s \in Sessions |-> IF s \in alive THEN Quiet(q[s]) ELSE q[s]]
  BY DEF ProcessEnds
<1> HIDE DEF Quiet
<1>3. /\ provider' \in [Sessions -> Provider]
      /\ \A s \in Sessions :
           /\ provider'[s].stage = q[s].stage /\ provider'[s].answer = q[s].answer
           /\ provider'[s].handle = q[s].handle /\ provider'[s].stopped = q[s].stopped
  BY <1>1, <1>2
<1>4. alive' = {} /\ tunnelHandles' = Nothing /\ devices' = {}
  BY DEF ProcessEnds
<1>5. Type'
  BY <1>3, <1>4 DEF ProviderInv, Type
<1>6. Numbered'
  <2>1. IsFiniteSet({})
    BY FS_EmptySet
  <2> QED
    BY <1>4, <2>1 DEF Numbered, Nothing
<1>7. InOrder'
  BY <1>3, <1>4 DEF ProviderInv, InOrder
<1>8. HandleIsOwn' /\ NoDeviceLingers'
  BY <1>4 DEF HandleIsOwn, NoDeviceLingers
<1> QED
  BY <1>5, <1>6, <1>7, <1>8 DEF ProviderInv

\* A stop turns off the session's own device, and no other session's.
LEMMA StopKeeps ==
  ASSUME ProviderInv, NEW s \in Sessions, Stop(s) PROVE ProviderInv'
<1> DEFINE q == Stopped(s)
           h == provider[s].handle
<1>1. /\ q \in [Sessions -> Provider]
      /\ \A r \in Sessions :
           /\ q[r].stage = provider[r].stage /\ q[r].answer = provider[r].answer
           /\ q[r].handle = provider[r].handle
           /\ r # s => q[r] = provider[r]
      /\ q[s].stopped = IF provider[s].answer = None THEN "before" ELSE "after"
  BY StoppedIs
<1>2. /\ s \in alive /\ provider[s].stopped = "no"
      /\ provider[s].stage = "settings" \/ provider[s].answer = "up"
      /\ errorFile' = NoFile /\ UNCHANGED path
  BY DEF Stop
<1>3. \/ ProcessEnds(q)
      \/ provider' = q /\ TurnOff(h) /\ UNCHANGED alive
  BY DEF Stop
<1> HIDE DEF q
<1>4. \A r \in Sessions : q[r].stopped = "after" => q[r].answer = "up"
  BY <1>1, <1>2 DEF ProviderInv, InOrder
<1>5. errorFile'.error \in Errors \cup {None}
  BY <1>2 DEF NoFile
<1>6. CASE ProcessEnds(q)
  BY <1>1, <1>2, <1>4, <1>5, <1>6, ProcessEndsKeeps
<1>7. CASE provider' = q /\ TurnOff(h) /\ UNCHANGED alive
  <2>1. devices' \subseteq devices
    BY <1>7 DEF TurnOff
  <2>2. Type'
    BY <1>1, <1>2, <1>5, <1>7, <2>1 DEF ProviderInv, Type
  <2>3. /\ DOMAIN tunnelHandles' = DOMAIN tunnelHandles \ {h}
        /\ \A g \in DOMAIN tunnelHandles' : tunnelHandles'[g] = tunnelHandles[g]
        /\ tunnelHandles' \in [DOMAIN tunnelHandles' -> Sessions]
    BY <1>7 DEF TurnOff, ProviderInv, Numbered
  <2>4. Numbered'
    <3>1. IsFiniteSet(DOMAIN tunnelHandles \ {h})
      BY FS_RemoveElement DEF ProviderInv, Numbered
    <3>2. IsFiniteSet(DOMAIN tunnelHandles')
      BY <2>3, <3>1
    <3>3. DOMAIN tunnelHandles' \subseteq Nat
      BY <2>3 DEF ProviderInv, Numbered
    <3> QED
      BY <2>3, <3>2, <3>3 DEF Numbered
  <2>5. InOrder'
    BY <1>1, <1>4, <1>7, <2>1 DEF ProviderInv, InOrder
  <2>6. CASE provider[s].answer = "up"
    <3>1. h \in DOMAIN tunnelHandles /\ tunnelHandles[h] = s
      BY <1>2, <2>6 DEF ProviderInv, HandleIsOwn
    <3>2. s \notin devices'
      BY <1>7, <3>1 DEF TurnOff
    <3>3. HandleIsOwn'
      <4> SUFFICES ASSUME NEW r \in alive, provider'[r].answer = "up",
                          provider'[r].stopped # "after"
                   PROVE  /\ provider'[r].handle \in DOMAIN tunnelHandles'
                          /\ tunnelHandles'[provider'[r].handle] = r
        BY <1>7 DEF HandleIsOwn
      <4>1. r \in Sessions /\ r # s
        BY <1>1, <1>7, <2>6 DEF ProviderInv, Type, None
      <4>2. provider[r].handle \in DOMAIN tunnelHandles /\ tunnelHandles[provider[r].handle] = r
        BY <1>1, <1>7, <4>1 DEF ProviderInv, HandleIsOwn
      <4>3. provider[r].handle # h
        BY <3>1, <4>1, <4>2
      <4> QED
        BY <1>1, <1>7, <2>3, <4>1, <4>2, <4>3
    <3>4. NoDeviceLingers'
      BY <1>1, <1>7, <2>1, <3>2 DEF ProviderInv, NoDeviceLingers, Type
    <3> QED
      BY <2>2, <2>4, <2>5, <3>3, <3>4 DEF ProviderInv
  <2>7. CASE provider[s].answer # "up"
    <3>1. provider[s].stage = "settings" /\ provider[s].answer = None /\ h = -1
      BY <1>2, <2>7 DEF ProviderInv, InOrder
    <3>2. h \notin DOMAIN tunnelHandles
      BY <3>1 DEF ProviderInv, Numbered
    <3>3. tunnelHandles' = tunnelHandles /\ devices' = devices
      BY <1>7, <3>2 DEF TurnOff
    <3>4. HandleIsOwn'
      BY <1>1, <1>7, <2>7, <3>3 DEF ProviderInv, HandleIsOwn, Type
    <3>5. NoDeviceLingers'
      BY <1>1, <1>7, <2>7, <3>1, <3>3 DEF ProviderInv, NoDeviceLingers, Type
    <3> QED
      BY <2>2, <2>4, <2>5, <3>4, <3>5 DEF ProviderInv
  <2> QED
    BY <2>6, <2>7
<1> QED
  BY <1>3, <1>6, <1>7

\* The process is killed.
LEMMA KilledKeeps ==
  ASSUME ProviderInv, Killed PROVE ProviderInv'
<1>1. provider \in [Sessions -> Provider] /\ errorFile'.error \in Errors \cup {None}
  BY DEF ProviderInv, Type, Killed
<1>2. ProcessEnds(provider) /\ UNCHANGED path
  BY DEF Killed
<1>3. \A s \in Sessions : provider[s].stopped = "after" => provider[s].answer = "up"
  BY DEF ProviderInv, InOrder
<1> QED
  BY <1>1, <1>2, <1>3, ProcessEndsKeeps

\* The network path changes.
LEMMA PathChangesKeeps ==
  ASSUME ProviderInv, PathChanges PROVE ProviderInv'
<1> DEFINE Queued(p) == [p EXCEPT !.queued = TRUE]
<1>1. \A p \in Provider :
        /\ Queued(p) \in Provider /\ Queued(p).stage = p.stage /\ Queued(p).answer = p.answer
        /\ Queued(p).handle = p.handle /\ Queued(p).stopped = p.stopped
  BY DEF Provider
<1>2. /\ UNCHANGED <<alive, tunnelHandles, devices, errorFile>> /\ path' = path + 1
      /\ provider' = [s \in Sessions |-> IF s \in alive /\ provider[s].monitor = "on"
                                         THEN Queued(provider[s]) ELSE provider[s]]
  BY DEF PathChanges
<1> HIDE DEF Queued
<1>3. /\ provider' \in [Sessions -> Provider]
      /\ \A s \in Sessions :
           /\ provider'[s].stage = provider[s].stage /\ provider'[s].answer = provider[s].answer
           /\ provider'[s].handle = provider[s].handle
           /\ provider'[s].stopped = provider[s].stopped
  BY <1>1, <1>2 DEF ProviderInv, Type
<1>4. Type'
  BY <1>2, <1>3 DEF ProviderInv, Type
<1>5. Numbered'
  BY <1>2 DEF ProviderInv, Numbered
<1>6. InOrder'
  BY <1>2, <1>3 DEF ProviderInv, InOrder
<1>7. HandleIsOwn'
  BY <1>2, <1>3 DEF ProviderInv, HandleIsOwn, Type
<1>8. NoDeviceLingers'
  BY <1>2, <1>3 DEF ProviderInv, NoDeviceLingers, Type
<1> QED
  BY <1>4, <1>5, <1>6, <1>7, <1>8 DEF ProviderInv

\* Steps that change nothing.
LEMMA ProviderStutters ==
  ASSUME ProviderInv, UNCHANGED vars PROVE ProviderInv'
BY DEF vars, ProviderInv, Type, Numbered, InOrder, HandleIsOwn, NoDeviceLingers

\* The invariant is inductive.
THEOREM ProviderInvariant == Spec => []ProviderInv
<1>1. Init => ProviderInv
  BY ProviderInit
<1>2. ProviderInv /\ [Next]_vars => ProviderInv'
  <2> SUFFICES ASSUME ProviderInv, [Next]_vars PROVE ProviderInv'
    OBVIOUS
  <2>1. ASSUME NEW s \in Sessions,
               \/ AppAsks(s) \/ NotLaunched(s) \/ StartTunnel(s) \/ SettingsReturn(s) \/ Open(s)
               \/ Stop(s) \/ UpdateBegins(s) \/ UpdateEnds(s) \/ AppShows(s)
        PROVE  ProviderInv'
    BY <2>1, AppAsksKeeps, NotLaunchedKeeps, StartTunnelKeeps, SettingsReturnKeeps, OpenKeeps,
       StopKeeps, UpdateBeginsKeeps, UpdateEndsKeeps, AppShowsKeeps
  <2> QED
    BY <2>1, KilledKeeps, PathChangesKeeps, ProviderStutters DEF Next
<1> QED
  BY <1>1, <1>2, PTL DEF Spec

\* The handle a provider keeps is that of its own device until it has turned it off: a
\* number given again never reaches another session's device through stopTunnel.
THEOREM HandlesAreOwn == Spec => []HandleIsOwn
<1>1. ProviderInv => HandleIsOwn
  BY DEF ProviderInv
<1> QED
  BY <1>1, ProviderInvariant, PTL

\* No device outlives a stop that comes after the start's answer, nor a failed start,
\* unless wgTurnOn left it there.
THEOREM DevicesEnd == Spec => []NoDeviceLingers
<1>1. ProviderInv => NoDeviceLingers
  BY DEF ProviderInv
<1> QED
  BY <1>1, ProviderInvariant, PTL

-----------------------------------------------------------------------------
(* The device's endpoints follow the network path, and the reason the app  *)
(* shows is the attempt's own: for every number of sessions and of paths,  *)
(* in one process or several.                                              *)

\* On iOS the path monitor is on from wgTurnOn's call to the stop.
Watches(p) ==
  world.build = "iOS" /\ (p.stage = "opening" \/ (p.answer = "up" /\ p.stopped # "after"))
    => p.monitor = "on"

\* Path updates run in the process, and have read the handle of their own session.
UpdatesOwn(s, p) ==
  /\ p.queued \/ p.update # NoUpdate => s \in alive
  /\ p.update # NoUpdate => p.update.handle = p.handle /\ p.handle # -1

\* An update after which none is queued has read the present path.
UpdatesToPath(s, p) ==
  s \in alive /\ p.monitor = "on" /\ ~p.queued /\ p.update # NoUpdate => p.update.path = path

Follows(s, p) ==
  /\ s \in alive /\ world.build = "iOS" /\ p.answer = "up" /\ p.stopped = "no"
  /\ ~p.queued /\ p.update = NoUpdate
  => \A e \in endpoints[s] :
       e.by = s => e.path = path \/ (e.path = p.read /\ p.since = path)

\* An error that is noted for an attempt, or shown, is what its start was answered.
Reported(s, p) ==
  /\ errorFile.error # None /\ errorFile.attempt = s => p.answer = errorFile.error
  /\ p.shown \in Errors => p.answer = p.shown

Sound(s, p) ==
  Watches(p) /\ UpdatesOwn(s, p) /\ UpdatesToPath(s, p) /\ Follows(s, p) /\ Reported(s, p)

\* A session sets its own peers' endpoints, on the device of another only after its stop.
Strays ==
  \A s \in Sessions : \A e \in endpoints[s] :
    /\ e.by \in Sessions /\ e.tunnel = world.tunnel[e.by]
    /\ e.by = s \/ provider[e.by].stopped = "after"

PerDevice == endpoints = [s \in Sessions |-> endpoints[s]]

PathInv ==
  /\ PerDevice /\ Strays
  /\ \A s \in Sessions : Sound(s, provider[s])
-----------------------------------------------------------------------------
\* No session has begun.
LEMMA PathInit == Init => PathInv
<1> SUFFICES ASSUME Init PROVE PathInv
  OBVIOUS
<1>1. PerDevice /\ Strays
  BY DEF Init, PerDevice, Strays
<1>2. ASSUME NEW s \in Sessions PROVE Sound(s, provider[s])
  <2>1. provider[s] = Fresh /\ alive = {} /\ errorFile = NoFile
    BY DEF Init
  <2> QED
    BY <2>1 DEF Sound, Watches, UpdatesOwn, UpdatesToPath, Follows, Reported, Fresh, NoFile,
                None, Errors
<1> QED
  BY <1>1, <1>2 DEF PathInv

\* What a step of session s adds to the endpoints is its own.
Sets(s, p) ==
  /\ PerDevice'
  /\ \A r \in Sessions : \A e \in endpoints'[r] :
       e \in endpoints[r]
         \/ (e.by = s /\ e.tunnel = world.tunnel[s] /\ (r = s \/ p.stopped = "after"))

LEMMA SetsNothing ==
  ASSUME PathInv, NEW s, NEW p, UNCHANGED endpoints PROVE Sets(s, p)
BY DEF PathInv, PerDevice, Sets

\* A step of one session: the others stay sound as long as the error file is not
\* written in their names.
LEMMA OneSession ==
  ASSUME ProviderInv, PathInv, NEW s \in Sessions, NEW p \in Provider,
         provider' = [provider EXCEPT ![s] = p],
         UNCHANGED <<world, path>>, alive' \in {alive, alive \cup {s}},
         Sets(s, p), provider[s].stopped = "after" => p.stopped = "after",
         errorFile' = errorFile \/ errorFile'.error = None \/ errorFile'.attempt = s,
         Sound(s, p)'
  PROVE  PathInv'
<1>1. provider'[s] = p /\ \A r \in Sessions \ {s} : provider'[r] = provider[r]
  BY DEF ProviderInv, Type
<1>2. p' = p
  OBVIOUS
<1>3. ASSUME NEW r \in Sessions \ {s} PROVE Sound(r, provider[r])'
  <2>1. /\ provider'[r] = provider[r] /\ (r \in alive' <=> r \in alive)
        /\ \A e \in endpoints'[r] : e.by = r => e \in endpoints[r]
    BY <1>1 DEF Sets
  <2>2. Sound(r, provider[r])
    BY DEF PathInv
  <2>3. Watches(provider[r])' /\ UpdatesOwn(r, provider[r])' /\ UpdatesToPath(r, provider[r])'
        /\ Follows(r, provider[r])'
    BY <2>1, <2>2 DEF Sound, Watches, UpdatesOwn, UpdatesToPath, Follows
  <2>4. Reported(r, provider[r])'
    BY <2>1, <2>2 DEF Sound, Reported
  <2> QED
    BY <2>3, <2>4 DEF Sound
<1>4. Sound(s, provider[s])'
  BY <1>1 DEF Sound, Watches, UpdatesOwn, UpdatesToPath, Follows, Reported
<1>5. Strays'
  <2> SUFFICES ASSUME NEW r \in Sessions, NEW e \in endpoints'[r]
               PROVE  /\ e.by \in Sessions /\ e.tunnel = world.tunnel[e.by]
                      /\ e.by = r \/ provider'[e.by].stopped = "after"
    BY DEF Strays
  <2>1. CASE e \in endpoints[r]
    BY <1>1, <2>1 DEF PathInv, Strays
  <2>2. CASE e \notin endpoints[r]
    BY <1>1, <2>2 DEF Sets
  <2> QED
    BY <2>1, <2>2
<1> QED
  BY <1>3, <1>4, <1>5 DEF PathInv, Sets

\* What the invariants say of a session before a step of its own.
LEMMA Before ==
  ASSUME ProviderInv, PathInv, NEW s \in Sessions
  PROVE  /\ provider[s] \in Provider /\ Sound(s, provider[s]) /\ path \in Nat
         /\ provider[s].answer # None => provider[s].stage = "done"
         /\ provider[s].answer # "up" => provider[s].handle = -1
         /\ provider[s].stopped = "after" => provider[s].answer = "up"
         /\ PerDevice
BY DEF ProviderInv, PathInv, Type, InOrder

\* The app's request.
LEMMA AppAsksFollows ==
  ASSUME ProviderInv, PathInv, NEW s \in Sessions, AppAsks(s) PROVE PathInv'
<1>0. provider[s] \in Provider
  BY Before
<1>1. PICK p : p = [provider[s] EXCEPT !.stage = "asked", !.app = TRUE]
  OBVIOUS
<1>2. p \in Provider
  BY <1>0, <1>1 DEF Provider
<1>3. /\ p.answer = provider[s].answer /\ p.stopped = provider[s].stopped
      /\ p.handle = provider[s].handle /\ p.monitor = provider[s].monitor
      /\ p.queued = provider[s].queued /\ p.update = provider[s].update
      /\ p.since = provider[s].since /\ p.read = provider[s].read
      /\ p.shown = provider[s].shown /\ p.stage = "asked"
  BY <1>1, Before DEF Provider
<1>4. /\ provider' = [provider EXCEPT ![s] = p]
      /\ UNCHANGED <<world, path, alive, endpoints, errorFile>>
  BY <1>1 DEF AppAsks
<1>5. Sound(s, p)'
  BY <1>3, <1>4, Before DEF Sound, Watches, UpdatesOwn, UpdatesToPath, Follows, Reported
<1> QED
  BY <1>2, <1>3, <1>4, <1>5, SetsNothing, OneSession

\* A session whose extension is not launched.
LEMMA NotLaunchedFollows ==
  ASSUME ProviderInv, PathInv, NEW s \in Sessions, NotLaunched(s) PROVE PathInv'
<1>1. PICK p : p = [provider[s] EXCEPT !.stage = "done"]
  OBVIOUS
<1>2. p \in Provider
  BY <1>1, Before DEF Provider
<1>3. /\ p.answer = provider[s].answer /\ p.stopped = provider[s].stopped
      /\ p.handle = provider[s].handle /\ p.monitor = provider[s].monitor
      /\ p.queued = provider[s].queued /\ p.update = provider[s].update
      /\ p.since = provider[s].since /\ p.read = provider[s].read
      /\ p.shown = provider[s].shown /\ p.stage = "done"
  BY <1>1, Before DEF Provider
<1>4. /\ provider' = [provider EXCEPT ![s] = p]
      /\ UNCHANGED <<world, path, alive, endpoints, errorFile>>
  BY <1>1 DEF NotLaunched
<1>5. Sound(s, p)'
  BY <1>3, <1>4, Before DEF Sound, Watches, UpdatesOwn, UpdatesToPath, Follows, Reported
<1> QED
  BY <1>2, <1>3, <1>4, <1>5, SetsNothing, OneSession

\* A start that has not been answered goes on or fails; only its own error is noted.
LEMMA StartFollows ==
  ASSUME ProviderInv, PathInv, NEW s \in Sessions, NEW p \in Provider,
         provider[s].answer = None,
         provider' = [provider EXCEPT ![s] = p],
         UNCHANGED <<world, path>>, alive' \in {alive, alive \cup {s}}, UNCHANGED endpoints,
         \/ p.answer = None /\ errorFile' \in {errorFile, NoFile}
         \/ p.answer \in Errors /\ errorFile' \in {errorFile, NoFile, Noted(s, p.answer)},
         p.handle = provider[s].handle, p.update = provider[s].update,
         p.shown = provider[s].shown, Watches(p), s \in alive'
  PROVE  PathInv'
<1>1. provider[s].handle = -1 /\ Sound(s, provider[s])
  BY Before DEF None
<1>2. p.update = NoUpdate
  BY <1>1 DEF Sound, UpdatesOwn
<1>3. p.answer # "up"
  BY DEF None, Errors
<1>4. \/ errorFile' = errorFile
      \/ errorFile'.error = None
      \/ errorFile'.attempt = s /\ errorFile'.error = p.answer
  BY DEF Noted, NoFile
<1>5. Watches(p)'
  BY DEF Watches
<1>6. UpdatesOwn(s, p)' /\ UpdatesToPath(s, p)' /\ Follows(s, p)'
  BY <1>2, <1>3 DEF UpdatesOwn, UpdatesToPath, Follows
<1>7. errorFile' = errorFile /\ errorFile.error # None => errorFile.attempt # s
  BY <1>1 DEF Sound, Reported
<1>8. p.shown \notin Errors
  BY <1>1 DEF Sound, Reported, None, Errors
<1>9. Reported(s, p)'
  BY <1>4, <1>7, <1>8 DEF Reported
<1>10. Sound(s, p)'
  BY <1>5, <1>6, <1>9 DEF Sound
<1>11. Sets(s, p) /\ provider[s].stopped # "after"
  BY Before, SetsNothing DEF None
<1>12. errorFile' = errorFile \/ errorFile'.error = None \/ errorFile'.attempt = s
  BY <1>4
<1> QED
  BY <1>10, <1>11, <1>12, OneSession

\* The fields of an answer with an error.
LEMMA AnswerFields ==
  ASSUME ProviderInv, PathInv, NEW s \in Sessions, NEW e \in Errors
  PROVE  /\ Answered(s, e) \in Provider
         /\ Answered(s, e).stage = "done" /\ Answered(s, e).answer = e
         /\ Answered(s, e).handle = provider[s].handle
         /\ Answered(s, e).update = provider[s].update /\ Answered(s, e).shown = provider[s].shown
BY Before DEF Answered, Provider

\* The fields of a session whose monitor is started.
LEMMA MonitorFields ==
  ASSUME NEW p \in Provider
  PROVE  /\ Monitored(p) \in Provider
         /\ Monitored(p).stage = p.stage /\ Monitored(p).answer = p.answer
         /\ Monitored(p).handle = p.handle /\ Monitored(p).update = p.update
         /\ Monitored(p).shown = p.shown
         /\ world.build = "iOS" => Monitored(p).monitor = "on"
BY DEF Monitored, Provider

\* A start begins, or fails before the settings.
LEMMA StartTunnelFollows ==
  ASSUME ProviderInv, PathInv, NEW s \in Sessions, StartTunnel(s) PROVE PathInv'
<1>1. provider[s].answer = None
  BY DEF ProviderInv, InOrder, StartTunnel, IsNext
<1>2. alive' = alive \cup {s} /\ UNCHANGED <<world, path, endpoints>>
  BY DEF StartTunnel
<1>3. ASSUME NEW e \in Errors, provider' = [provider EXCEPT ![s] = Answered(s, e)],
             errorFile' = Noted(s, e)
      PROVE  PathInv'
  <2>1. PICK p : p = Answered(s, e)
    OBVIOUS
  <2>2. /\ p \in Provider /\ p.stage = "done" /\ p.answer = e /\ p.handle = provider[s].handle
        /\ p.update = provider[s].update /\ p.shown = provider[s].shown
    BY <2>1, AnswerFields
  <2>3. Watches(p)
    BY <2>2 DEF Watches, Errors
  <2> QED
    BY <1>1, <1>2, <1>3, <2>1, <2>2, <2>3, StartFollows
<1>4. ASSUME provider' = [provider EXCEPT ![s].stage = "settings"], errorFile' = NoFile
      PROVE  PathInv'
  <2>1. PICK p : p = [provider[s] EXCEPT !.stage = "settings"]
    OBVIOUS
  <2>2. /\ p \in Provider /\ p.stage = "settings" /\ p.answer = None /\ p.handle = provider[s].handle
        /\ p.update = provider[s].update /\ p.shown = provider[s].shown
    BY <1>1, <2>1, Before DEF Provider
  <2>3. Watches(p)
    BY <2>2 DEF Watches, None
  <2>4. provider' = [provider EXCEPT ![s] = p]
    BY <1>4, <2>1
  <2> QED
    BY <1>1, <1>2, <1>4, <2>2, <2>3, <2>4, StartFollows
<1> QED
  BY <1>3, <1>4 DEF StartTunnel, Errors

\* The settings come back; without an error the path monitor is on from here.
LEMMA SettingsReturnFollows ==
  ASSUME ProviderInv, PathInv, NEW s \in Sessions, SettingsReturn(s) PROVE PathInv'
<1>1. provider[s].answer = None
  BY DEF ProviderInv, InOrder, SettingsReturn
<1>2. UNCHANGED <<world, path, alive, endpoints>> /\ s \in alive
  BY DEF SettingsReturn
<1>3. ASSUME NEW e \in Errors, NEW q \in {Answered(s, e), Monitored(Answered(s, e))},
             Fail(s, e, q)
      PROVE  PathInv'
  <2>1. PICK p : p = q
    OBVIOUS
  <2>2. /\ p \in Provider /\ p.stage = "done" /\ p.answer = e /\ p.handle = provider[s].handle
        /\ p.update = provider[s].update /\ p.shown = provider[s].shown
    BY <1>3, <2>1, AnswerFields, MonitorFields
  <2>3. Watches(p)
    BY <2>2 DEF Watches, Errors
  <2>4. provider' = [provider EXCEPT ![s] = p] /\ errorFile' \in {errorFile, Noted(s, p.answer)}
    BY <1>3, <2>1, <2>2 DEF Fail
  <2> QED
    BY <1>1, <1>2, <2>2, <2>3, <2>4, StartFollows
<1>4. ASSUME UNCHANGED errorFile,
             provider' = [provider EXCEPT ![s] =
               Monitored([@ EXCEPT !.stage = "opening", !.read = path])]
      PROVE  PathInv'
  <2>0. provider[s] \in Provider /\ path \in Nat
    BY Before
  <2>1. PICK q : q = [provider[s] EXCEPT !.stage = "opening", !.read = path]
    OBVIOUS
  <2>2. /\ q \in Provider /\ q.answer = None /\ q.handle = provider[s].handle
        /\ q.update = provider[s].update /\ q.shown = provider[s].shown
    BY <1>1, <2>0, <2>1 DEF Provider
  <2>3. PICK p : p = Monitored(q)
    OBVIOUS
  <2>4. /\ p \in Provider /\ p.answer = None /\ p.handle = provider[s].handle
        /\ p.update = provider[s].update /\ p.shown = provider[s].shown
    BY <2>2, <2>3, MonitorFields
  <2>5. Watches(p)
    BY <2>2, <2>3, MonitorFields DEF Watches
  <2>6. provider' = [provider EXCEPT ![s] = p]
    BY <1>4, <2>1, <2>3
  <2> QED
    BY <1>1, <1>2, <1>4, <2>4, <2>5, <2>6, StartFollows
<1> QED
  BY <1>3, <1>4 DEF SettingsReturn, Errors

\* wgTurnOn is called and answers; the path of the answer is the present one.
LEMMA OpenFollows ==
  ASSUME ProviderInv, PathInv, NEW s \in Sessions, Open(s) PROVE PathInv'
<1>1. provider[s].answer = None /\ provider[s].stage = "opening" /\ s \in alive
  BY DEF ProviderInv, InOrder, Open
<1>2. UNCHANGED <<world, alive, path>> /\ provider[s] \in Provider /\ path \in Nat
  BY Before DEF Open
<1>3. ASSUME Fail(s, "couldNotStartBackend", Answered(s, "couldNotStartBackend")),
             UNCHANGED endpoints
      PROVE  PathInv'
  <2>1. PICK p : p = Answered(s, "couldNotStartBackend")
    OBVIOUS
  <2>2. /\ p \in Provider /\ p.stage = "done" /\ p.answer = "couldNotStartBackend"
        /\ p.handle = provider[s].handle
        /\ p.update = provider[s].update /\ p.shown = provider[s].shown
    BY <2>1, AnswerFields DEF Errors
  <2>3. Watches(p)
    BY <2>2 DEF Watches
  <2>4. provider' = [provider EXCEPT ![s] = p] /\ errorFile' \in {errorFile, Noted(s, p.answer)}
    BY <1>3, <2>1, <2>2 DEF Fail
  <2>5. p.answer \in Errors
    BY <2>2 DEF Errors
  <2> QED
    BY <1>1, <1>2, <1>3, <2>2, <2>3, <2>4, <2>5, StartFollows
<1>4. ASSUME TurnOn(s), UNCHANGED errorFile,
             provider' = [provider EXCEPT ![s] =
               [Answered(s, "up") EXCEPT !.handle = SmallestFree, !.since = path]]
      PROVE  PathInv'
  <2>1. PICK p : p = [Answered(s, "up") EXCEPT !.handle = SmallestFree, !.since = path]
    OBVIOUS
  <2>2. SmallestFree \in Nat
    BY SmallestFreeIsFree DEF ProviderInv
  <2>3. /\ p \in Provider /\ p.stage = "done" /\ p.answer = "up" /\ p.since = path
        /\ p.update = provider[s].update /\ p.shown = provider[s].shown
        /\ p.monitor = provider[s].monitor /\ p.read = provider[s].read
    <3>1. PICK q : q = Answered(s, "up")
      OBVIOUS
    <3>2. /\ q \in Provider /\ q.stage = "done" /\ q.answer = "up"
          /\ q.update = provider[s].update /\ q.shown = provider[s].shown
          /\ q.monitor = provider[s].monitor /\ q.read = provider[s].read
      BY <1>2, <3>1 DEF Answered, Provider
    <3>3. PICK h \in Int, n \in Nat : h = SmallestFree /\ n = path
      BY <1>2, <2>2
    <3>4. p = [q EXCEPT !.handle = h, !.since = n]
      BY <2>1, <3>1, <3>3, Zenon
    <3>5. p \in Provider /\ p.since = n
      BY <3>2, <3>4 DEF Provider
    <3>6. /\ p.stage = q.stage /\ p.answer = q.answer /\ p.update = q.update
          /\ p.shown = q.shown /\ p.monitor = q.monitor /\ p.read = q.read
      BY <3>2, <3>4 DEF Provider
    <3> QED
      BY <3>2, <3>3, <3>5, <3>6
  <2>4. Sound(s, provider[s]) /\ provider[s].handle = -1
    BY <1>1, Before DEF None
  <2>5. p.update = NoUpdate
    BY <2>3, <2>4 DEF Sound, UpdatesOwn
  <2>6. Watches(p)'
    BY <1>1, <1>2, <2>3, <2>4 DEF Sound, Watches
  <2>10. PICK e : e = Peers(s, provider[s].read)
    OBVIOUS
  <2>11. e.by = s /\ e.tunnel = world.tunnel[s] /\ e.path = p.read
    BY <2>3, <2>10 DEF Peers
  <2>12. endpoints' = [endpoints EXCEPT ![s] = {e}]
    BY <1>4, <2>10 DEF TurnOn
  <2>13. endpoints'[s] = {e}
    BY <2>12, Before DEF PerDevice
  <2>14. Sets(s, p)
    BY <2>11, <2>12, <2>13, Before DEF PerDevice, Sets
  <2>7. UpdatesOwn(s, p)' /\ UpdatesToPath(s, p)' /\ Follows(s, p)'
    BY <1>1, <1>2, <2>3, <2>5, <2>11, <2>13 DEF UpdatesOwn, UpdatesToPath, Follows
  <2>8. Reported(s, p)'
    <3>1. ~(errorFile.error # None /\ errorFile.attempt = s)
      BY <1>1, <2>4 DEF Sound, Reported
    <3>2. p.shown \notin Errors
      BY <1>1, <2>3, <2>4 DEF Sound, Reported, None, Errors
    <3> QED
      BY <1>4, <3>1, <3>2 DEF Reported
  <2>9. Sound(s, p)'
    BY <2>6, <2>7, <2>8 DEF Sound
  <2>15. provider[s].stopped # "after"
    BY <1>1, Before DEF None
  <2> QED
    BY <1>2, <1>4, <2>1, <2>3, <2>9, <2>14, <2>15, OneSession
<1> QED
  BY <1>3, <1>4 DEF Open

\* An update reads the present path and the session's own handle.
LEMMA UpdateBeginsFollows ==
  ASSUME ProviderInv, PathInv, NEW s \in Sessions, UpdateBegins(s) PROVE PathInv'
<1>1. PICK u : u = IF provider[s].handle = -1 THEN NoUpdate
                   ELSE [handle |-> provider[s].handle, path |-> path]
  OBVIOUS
<1>2. PICK p : p = [provider[s] EXCEPT !.queued = FALSE, !.update = u]
  OBVIOUS
<1>3. provider[s] \in Provider /\ Sound(s, provider[s]) /\ path \in Nat
  BY Before
<1>4. u \in [handle : Int, path : Nat]
  BY <1>1, <1>3 DEF NoUpdate, Provider
<1>5. /\ p \in Provider /\ p.update = u /\ p.stage = provider[s].stage
      /\ p.answer = provider[s].answer /\ p.stopped = provider[s].stopped
      /\ p.handle = provider[s].handle /\ p.monitor = provider[s].monitor
      /\ p.since = provider[s].since /\ p.shown = provider[s].shown /\ ~p.queued
  BY <1>2, <1>3, <1>4 DEF Provider
<1>6. /\ provider' = [provider EXCEPT ![s] = p]
      /\ UNCHANGED <<world, path, alive, endpoints, errorFile>>
  BY <1>1, <1>2 DEF UpdateBegins
<1>s. s \in alive
  BY <1>3 DEF UpdateBegins, Sound, UpdatesOwn
<1>7. Watches(p)' /\ Reported(s, p)'
  BY <1>3, <1>5, <1>6 DEF Sound, Watches, Reported
<1>8. u # NoUpdate => u.handle = p.handle /\ p.handle # -1 /\ u.path = path
  BY <1>1, <1>5
<1>9. UpdatesOwn(s, p)' /\ UpdatesToPath(s, p)'
  BY <1>5, <1>6, <1>8, <1>s DEF UpdatesOwn, UpdatesToPath
<1>10. p.answer = "up" /\ p.stopped = "no" /\ s \in alive => u # NoUpdate
  <2> SUFFICES ASSUME p.answer = "up", p.stopped = "no", s \in alive PROVE u # NoUpdate
    OBVIOUS
  <2>1. provider[s].handle \in DOMAIN tunnelHandles
    BY <1>5 DEF ProviderInv, HandleIsOwn
  <2>2. provider[s].handle \in Nat
    BY <2>1 DEF ProviderInv, Numbered
  <2> QED
    BY <1>1, <2>2 DEF NoUpdate
<1>11. Follows(s, p)'
  BY <1>5, <1>6, <1>10 DEF Follows
<1>12. Sound(s, p)'
  BY <1>7, <1>9, <1>11 DEF Sound
<1> QED
  BY <1>5, <1>6, <1>12, SetsNothing, OneSession

\* An update that ends with none queued has set the endpoints for the present path,
\* unless its session was stopped: the handle it read is still the session's own.
LEMMA UpdateEndsFollows ==
  ASSUME ProviderInv, PathInv, NEW s \in Sessions, UpdateEnds(s) PROVE PathInv'
<1>1. PICK p : p = [provider[s] EXCEPT !.update = NoUpdate]
  OBVIOUS
<1>2. provider[s] \in Provider /\ Sound(s, provider[s]) /\ PerDevice
  BY Before
<1>3. NoUpdate \in [handle : Int, path : Nat] /\ provider[s].update \in [handle : Int, path : Nat]
  BY <1>2 DEF NoUpdate, Provider
<1>4. /\ p \in Provider /\ p.update = NoUpdate /\ p.stage = provider[s].stage
      /\ p.answer = provider[s].answer /\ p.stopped = provider[s].stopped
      /\ p.handle = provider[s].handle /\ p.monitor = provider[s].monitor
      /\ p.queued = provider[s].queued /\ p.read = provider[s].read
      /\ p.since = provider[s].since /\ p.shown = provider[s].shown
  BY <1>1, <1>2, <1>3 DEF Provider
<1>5. /\ provider' = [provider EXCEPT ![s] = p]
      /\ UNCHANGED <<world, path, alive, errorFile>> /\ provider[s].update # NoUpdate
  BY <1>1 DEF UpdateEnds
<1>6. Watches(p)' /\ Reported(s, p)'
  BY <1>2, <1>4, <1>5 DEF Sound, Watches, Reported
<1>7. UpdatesOwn(s, p)' /\ UpdatesToPath(s, p)'
  BY <1>2, <1>4, <1>5 DEF Sound, UpdatesOwn, UpdatesToPath
<1>8. PICK u : u = provider[s].update
  OBVIOUS
<1>9. PICK new : new = Peers(s, u.path)
  OBVIOUS
<1>10. new.by = s /\ new.tunnel = world.tunnel[s] /\ new.path = u.path
  BY <1>9 DEF Peers
<1>11. s \in alive /\ u.handle = provider[s].handle /\ provider[s].answer = "up"
  BY <1>2, <1>5, <1>8, Before DEF Sound, UpdatesOwn
<1>12. CASE u.handle \notin DOMAIN tunnelHandles
  <2>1. UNCHANGED endpoints
    BY <1>8, <1>12 DEF UpdateEnds
  <2>2. provider[s].stopped = "after"
    BY <1>11, <1>12 DEF ProviderInv, HandleIsOwn
  <2>3. Follows(s, p)'
    BY <1>4, <2>2 DEF Follows
  <2>4. Sound(s, p)'
    BY <1>6, <1>7, <2>3 DEF Sound
  <2> QED
    BY <1>4, <1>5, <2>1, <2>4, SetsNothing, OneSession
<1>13. CASE u.handle \in DOMAIN tunnelHandles
  <2>1. PICK o \in Sessions : o = tunnelHandles[u.handle]
    BY <1>13 DEF ProviderInv, Numbered
  <2>2. PICK kept : kept = {e \in endpoints[o] : e.tunnel # new.tunnel}
    OBVIOUS
  <2>3. endpoints' = [endpoints EXCEPT ![o] = kept \cup {new}]
    BY <1>8, <1>9, <1>13, <2>1, <2>2 DEF UpdateEnds
  <2>4. endpoints'[o] = kept \cup {new} /\ \A r \in Sessions \ {o} : endpoints'[r] = endpoints[r]
    BY <1>2, <2>3 DEF PerDevice
  <2>5. PerDevice'
    BY <1>2, <2>3 DEF PerDevice
  <2>6. o = s \/ provider[s].stopped = "after"
    BY <1>11, <1>13, <2>1 DEF ProviderInv, HandleIsOwn
  <2>7. Sets(s, p)
    BY <1>4, <1>10, <2>2, <2>4, <2>5, <2>6 DEF Sets
  <2>8. Follows(s, p)'
    <3> SUFFICES ASSUME s \in alive, world.build = "iOS", p.answer = "up", p.stopped = "no",
                        ~p.queued, NEW e \in endpoints'[s], e.by = s
                 PROVE  e.path = path
      BY <1>5 DEF Follows
    <3>1. provider[s].monitor = "on"
      BY <1>2, <1>4 DEF Sound, Watches
    <3>2. u.path = path
      BY <1>2, <1>4, <1>5, <1>8, <3>1 DEF Sound, UpdatesToPath
    <3>3. o = s
      BY <1>4, <2>6
    <3>4. CASE e \in kept
      <4>1. e.tunnel = world.tunnel[s]
        BY <2>2, <3>3, <3>4 DEF PathInv, Strays
      <4> QED
        BY <1>10, <2>2, <3>4, <4>1
    <3> QED
      BY <1>10, <2>4, <3>2, <3>3, <3>4
  <2>9. Sound(s, p)'
    BY <1>6, <1>7, <2>8 DEF Sound
  <2> QED
    BY <1>4, <1>5, <2>7, <2>9, OneSession
<1> QED
  BY <1>12, <1>13

\* What the app shows is what the file has for the attempt, or no reason.
LEMMA AppShowsFollows ==
  ASSUME ProviderInv, PathInv, NEW s \in Sessions, AppShows(s) PROVE PathInv'
<1>1. PICK p : p = [provider[s] EXCEPT !.shown = LastErrorText(s)]
  OBVIOUS
<1>2. provider[s] \in Provider /\ Sound(s, provider[s])
  BY Before
<1>3. LastErrorText(s) \in Errors \cup {None, "activationFailed"}
  BY DEF ProviderInv, Type, LastErrorText
<1>4. /\ p \in Provider /\ p.shown = LastErrorText(s) /\ p.stage = provider[s].stage
      /\ p.answer = provider[s].answer /\ p.stopped = provider[s].stopped
      /\ p.handle = provider[s].handle /\ p.monitor = provider[s].monitor
      /\ p.queued = provider[s].queued /\ p.update = provider[s].update
      /\ p.since = provider[s].since /\ p.read = provider[s].read
  BY <1>1, <1>2, <1>3 DEF Provider
<1>5. /\ provider' = [provider EXCEPT ![s] = p]
      /\ UNCHANGED <<world, path, alive, endpoints, errorFile>>
  BY <1>1 DEF AppShows
<1>6. Watches(p)' /\ UpdatesOwn(s, p)' /\ UpdatesToPath(s, p)' /\ Follows(s, p)'
  BY <1>2, <1>4, <1>5 DEF Sound, Watches, UpdatesOwn, UpdatesToPath, Follows
<1>7. LastErrorText(s) \in Errors => LastErrorText(s) = p.answer
  BY <1>2, <1>4 DEF Sound, Reported, LastErrorText, Errors, None
<1>8. Reported(s, p)'
  BY <1>2, <1>4, <1>5, <1>7 DEF Sound, Reported
<1>9. Sound(s, p)'
  BY <1>6, <1>8 DEF Sound
<1> QED
  BY <1>4, <1>5, <1>9, SetsNothing, OneSession

\* The fields of a session that is stopped.
LEMMA StoppedFields ==
  ASSUME ProviderInv, PathInv, NEW s \in Sessions,
         provider[s].stage = "settings" \/ provider[s].answer = "up"
  PROVE  \E p \in Provider :
           /\ Stopped(s) = [provider EXCEPT ![s] = p]
           /\ p.answer = provider[s].answer /\ p.handle = provider[s].handle
           /\ p.update = provider[s].update /\ p.shown = provider[s].shown
           /\ p.stopped # "no" /\ p.monitor # "on" /\ Watches(p)
           /\ p.queued = provider[s].queued
           /\ provider[s].stopped = "after" => p.stopped = "after"
<1>2. provider[s] \in Provider
  BY Before
<1>7. PICK stop \in {"before", "after"} : stop = IF provider[s].answer = None THEN "before" ELSE "after"
  OBVIOUS
<1>8. PICK monitor \in {None, "cancelled"} :
        monitor = IF provider[s].monitor = "on" THEN "cancelled" ELSE provider[s].monitor
  BY <1>2 DEF Provider
<1>1. PICK p : p = [provider[s] EXCEPT !.stopped = stop, !.monitor = monitor]
  OBVIOUS
<1>9. p \in Provider
  BY <1>1, <1>2 DEF Provider
<1>3. /\ p.answer = provider[s].answer /\ p.handle = provider[s].handle
      /\ p.update = provider[s].update /\ p.shown = provider[s].shown /\ p.stage = provider[s].stage
      /\ p.stopped = stop /\ p.monitor = monitor /\ monitor # "on"
      /\ p.queued = provider[s].queued
  BY <1>1, <1>2 DEF Provider, None
<1>4. provider[s].answer # None => provider[s].stage = "done"
  BY Before
<1>5. Watches(p)
  BY <1>3, <1>4, <1>7 DEF Watches, None
<1>6. Stopped(s) = [provider EXCEPT ![s] = p]
  BY <1>1, <1>7, <1>8 DEF Stopped
<1>10. provider[s].stopped = "after" => stop = "after"
  BY <1>2, <1>7, Before DEF None
<1> QED
  BY <1>3, <1>5, <1>6, <1>7, <1>9, <1>10

\* With the process, its updates end.
LEMMA ProcessEndsFollows ==
  ASSUME ProviderInv, PathInv, NEW q \in [Sessions -> Provider], ProcessEnds(q),
         \A s \in Sessions : /\ q[s].answer = provider[s].answer /\ q[s].handle = provider[s].handle
                             /\ q[s].update = provider[s].update /\ q[s].shown = provider[s].shown
                             /\ q[s].queued = provider[s].queued
                             /\ provider[s].stopped = "after" => q[s].stopped = "after"
                             /\ Watches(q[s]),
         UNCHANGED <<world, endpoints>>, errorFile' \in {errorFile, NoFile}
  PROVE  PathInv'
<1> DEFINE Quiet(p) == [p EXCEPT !.queued = FALSE, !.update = NoUpdate]
<1>1. \A p \in Provider :
        /\ Quiet(p).stage = p.stage /\ Quiet(p).answer = p.answer
        /\ Quiet(p).handle = p.handle /\ Quiet(p).stopped = p.stopped
        /\ Quiet(p).monitor = p.monitor /\ Quiet(p).shown = p.shown /\ Quiet(p).update = NoUpdate
        /\ ~Quiet(p).queued
  BY DEF Provider
<1>2. provider' = [s \in Sessions |-> IF s \in alive THEN Quiet(q[s]) ELSE q[s]] /\ alive' = {}
  BY DEF ProcessEnds
<1> HIDE DEF Quiet
<1>3. ASSUME NEW s \in Sessions PROVE Sound(s, provider[s])'
  <2>1. /\ provider'[s].stage = q[s].stage /\ provider'[s].answer = q[s].answer
        /\ provider'[s].handle = q[s].handle /\ provider'[s].stopped = q[s].stopped
        /\ provider'[s].monitor = q[s].monitor /\ provider'[s].shown = q[s].shown
        /\ provider'[s].update \in {NoUpdate, q[s].update}
        /\ IF s \in alive THEN ~provider'[s].queued /\ provider'[s].update = NoUpdate
           ELSE provider'[s].queued = q[s].queued /\ provider'[s].update = q[s].update
    BY <1>1, <1>2
  <2>2. Sound(s, provider[s])
    BY Before
  <2>3. Watches(provider[s])'
    BY <2>1 DEF Watches
  <2>4. UpdatesOwn(s, provider[s])'
    BY <1>2, <2>1, <2>2 DEF Sound, UpdatesOwn
  <2>5. UpdatesToPath(s, provider[s])' /\ Follows(s, provider[s])'
    BY <1>2 DEF UpdatesToPath, Follows
  <2>6. Reported(s, provider[s])'
    BY <2>1, <2>2 DEF Sound, Reported, NoFile
  <2> QED
    BY <2>3, <2>4, <2>5, <2>6 DEF Sound
<1>4. \A s \in Sessions : provider[s].stopped = "after" => provider'[s].stopped = "after"
  BY <1>1, <1>2
<1> QED
  BY <1>3, <1>4 DEF PathInv, PerDevice, Strays

\* A stop cancels the monitor, and removes the file.
LEMMA StopFollows ==
  ASSUME ProviderInv, PathInv, NEW s \in Sessions, Stop(s) PROVE PathInv'
<1>1. /\ provider[s].stage = "settings" \/ provider[s].answer = "up"
      /\ errorFile' = NoFile /\ UNCHANGED <<world, endpoints, path>>
      /\ \/ ProcessEnds(Stopped(s))
         \/ provider' = Stopped(s) /\ UNCHANGED alive
  BY DEF Stop
<1>2. PICK p \in Provider :
           /\ Stopped(s) = [provider EXCEPT ![s] = p]
           /\ p.answer = provider[s].answer /\ p.handle = provider[s].handle
           /\ p.update = provider[s].update /\ p.shown = provider[s].shown
           /\ p.stopped # "no" /\ p.monitor # "on" /\ Watches(p)
           /\ p.queued = provider[s].queued
           /\ provider[s].stopped = "after" => p.stopped = "after"
  BY <1>1, StoppedFields
<1>3. Sound(s, provider[s]) /\ provider \in [Sessions -> Provider]
  BY Before DEF ProviderInv, Type
<1>4. CASE ProcessEnds(Stopped(s))
  <2>1. PICK q : q = Stopped(s)
    OBVIOUS
  <2>2. q \in [Sessions -> Provider] /\ q[s] = p /\ \A r \in Sessions \ {s} : q[r] = provider[r]
    BY <1>2, <1>3, <2>1
  <2>3. \A r \in Sessions : Watches(provider[r])
    BY DEF PathInv, Sound
  <2> QED
    BY <1>1, <1>2, <1>4, <2>1, <2>2, <2>3, ProcessEndsFollows
<1>5. CASE provider' = Stopped(s) /\ UNCHANGED alive
  <2>1. Watches(p)'
    BY <1>1, <1>2 DEF Watches
  <2>2. UpdatesOwn(s, p)' /\ Reported(s, p)'
    BY <1>1, <1>2, <1>3, <1>5 DEF Sound, UpdatesOwn, Reported, NoFile
  <2>3. Follows(s, p)'
    BY <1>2 DEF Follows
  <2>4. UpdatesToPath(s, p)'
    BY <1>2 DEF UpdatesToPath
  <2>5. Sound(s, p)'
    BY <2>1, <2>2, <2>3, <2>4 DEF Sound
  <2>6. errorFile'.error = None
    BY <1>1 DEF NoFile
  <2> QED
    BY <1>1, <1>2, <1>3, <1>5, <2>5, <2>6, SetsNothing, OneSession
<1> QED
  BY <1>1, <1>4, <1>5

\* The process is killed.
LEMMA KilledFollows ==
  ASSUME ProviderInv, PathInv, Killed PROVE PathInv'
<1>1. provider \in [Sessions -> Provider] /\ \A s \in Sessions : Watches(provider[s])
  BY DEF ProviderInv, Type, PathInv, Sound
<1>2. ProcessEnds(provider) /\ UNCHANGED <<world, endpoints, errorFile>>
  BY DEF Killed
<1> QED
  BY <1>1, <1>2, ProcessEndsFollows

\* A new path queues an update of every session that watches.
LEMMA PathChangesFollows ==
  ASSUME ProviderInv, PathInv, PathChanges PROVE PathInv'
<1> DEFINE Queued(p) == [p EXCEPT !.queued = TRUE]
<1>1. \A p \in Provider :
        /\ Queued(p).stage = p.stage /\ Queued(p).answer = p.answer
        /\ Queued(p).handle = p.handle /\ Queued(p).stopped = p.stopped
        /\ Queued(p).monitor = p.monitor /\ Queued(p).shown = p.shown
        /\ Queued(p).update = p.update /\ Queued(p).queued
        /\ Queued(p).read = p.read /\ Queued(p).since = p.since
  BY DEF Provider
<1>2. /\ UNCHANGED <<world, alive, endpoints, errorFile>>
      /\ provider' = [s \in Sessions |-> IF s \in alive /\ provider[s].monitor = "on"
                                         THEN Queued(provider[s]) ELSE provider[s]]
  BY DEF PathChanges
<1> HIDE DEF Queued
<1>3. ASSUME NEW s \in Sessions PROVE Sound(s, provider[s])'
  <2>1. /\ provider'[s].stage = provider[s].stage /\ provider'[s].answer = provider[s].answer
        /\ provider'[s].handle = provider[s].handle /\ provider'[s].stopped = provider[s].stopped
        /\ provider'[s].monitor = provider[s].monitor /\ provider'[s].shown = provider[s].shown
        /\ provider'[s].update = provider[s].update
        /\ IF s \in alive /\ provider[s].monitor = "on" THEN provider'[s].queued
           ELSE provider'[s] = provider[s]
    BY <1>1, <1>2 DEF ProviderInv, Type
  <2>2. Sound(s, provider[s])
    BY Before
  <2>3. Watches(provider[s])' /\ UpdatesOwn(s, provider[s])' /\ Reported(s, provider[s])'
    BY <1>2, <2>1, <2>2 DEF Sound, Watches, UpdatesOwn, Reported
  <2>4. UpdatesToPath(s, provider[s])'
    BY <1>2, <2>1 DEF UpdatesToPath
  <2>5. Follows(s, provider[s])'
    BY <1>2, <2>1, <2>2 DEF Sound, Watches, Follows
  <2> QED
    BY <2>3, <2>4, <2>5 DEF Sound
<1>4. \A s \in Sessions : provider[s].stopped = "after" => provider'[s].stopped = "after"
  BY <1>1, <1>2 DEF ProviderInv, Type
<1> QED
  BY <1>2, <1>3, <1>4 DEF PathInv, PerDevice, Strays

\* Steps that change nothing.
LEMMA PathStutters ==
  ASSUME PathInv, UNCHANGED vars PROVE PathInv'
BY DEF vars, PathInv, PerDevice, Strays, Sound, Watches, UpdatesOwn, UpdatesToPath, Follows,
       Reported

\* The two invariants together are inductive.
THEOREM PathInvariant == Spec => []PathInv
<1>1. Init => PathInv
  BY PathInit
<1>2. ProviderInv /\ PathInv /\ [Next]_vars => PathInv'
  <2> SUFFICES ASSUME ProviderInv, PathInv, [Next]_vars PROVE PathInv'
    OBVIOUS
  <2>1. ASSUME NEW s \in Sessions,
               \/ AppAsks(s) \/ NotLaunched(s) \/ StartTunnel(s) \/ SettingsReturn(s) \/ Open(s)
               \/ Stop(s) \/ UpdateBegins(s) \/ UpdateEnds(s) \/ AppShows(s)
        PROVE  PathInv'
    BY <2>1, AppAsksFollows, NotLaunchedFollows, StartTunnelFollows, SettingsReturnFollows,
       OpenFollows, StopFollows, UpdateBeginsFollows, UpdateEndsFollows, AppShowsFollows
  <2> QED
    BY <2>1, KilledFollows, PathChangesFollows, PathStutters DEF Next
<1> QED
  BY <1>1, <1>2, ProviderInvariant, PTL DEF Spec

\* For every number of sessions, of tunnels and of path changes: pathUpdate's read of the
\* handle and its call of wgSetConfig are not atomic and numbers are used again, but once
\* the updates have settled a session's endpoints are behind the path only by the updates
\* dropped before its handle was set, or by a late update of a session that was stopped.
THEOREM PathIsFollowed == Spec => []EndpointsFollowPath
<1>1. ASSUME ProviderInv, PathInv PROVE EndpointsFollowPath
  <2> SUFFICES ASSUME NEW s \in alive, world.build = "iOS", provider[s].answer = "up",
                      provider[s].stopped = "no", ~provider[s].queued,
                      provider[s].update = NoUpdate, NEW e \in endpoints[s]
               PROVE  IF e.by = s
                        THEN e.path = path \/ (e.path = provider[s].read /\ provider[s].since = path)
                        ELSE provider[e.by].stopped = "after"
    BY DEF EndpointsFollowPath
  <2>1. s \in Sessions
    BY <1>1 DEF ProviderInv, Type
  <2>2. Follows(s, provider[s])
    BY <1>1, <2>1 DEF PathInv, Sound
  <2>3. e.by = s \/ provider[e.by].stopped = "after"
    BY <1>1, <2>1 DEF PathInv, Strays
  <2> QED
    BY <2>2, <2>3 DEF Follows
<1> QED
  BY <1>1, ProviderInvariant, PathInvariant, PTL

\* The app never shows an attempt an error that was another's, whatever the error file
\* went through before.
THEOREM ShownIsOwn == Spec => []ReasonIsOfAttempt
<1>1. PathInv => ReasonIsOfAttempt
  BY DEF PathInv, Sound, Reported, ReasonIsOfAttempt
<1> QED
  BY <1>1, PathInvariant, PTL
=============================================================================
