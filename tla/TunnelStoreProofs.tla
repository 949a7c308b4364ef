------------------------- MODULE TunnelStoreProofs -------------------------
(***************************************************************************)
(* That reload keeps the invariant of TunnelStoreInvariant, and the        *)
(* theorems about the store: what was saved can be read back, names are    *)
(* unique, nothing is left behind in the keychain, and the list shows what *)
(* is stored.                                                              *)
(*                                                                         *)
(* reload goes through the loaded managers in the system's order.  Its     *)
(* loop invariant Reloaded says what the list is when the managers of D    *)
(* have been gone through: the containers that no manager has taken yet    *)
(* (Waiting) are those from before, and each manager gone through has a    *)
(* container.                                                              *)
(*                                                                         *)
(* The last two properties need more than the invariant says.  Clean, for  *)
(* as long as nothing has gone wrong, says who uses each item; Listing,    *)
(* while no reload is to come, says that the list lacks nothing.           *)
(***************************************************************************)
EXTENDS TunnelStoreInvariant, TLAPS

-----------------------------------------------------------------------------
(* reload.                                                                 *)

\* The container is kept: a loaded manager is equivalent to its manager.
Like(t) == \E i \in DOMAIN prefs : Equivalent(Loaded(prefs, items, i), tunnels[t])

ReloadStart == [items |-> items, tunnels |-> [t \in {u \in DOMAIN tunnels : Like(u)} |-> tunnels[t]],
                calls |-> Tail(calls), compared |-> DOMAIN tunnels # {}]

\* A migration of this reload.
NewSave(its, lost, D, c) ==
  /\ c \in ManagerCalls /\ c.op = "save" /\ c.manager.id \in D /\ IsLegacy(prefs, c.manager.id)
  /\ c.manager.name = prefs[c.manager.id].name /\ c.manager.legacy = NoBody
  /\ c.manager.id \notin lost => c.manager.ref \in DOMAIN its /\ its[c.manager.ref] = prefs[c.manager.id].legacy

\* A container that no manager gone through has taken, and one that has a loaded manager.
Waiting(D, t) ==
  /\ t \in DOMAIN tunnels /\ Like(t)
  /\ \A i \in D : ~Equivalent(Loaded(prefs, items, i), tunnels[t])
Touched(D, T, B, t) ==
  /\ T[t] \in Containers /\ Id(T, t) \in D
  /\ T[t].name = prefs[Id(T, t)].name /\ T[t].manager.name = prefs[Id(T, t)].name
  /\ T[t].manager.legacy \in {NoBody, prefs[Id(T, t)].legacy} /\ Agrees(prefs, B, Id(T, t), T[t].manager)
  /\ T[t].manager.available => T[t].manager.body # NoBody /\ Live(prefs, items, Id(T, t))
  /\ IsLegacy(prefs, Id(T, t)) \/ T[t].manager.available = (prefs[Id(T, t)].ref \in DOMAIN items)

\* A configuration that is listed for certain.
Firm(A, i) == ~refused \/ (ProfilesApart(prefs) /\ i \notin failed \cup Of(A, "modify") \cup Of(A, "remove"))

\* The managers of D have been gone through; A are the requests from before.
ReloadItems(s) ==
  /\ ItemsOK(s.items) /\ \A ref \in DOMAIN items : Same(items, s.items, ref)
  /\ \A ref \in DOMAIN s.items \ DOMAIN items : \A i \in DOMAIN prefs : prefs[i].ref # ref
  /\ (\A i \in DOMAIN prefs : ~IsLegacy(prefs, i)) => s.items = items
ReloadCalls(A, lost, D, s) ==
  /\ s.calls \in Seq(AllCalls) /\ InOrder(s.calls) /\ \A c \in ToSet(s.calls) : c.op # "load"
  /\ A \subseteq Asked(s.calls) /\ \A c \in Asked(s.calls) : c \in A \/ NewSave(s.items, lost, D, c)
ReloadList(A, D, s) ==
  /\ DOMAIN s.tunnels \subseteq Slots /\ \A t \in DOMAIN tunnels : Like(t) => t \in DOMAIN s.tunnels
  /\ \A t \in DOMAIN s.tunnels :
       IF Waiting(D, t) THEN s.tunnels[t] = tunnels[t] ELSE Touched(D, s.tunnels, Asked(s.calls), t)
  /\ \A t, u \in DOMAIN s.tunnels :
       Id(s.tunnels, t) = Id(s.tunnels, u) => t = u \/ Waiting(D, t) \/ Waiting(D, u)
  /\ \A t \in DOMAIN s.tunnels :
       \/ t \in DOMAIN tunnels /\ Like(t) /\ s.tunnels[t].name = tunnels[t].name
       \/ \A c \in A : c.slot # t
  /\ ShownDistinct(s.tunnels, refused)
  /\ \A i \in D : Firm(A, i) => \E t \in DOMAIN s.tunnels : Id(s.tunnels, t) = i /\ ~Waiting(D, t)
Reloaded(A, lost, D, s) ==
  /\ DOMAIN s = {"items", "tunnels", "calls", "compared"} /\ D \subseteq DOMAIN prefs
  /\ ReloadItems(s) /\ ReloadCalls(A, lost, D, s) /\ ReloadList(A, D, s)
  /\ OneOwner(prefs, s.tunnels, Asked(s.calls))

\* What reload knows of the store when it starts.
Loading(A) ==
  /\ Types /\ Disk(prefs, items, A, failed, refused) /\ List(prefs, items, tunnels, A, failed, refused)
  /\ OneOwner(prefs, tunnels, A)
  /\ A \subseteq ManagerCalls /\ \A c \in A : c.op \notin {"save", "drop"}

\* A manager that is loaded shows the stored configuration, whatever this reload has migrated.
LEMMA LoadedIs ==
  ASSUME Types, NEW its, ItemsOK(its), \A ref \in DOMAIN items : Same(items, its, ref),
         \A ref \in DOMAIN its \ DOMAIN items : \A i \in DOMAIN prefs : prefs[i].ref # ref,
         NEW i \in DOMAIN prefs
  PROVE  LET m == Loaded(prefs, items, i) IN
         /\ Loaded(prefs, its, i) = m /\ m \in Managers /\ m.id = i /\ m.name = prefs[i].name
         /\ m.ref = prefs[i].ref /\ m.legacy = prefs[i].legacy
         /\ m.available = (prefs[i].ref \in DOMAIN items)
         /\ m.available => m.body # NoBody /\ Live(prefs, items, i)
<1>1. prefs[i] \in Entries /\ i \in Ids /\ ItemsOK(items)
  BY DEF Types, PrefsOK
<1>2. /\ prefs[i].ref \in DOMAIN its <=> prefs[i].ref \in DOMAIN items
      /\ prefs[i].ref \in DOMAIN items => its[prefs[i].ref] = items[prefs[i].ref]
  BY DEF Same
<1>3. Loaded(prefs, its, i) = Loaded(prefs, items, i)
  BY <1>2 DEF Loaded
<1>4. PICK m : m = Loaded(prefs, items, i)
  OBVIOUS
<1>5. m.id = i /\ m.name = prefs[i].name /\ m.ref = prefs[i].ref /\ m.legacy = prefs[i].legacy
      /\ m.available = (prefs[i].ref \in DOMAIN items)
  BY <1>4 DEF Loaded
<1>6. m \in Managers
  BY <1>1, <1>4 DEF Loaded, Managers, Entries, ItemsOK
<1>7. ASSUME prefs[i].ref \in DOMAIN items PROVE m.body # NoBody /\ Live(prefs, items, i)
  <2>1. m.body = items[prefs[i].ref]
    BY <1>4, <1>7 DEF Loaded
  <2>2. prefs[i].ref # NoRef
    BY <1>1, <1>7, NoRefs DEF ItemsOK
  <2> QED
    BY <1>1, <1>7, <2>1, <2>2, StoreAssumption DEF ItemsOK, Live
<1>8. m.available => prefs[i].ref \in DOMAIN items
  BY <1>5
<1> QED
  BY <1>3, <1>4, <1>5, <1>6, <1>7, <1>8

\* Every configuration counts while nothing was refused, and those with an item always do.
LEMMA AllCount ==
  ASSUME NEW A, Loading(A), NEW i \in DOMAIN prefs, ~refused \/ Live(prefs, items, i),
         NEW j \in DOMAIN prefs, ~refused \/ Live(prefs, items, j), prefs[i].name = prefs[j].name
  PROVE  i = j
<1>1. Of(A, "drop") = {}
  BY DEF Loading, Of
<1>2. Counts(prefs, items, A, failed, refused, i) /\ Counts(prefs, items, A, failed, refused, j)
  BY <1>1 DEF Counts
<1> QED
  BY <1>2 DEF Loading, Disk, Distinct

\* One loaded manager.
LEMMA MatchedIs ==
  ASSUME NEW lost, NEW s, NEW i, DOMAIN s = {"items", "tunnels", "calls", "compared"},
         NEW n, n = Matched(lost, s, i), NEW m, m = Loaded(prefs, s.items, i),
         NEW like, like = {t \in DOMAIN s.tunnels : Equivalent(m, s.tunnels[t])}
  PROVE  /\ DOMAIN n = DOMAIN s
         /\ like # {} => /\ n.items = s.items /\ n.calls = s.calls
                         /\ n.tunnels = [s.tunnels EXCEPT ![Min(like)].manager = m]
         /\ like = {} => LET x == Migrated(m, IF i \in lost THEN NoRef ELSE NewRef(s)) IN
              /\ n.items = IF m.legacy = NoBody \/ i \in lost THEN s.items ELSE With(s.items, x.ref, m.legacy)
              /\ n.calls = IF m.legacy = NoBody THEN s.calls ELSE Append(s.calls, Call("save", NoRef, x))
              /\ n.tunnels = With(s.tunnels, NewSlot(s),
                   [name |-> m.name, manager |-> [x EXCEPT !.available =
                      IF s.compared \/ DOMAIN s.tunnels # {} THEN m.available ELSE x.ref \in DOMAIN n.items]])
<1>1. CASE like # {}
  <2>1. n = [s EXCEPT !.tunnels[Min(like)].manager = m]
    BY <1>1 DEF Matched
  <2> QED
    BY <1>1, <2>1
<1>2. CASE like = {}
  <2> DEFINE x == Migrated(m, IF i \in lost THEN NoRef ELSE NewRef(s))
             its == IF m.legacy = NoBody \/ i \in lost THEN s.items ELSE With(s.items, x.ref, m.legacy)
             T == With(s.tunnels, NewSlot(s),
                   [name |-> m.name, manager |-> [x EXCEPT !.available =
                      IF s.compared \/ DOMAIN s.tunnels # {} THEN m.available ELSE x.ref \in DOMAIN its]])
             cs == IF m.legacy = NoBody THEN s.calls ELSE Append(s.calls, Call("save", NoRef, x))
  <2>1. n = [s EXCEPT !.items = its, !.tunnels = T, !.calls = cs]
    BY <1>2 DEF Matched
  <2> HIDE DEF its, T, cs, x
  <2>2. DOMAIN n = DOMAIN s /\ n.items = its /\ n.tunnels = T /\ n.calls = cs
    BY <2>1
  <2> QED
    BY <1>2, <2>2 DEF its, T, cs, x
<1> QED
  BY <1>1, <1>2

\* The containers before a manager is matched.
LEMMA BeforeMatch ==
  ASSUME NEW A, NEW lost, NEW D, NEW s, Loading(A), Reloaded(A, lost, D, s), NEW t \in DOMAIN s.tunnels
  PROVE  LET c == s.tunnels[t] IN
         /\ c \in Containers /\ c.name = c.manager.name
         /\ \A i \in DOMAIN prefs \ D : Equivalent(Loaded(prefs, items, i), c) =>
              /\ prefs[i].name = c.name
              /\ ~refused => Waiting(D, t)
         /\ \A i \in DOMAIN prefs \ D : ~Equivalent(Loaded(prefs, items, i), c) /\ prefs[i].name = c.name =>
              refused /\ Loaded(prefs, items, i).available # c.manager.available
<1>1. /\ ItemsOK(items) /\ Types
      /\ \A ref \in DOMAIN items : Same(items, items, ref)
      /\ \A ref \in DOMAIN items \ DOMAIN items : \A i \in DOMAIN prefs : prefs[i].ref # ref
  BY DEF Loading, Types, Same
<1>2. ASSUME NEW i \in DOMAIN prefs
      PROVE  /\ Loaded(prefs, items, i).name = prefs[i].name
             /\ Loaded(prefs, items, i).available \in BOOLEAN
             /\ Loaded(prefs, items, i).available => Live(prefs, items, i)
  <2>1. Loaded(prefs, items, i).name = prefs[i].name /\ Loaded(prefs, items, i).available = (prefs[i].ref \in DOMAIN items)
        /\ (Loaded(prefs, items, i).available => Live(prefs, items, i))
    BY <1>1, LoadedIs
  <2> QED
    BY <2>1
<1>3. PICK c : c = s.tunnels[t]
  OBVIOUS
<1>4. IF Waiting(D, t) THEN c = tunnels[t] ELSE Touched(D, s.tunnels, Asked(s.calls), t)
  BY <1>3 DEF Reloaded, ReloadList
<1>5. c \in Containers /\ c.name = c.manager.name
  <2>1. CASE Waiting(D, t)
    BY <2>1, <1>1, <1>4 DEF Waiting, Types, ListOK, Loading, List, Named
  <2>2. CASE ~Waiting(D, t)
    BY <2>2, <1>3, <1>4 DEF Touched
  <2> QED
    BY <2>1, <2>2
<1>6. \A i \in DOMAIN prefs : Equivalent(Loaded(prefs, items, i), c) =>
         prefs[i].name = c.name /\ Loaded(prefs, items, i).available = c.manager.available
  BY <1>2, <1>5 DEF Equivalent
\* a configuration behind the container
<1>7. ASSUME NEW i \in DOMAIN prefs \ D, ~Waiting(D, t) \/ ~Equivalent(Loaded(prefs, items, i), c)
      PROVE  \E j \in DOMAIN prefs : j # i /\ prefs[j].name = c.name
                                      /\ (c.manager.available = TRUE => Live(prefs, items, j))
  <2>1. CASE Waiting(D, t)
    <3>1. PICK j \in DOMAIN prefs : Equivalent(Loaded(prefs, items, j), c)
      BY <2>1, <1>4 DEF Waiting, Like
    <3>2. j # i
      BY <1>7, <2>1, <3>1
    <3> QED
      BY <1>2, <1>6, <3>1, <3>2
  <2>2. CASE ~Waiting(D, t)
    <3>1. Id(s.tunnels, t) \in D /\ c.name = prefs[Id(s.tunnels, t)].name
          /\ (c.manager.available = TRUE => Live(prefs, items, Id(s.tunnels, t)))
      BY <1>3, <1>4, <2>2 DEF Touched
    <3>2. Id(s.tunnels, t) \in DOMAIN prefs
      BY <3>1 DEF Reloaded
    <3> QED
      BY <3>1, <3>2
  <2> QED
    BY <2>1, <2>2
<1>8. ASSUME NEW i \in DOMAIN prefs \ D, Equivalent(Loaded(prefs, items, i), c), ~refused PROVE Waiting(D, t)
  <2> SUFFICES ASSUME ~Waiting(D, t) PROVE FALSE
    OBVIOUS
  <2>1. PICK j \in DOMAIN prefs : j # i /\ prefs[j].name = c.name
    BY <1>7
  <2>2. prefs[i].name = prefs[j].name
    BY <1>6, <1>8, <2>1
  <2> QED
    BY <1>8, <2>1, <2>2, AllCount
<1>9. ASSUME NEW i \in DOMAIN prefs \ D, ~Equivalent(Loaded(prefs, items, i), c), prefs[i].name = c.name
      PROVE  refused /\ Loaded(prefs, items, i).available # c.manager.available
  <2>1. PICK j \in DOMAIN prefs : j # i /\ prefs[j].name = c.name
                                  /\ (c.manager.available = TRUE => Live(prefs, items, j))
    BY <1>7, <1>9
  <2>2. prefs[i].name = prefs[j].name
    BY <1>9, <2>1
  <2>3. ~refused => FALSE
    BY <2>1, <2>2, AllCount
  <2>4. ASSUME Loaded(prefs, items, i).available = c.manager.available PROVE FALSE
    <3>1. CASE c.manager.available = TRUE
      <4>1. Live(prefs, items, i) /\ Live(prefs, items, j)
        BY <1>2, <2>1, <2>4, <3>1
      <4> QED
        BY <2>1, <2>2, <4>1, AllCount
    <3>2. CASE c.manager.available = FALSE
      BY <1>2, <1>9, <2>4, <3>2 DEF Equivalent
    <3> QED
      BY <1>5, <3>1, <3>2 DEF Containers, Managers
  <2> QED
    BY <2>3, <2>4, <1>1 DEF Types
<1> QED
  BY <1>3, <1>5, <1>6, <1>8, <1>9

\* A container with a loaded manager of a firm configuration is not taken by another.
LEMMA NotTaken ==
  ASSUME NEW A, NEW lost, NEW D, NEW s, Loading(A), Reloaded(A, lost, D, s), NEW t \in DOMAIN s.tunnels,
         NEW i \in DOMAIN prefs \ D, Equivalent(Loaded(prefs, items, i), s.tunnels[t]), ~Waiting(D, t)
  PROVE  ~Firm(A, Id(s.tunnels, t))
<1>1. PICK j : j = Id(s.tunnels, t)
  OBVIOUS
<1>2. PICK c : c = s.tunnels[t]
  OBVIOUS
<1>3. Touched(D, s.tunnels, Asked(s.calls), t)
  BY DEF Reloaded, ReloadList
<1>4. /\ j \in D /\ j \in DOMAIN prefs /\ i # j /\ c.name = prefs[j].name
      /\ IsLegacy(prefs, j) \/ c.manager.available = (prefs[j].ref \in DOMAIN items)
      /\ c.manager.available \in BOOLEAN
  BY <1>1, <1>2, <1>3 DEF Touched, Reloaded, Containers, Managers
<1>5. prefs[i].name = c.name /\ refused
  BY <1>2, BeforeMatch DEF Loading, Types
<1>6. /\ Loaded(prefs, items, i).available = c.manager.available
      /\ Loaded(prefs, items, i).available => Live(prefs, items, i)
  <2>1. /\ ItemsOK(items) /\ Types
        /\ \A ref \in DOMAIN items : Same(items, items, ref)
        /\ \A ref \in DOMAIN items \ DOMAIN items : \A k \in DOMAIN prefs : prefs[k].ref # ref
    BY DEF Loading, Types, Same
  <2>2. Loaded(prefs, items, i).available => Live(prefs, items, i)
    BY <2>1, LoadedIs
  <2> QED
    BY <1>2, <2>2 DEF Equivalent
<1> SUFFICES ASSUME ProfilesApart(prefs), j \notin failed \cup Of(A, "modify") \cup Of(A, "remove") PROVE FALSE
  BY <1>1, <1>5 DEF Firm
<1>7. j \notin Breaking(A)
  BY DEF Breaking, Breaks, Of
<1>8. CASE IsLegacy(prefs, j)
  <2>1. prefs[j].name \in ProfileNames
    BY <1>4, <1>8 DEF Loading, Disk, Legacies, LegacyOK, IsLegacy
  <2> QED
    BY <1>4, <1>5, <2>1 DEF ProfilesApart
<1>9. CASE ~IsLegacy(prefs, j)
  <2>1. prefs[j].ref \in DOMAIN items
    BY <1>4, <1>7, <1>9 DEF Loading, Disk, Kept, IsGood, IsLegacy
  <2>2. Live(prefs, items, j)
    BY <2>1, NoRefs DEF Live, Loading, Types, ItemsOK
  <2>3. Live(prefs, items, i)
    BY <1>4, <1>6, <1>9, <2>1
  <2> QED
    BY <1>4, <1>5, <2>2, <2>3, AllCount
<1> QED
  BY <1>8, <1>9

\* Nothing is being saved for a configuration that has not been gone through.
LEMMA NotSaving ==
  ASSUME NEW A, NEW lost, NEW D, NEW s, Loading(A), Reloaded(A, lost, D, s), NEW i, i \notin D
  PROVE  Saving(prefs, Asked(s.calls), i) = {}
BY DEF Saving, Reloaded, ReloadCalls, NewSave, Loading

\* A loaded manager takes over the container of an equivalent one.
LEMMA MatchTakes ==
  ASSUME NEW A, NEW lost, NEW D, NEW s, Loading(A), Reloaded(A, lost, D, s), NEW i \in DOMAIN prefs \ D,
         \E t \in DOMAIN s.tunnels : Equivalent(Loaded(prefs, s.items, i), s.tunnels[t])
  PROVE  Reloaded(A, lost, D \cup {i}, Matched(lost, s, i))
<1> DEFINE E == D \cup {i}
           B == Asked(s.calls)
           T == s.tunnels
<1>1. PICK n : n = Matched(lost, s, i)
  OBVIOUS
<1>2. PICK m : m = Loaded(prefs, s.items, i)
  OBVIOUS
<1>3. m = Loaded(prefs, items, i) /\ m \in Managers /\ m.id = i /\ m.name = prefs[i].name
      /\ m.ref = prefs[i].ref /\ m.legacy = prefs[i].legacy
      /\ (m.available => m.body # NoBody /\ Live(prefs, items, i)) /\ m.available = (prefs[i].ref \in DOMAIN items)
  <2>1. Types /\ ItemsOK(s.items) /\ (\A ref \in DOMAIN items : Same(items, s.items, ref))
        /\ \A ref \in DOMAIN s.items \ DOMAIN items : \A j \in DOMAIN prefs : prefs[j].ref # ref
    BY DEF Loading, Reloaded, ReloadItems
  <2> QED
    BY <2>1, <1>2, LoadedIs
<1>4. PICK like : like = {t \in DOMAIN s.tunnels : Equivalent(m, s.tunnels[t])}
  OBVIOUS
<1>5. DOMAIN T \subseteq Slots /\ DOMAIN s = {"items", "tunnels", "calls", "compared"}
  BY DEF Reloaded, ReloadList
<1>6. like # {} /\ like \in SUBSET Nat
  BY <1>2, <1>4, <1>5, StoreAssumption
<1>7. PICK t0 : t0 = Min(like)
  OBVIOUS
<1>8. t0 \in like
  BY <1>6, <1>7, MinIs
<1>9. /\ DOMAIN n = DOMAIN s /\ n.items = s.items /\ n.calls = s.calls
      /\ n.tunnels = [s.tunnels EXCEPT ![t0].manager = m]
  <2>1. n = [s EXCEPT !.tunnels[Min(like)].manager = m]
    BY <1>1, <1>2, <1>4, <1>6 DEF Matched
  <2> HIDE DEF T
  <2> QED
    BY <1>5, <1>7, <2>1
<1>10. t0 \in DOMAIN T /\ Equivalent(m, T[t0])
  BY <1>4, <1>8
<1> HIDE DEF T, B, E
<1>11. \A t \in DOMAIN T : T[t] \in Containers /\ T[t].name = T[t].manager.name
  BY BeforeMatch DEF T
<1>12. T[t0].name = prefs[i].name /\ m.available = T[t0].manager.available
       /\ (Waiting(D, t0) \/ ~Firm(A, Id(T, t0)))
  BY <1>3, <1>10, BeforeMatch, NotTaken DEF T, Equivalent
<1>13. PICK U : U = n.tunnels
  OBVIOUS
<1>14. /\ DOMAIN U = DOMAIN T /\ U[t0].name = prefs[i].name /\ U[t0].manager = m /\ U[t0] \in Containers
       /\ \A t \in DOMAIN T \ {t0} : U[t] = T[t]
  <2>1. U = [T EXCEPT ![t0].manager = m]
    BY <1>9, <1>13 DEF T
  <2>2. DOMAIN U = DOMAIN T /\ U[t0] = [T[t0] EXCEPT !.manager = m] /\ \A t \in DOMAIN T \ {t0} : U[t] = T[t]
    BY <1>10, <2>1
  <2>3. T[t0] = [name |-> T[t0].name, manager |-> T[t0].manager]
    BY <1>10, <1>11 DEF Containers
  <2>4. U[t0] = [name |-> T[t0].name, manager |-> m]
    BY <2>2, <2>3
  <2>5. U[t0] \in Containers
    BY <1>3, <1>10, <1>11, <2>4 DEF Containers
  <2> QED
    BY <1>12, <2>2, <2>4, <2>5
\* at most one container is like the loaded manager
<1>15. \A t \in DOMAIN T : Equivalent(m, T[t]) => t = t0
  <2> SUFFICES ASSUME NEW t \in DOMAIN T, Equivalent(m, T[t]) PROVE t = t0
    OBVIOUS
  <2>1. T[t].name = prefs[i].name
    BY <1>3, BeforeMatch DEF T
  <2>2. m.available = T[t].manager.available
    BY DEF Equivalent
  <2>3. ShownDistinct(T, refused)
    BY DEF Reloaded, ReloadList, T
  <2> QED
    BY <1>10, <1>12, <2>1, <2>2, <2>3 DEF ShownDistinct
<1>16. \A t \in DOMAIN T : IF Waiting(D, t) THEN T[t] = tunnels[t] ELSE Touched(D, T, B, t)
  BY DEF Reloaded, ReloadList, T, B
<1>17. \A t \in DOMAIN T : Waiting(E, t) <=> Waiting(D, t) /\ ~Equivalent(m, tunnels[t])
  BY <1>3 DEF Waiting, E
<1>18. ~Waiting(E, t0) /\ \A t \in DOMAIN T \ {t0} : Waiting(E, t) <=> Waiting(D, t)
  BY <1>10, <1>15, <1>16, <1>17
<1>19. Touched(E, U, B, t0)
  <2>1. Id(U, t0) = i
    BY <1>3, <1>14 DEF Id
  <2>2. Agrees(prefs, B, i, m)
    BY <1>3, NotSaving DEF Agrees, IsLegacy, B
  <2> QED
    BY <1>3, <1>14, <2>1, <2>2 DEF Touched, E
<1>20. \A t \in DOMAIN U : IF Waiting(E, t) THEN U[t] = tunnels[t] ELSE Touched(E, U, B, t)
  <2> SUFFICES ASSUME NEW t \in DOMAIN T, t # t0
               PROVE  IF Waiting(E, t) THEN U[t] = tunnels[t] ELSE Touched(E, U, B, t)
    BY <1>14, <1>18, <1>19
  <2>1. U[t] = T[t] /\ Id(U, t) = Id(T, t)
    BY <1>14 DEF Id
  <2>2. CASE Waiting(D, t)
    BY <1>16, <1>18, <2>1, <2>2
  <2>3. CASE ~Waiting(D, t)
    <3>1. Touched(D, T, B, t) /\ ~Waiting(E, t)
      BY <1>16, <1>18, <2>3
    <3>2. Touched(E, U, B, t)
      BY <2>1, <3>1 DEF Touched, E
    <3> QED
      BY <3>1, <3>2
  <2> QED
    BY <2>2, <2>3
<1>21. \A t \in DOMAIN T \ {t0} : Id(U, t) = Id(T, t) /\ (Waiting(E, t) \/ (Id(T, t) \in D /\ Id(T, t) # i))
  BY <1>14, <1>16, <1>18 DEF Id, Touched
<1>22. Id(U, t0) = i
  BY <1>3, <1>14 DEF Id
<1>23. ReloadList(A, E, n)
  <2>1. DOMAIN U \subseteq Slots /\ \A t \in DOMAIN tunnels : Like(t) => t \in DOMAIN U
    BY <1>5, <1>14 DEF Reloaded, ReloadList, T
  <2>2. \A t, u \in DOMAIN U : Id(U, t) = Id(U, u) => t = u \/ Waiting(E, t) \/ Waiting(E, u)
    <3>1. \A t, u \in DOMAIN T : Id(T, t) = Id(T, u) => t = u \/ Waiting(D, t) \/ Waiting(D, u)
      BY DEF Reloaded, ReloadList, T
    <3> QED
      BY <1>14, <1>18, <1>21, <1>22, <3>1
  <2>3. \A t \in DOMAIN U :
       \/ t \in DOMAIN tunnels /\ Like(t) /\ U[t].name = tunnels[t].name
       \/ \A c \in A : c.slot # t
    <3>1. \A t \in DOMAIN T : U[t].name = T[t].name
      BY <1>12, <1>14
    <3>2. \A t \in DOMAIN T :
       \/ t \in DOMAIN tunnels /\ Like(t) /\ T[t].name = tunnels[t].name
       \/ \A c \in A : c.slot # t
      BY DEF Reloaded, ReloadList, T
    <3> QED
      BY <1>14, <3>1, <3>2
  <2>4. ShownDistinct(U, refused)
    <3>1. \A t \in DOMAIN T : U[t].name = T[t].name /\ U[t].manager.available = T[t].manager.available
      BY <1>12, <1>14
    <3>2. ShownDistinct(T, refused)
      BY DEF Reloaded, ReloadList, T
    <3> QED
      BY <1>14, <3>1, <3>2 DEF ShownDistinct
  <2>5. \A j \in E : Firm(A, j) => \E t \in DOMAIN U : Id(U, t) = j /\ ~Waiting(E, t)
    <3>1. \A j \in D : Firm(A, j) => \E t \in DOMAIN T : Id(T, t) = j /\ ~Waiting(D, t)
      BY DEF Reloaded, ReloadList, T
    <3>2. t0 \in DOMAIN U /\ Id(U, t0) = i /\ ~Waiting(E, t0)
      BY <1>10, <1>14, <1>18, <1>22
    <3>3. \A j \in D : Firm(A, j) => \E t \in DOMAIN U : Id(U, t) = j /\ ~Waiting(E, t)
      BY <1>12, <1>14, <1>18, <1>21, <3>1
    <3> QED
      BY <3>2, <3>3 DEF E
  <2> QED
    BY <1>9, <1>13, <1>20, <2>1, <2>2, <2>3, <2>4, <2>5 DEF ReloadList, B
<1>24. ReloadItems(n) /\ ReloadCalls(A, lost, E, n)
  BY <1>9 DEF Reloaded, ReloadItems, ReloadCalls, NewSave, E
<1>25. OneOwner(prefs, U, B)
  <2>1. ASSUME NEW ref, NEW j, Held(prefs, U, B, ref, j) PROVE Held(prefs, T, B, ref, j)
    BY <1>3, <1>14, <2>1 DEF Held
  <2>2. OneOwner(prefs, T, B)
    BY DEF Reloaded, T, B
  <2> QED
    BY <2>1, <2>2 DEF OneOwner
<1> QED
  BY <1>1, <1>5, <1>9, <1>13, <1>23, <1>24, <1>25 DEF Reloaded, E, B

\* What becomes of the list when a manager gets a container t0 of its own, with the
\* requests C that join.
Listed(lost, s, i, n, t0, nm, C) ==
  /\ DOMAIN n = DOMAIN s
  /\ t0 \in Slots /\ t0 \notin DOMAIN s.tunnels /\ \A c \in Asked(s.calls) : c.slot # t0
  /\ n.tunnels = With(s.tunnels, t0, [name |-> prefs[i].name, manager |-> nm])
  /\ nm \in Managers /\ nm.id = i /\ nm.name = prefs[i].name /\ nm.legacy = NoBody
  /\ DOMAIN s.tunnels # {} => nm.available = Loaded(prefs, items, i).available
  /\ nm.available => nm.body # NoBody /\ Live(prefs, items, i)
  /\ IsLegacy(prefs, i) \/ (nm.available = (prefs[i].ref \in DOMAIN items) /\ n.items = s.items)
  /\ ItemsOK(n.items) /\ \A ref \in DOMAIN s.items : Same(s.items, n.items, ref)
  /\ \A ref \in DOMAIN n.items \ DOMAIN s.items : \A j \in DOMAIN prefs : prefs[j].ref # ref
  /\ n.calls \in Seq(AllCalls) /\ InOrder(n.calls) /\ \A c \in ToSet(n.calls) : c.op # "load"
  /\ Asked(n.calls) = Asked(s.calls) \cup C
  /\ \A c \in C : NewSave(n.items, lost, {i}, c) /\ c.manager.ref = nm.ref
  /\ Agrees(prefs, Asked(n.calls), i, nm)
  /\ nm.ref \in Refs =>
       nm.ref = prefs[i].ref \/ \A j : ~Held(prefs, s.tunnels, Asked(s.calls), nm.ref, j)

\* A loaded manager like no other changes one container: its namesake's, or a new one.
LEMMA MatchedAnew ==
  ASSUME NEW A, NEW lost, NEW D, NEW s, Loading(A), Reloaded(A, lost, D, s), NEW i \in DOMAIN prefs \ D,
         Room(s), \A t \in DOMAIN s.tunnels : ~Equivalent(Loaded(prefs, s.items, i), s.tunnels[t])
  PROVE  \E t0, nm, C : Listed(lost, s, i, Matched(lost, s, i), t0, nm, C)
<1>1. PICK n : n = Matched(lost, s, i)
  OBVIOUS
<1>2. PICK m : m = Loaded(prefs, s.items, i)
  OBVIOUS
<1>3. m = Loaded(prefs, items, i) /\ m \in Managers /\ m.id = i /\ m.name = prefs[i].name
      /\ m.ref = prefs[i].ref /\ m.legacy = prefs[i].legacy
      /\ m.available = (prefs[i].ref \in DOMAIN items)
      /\ (m.available => m.body # NoBody /\ Live(prefs, items, i))
  <2>1. Types /\ ItemsOK(s.items) /\ (\A ref \in DOMAIN items : Same(items, s.items, ref))
        /\ \A ref \in DOMAIN s.items \ DOMAIN items : \A j \in DOMAIN prefs : prefs[j].ref # ref
    BY DEF Loading, Reloaded, ReloadItems
  <2> QED
    BY <2>1, <1>2, LoadedIs
<1>4. DOMAIN s = {"items", "tunnels", "calls", "compared"} /\ ItemsOK(s.items)
      /\ s.calls \in Seq(AllCalls) /\ InOrder(s.calls) /\ (\A c \in ToSet(s.calls) : c.op # "load")
      /\ i \in Ids /\ prefs[i] \in Entries /\ LegacyOK(prefs[i])
  BY DEF Reloaded, ReloadItems, ReloadCalls, Loading, Types, PrefsOK, Disk, Legacies
<1>5. PICK new : new = NewRef(s)
  OBVIOUS
<1>6. new \in Refs /\ new \notin DOMAIN s.items /\ new # NoRef
      /\ (\A j \in DOMAIN prefs : prefs[j].ref # new)
      /\ (\A c \in DOMAIN s.tunnels : s.tunnels[c].manager.ref # new)
      /\ (\A c \in Asked(s.calls) : c.manager.ref # new)
  BY <1>5, FreshRef DEF Room
<1>7. PICK t0 : t0 = NewSlot(s)
  OBVIOUS
<1>8. t0 \in Slots /\ t0 \notin DOMAIN s.tunnels /\ \A c \in Asked(s.calls) : c.slot # t0
  BY <1>7, FreshSlot DEF Room
<1>9. PICK ref : ref = IF i \in lost THEN NoRef ELSE new
  OBVIOUS
<1>10. PICK x : x = Migrated(m, ref)
  OBVIOUS
<1>11. PICK its : its = IF m.legacy = NoBody \/ i \in lost THEN s.items ELSE With(s.items, x.ref, m.legacy)
  OBVIOUS
<1>12. PICK av : av = IF s.compared \/ DOMAIN s.tunnels # {} THEN m.available ELSE x.ref \in DOMAIN its
  OBVIOUS
<1>13. PICK nm : nm = [x EXCEPT !.available = av]
  OBVIOUS
<1>14. PICK cs : cs = IF m.legacy = NoBody THEN s.calls ELSE Append(s.calls, Call("save", NoRef, x))
  OBVIOUS
<1>15. DOMAIN n = DOMAIN s /\ n.items = its /\ n.calls = cs
       /\ n.tunnels = With(s.tunnels, t0, [name |-> prefs[i].name, manager |-> nm])
  <2>1. {t \in DOMAIN s.tunnels : Equivalent(m, s.tunnels[t])} = {}
    BY <1>2
  <2>2. n = [s EXCEPT !.items = its, !.tunnels = With(s.tunnels, t0, [name |-> m.name, manager |-> nm]),
                      !.calls = cs]
    BY <2>1, <1>1, <1>2, <1>4, <1>5, <1>7, <1>9, <1>10, <1>11, <1>12, <1>13, <1>14 DEF Matched
  <2>3. PICK tun : tun = With(s.tunnels, t0, [name |-> m.name, manager |-> nm])
    OBVIOUS
  <2>4. n = [s EXCEPT !.items = its, !.tunnels = tun, !.calls = cs]
    BY <2>2, <2>3
  <2>5. DOMAIN n = DOMAIN s /\ n.items = its /\ n.calls = cs /\ n.tunnels = tun
    BY <1>4, <2>4
  <2> QED
    BY <1>3, <2>3, <2>5
<1>16. av \in BOOLEAN /\ (DOMAIN s.tunnels # {} => av = m.available)
  <2>1. m.available \in BOOLEAN
    BY <1>3 DEF Managers
  <2>2. CASE s.compared \/ DOMAIN s.tunnels # {}
    BY <1>12, <2>1, <2>2
  <2>3. CASE ~(s.compared \/ DOMAIN s.tunnels # {})
    BY <1>12, <2>3
  <2> QED
    BY <2>2, <2>3
<1>17. \A j : ~Held(prefs, s.tunnels, Asked(s.calls), new, j)
  BY <1>6 DEF Held
<1>18. Saving(prefs, Asked(s.calls), i) = {}
  BY NotSaving
<1>19. CASE m.legacy = NoBody
  <2>1. x = m /\ its = s.items /\ cs = s.calls
    BY <1>10, <1>11, <1>14, <1>19 DEF Migrated
  <2>2. m.ref \in DOMAIN s.items <=> m.available
    BY <1>2 DEF Loaded
  <2>3. av = m.available
    BY <1>3, <1>12, <2>1, <2>2 DEF Managers
  <2>4. nm = m
    BY <1>3, <1>13, <2>1, <2>3 DEF Managers
  <2>5. Agrees(prefs, Asked(s.calls), i, nm)
    BY <1>3, <1>18, <1>19, <2>4 DEF Agrees, IsLegacy
  <2>6. Listed(lost, s, i, n, t0, nm, {})
    BY <1>3, <1>4, <1>8, <1>15, <1>19, <2>1, <2>4, <2>5 DEF Listed, Same
  <2> QED
    BY <1>1, <2>6
<1>20. CASE m.legacy # NoBody
  <2>1. x = [m EXCEPT !.legacy = NoBody, !.ref = ref, !.body = IF ref = NoRef THEN NoBody ELSE m.legacy]
    BY <1>10, <1>20 DEF Migrated
  <2>2. ref \in Refs \cup {NoRef} /\ m.legacy \in Bodies /\ prefs[i].ref = NoRef
    BY <1>3, <1>4, <1>6, <1>9, <1>20 DEF Entries, LegacyOK
  <2>3. /\ x \in Managers /\ x.id = i /\ x.name = prefs[i].name /\ x.legacy = NoBody /\ x.ref = ref
        /\ x.body = IF ref = NoRef THEN NoBody ELSE m.legacy
    BY <1>3, <2>1, <2>2 DEF Managers
  <2>4. /\ nm \in Managers /\ nm.id = i /\ nm.name = prefs[i].name /\ nm.legacy = NoBody /\ nm.ref = ref
        /\ nm.body = x.body /\ nm.available = av
    BY <1>13, <1>16, <2>3 DEF Managers
  <2>5. ~m.available
    BY <1>3, <2>2, NoRefs, <1>4 DEF Loading, Types, ItemsOK
  <2>6. ItemsOK(its) /\ (\A r \in DOMAIN s.items : Same(s.items, its, r))
        /\ (\A r \in DOMAIN its \ DOMAIN s.items : r = new)
        /\ (i \notin lost => ref \in DOMAIN its /\ its[ref] = m.legacy)
    <3>1. CASE i \in lost
      BY <1>4, <1>11, <3>1 DEF Same
    <3>2. CASE i \notin lost
      <4>1. its = With(s.items, new, m.legacy) /\ ref = new
        BY <1>9, <1>11, <1>20, <2>3, <3>2
      <4>2. DOMAIN its = DOMAIN s.items \cup {new} /\ its[new] = m.legacy
            /\ \A r \in DOMAIN s.items : its[r] = s.items[r]
        BY <1>6, <4>1 DEF With
      <4> QED
        BY <1>4, <1>6, <2>2, <4>1, <4>2 DEF ItemsOK, Same
    <3> QED
      BY <3>1, <3>2
  <2>7. av => nm.body # NoBody /\ Live(prefs, items, i)
    <3>1. ASSUME av PROVE ref \in DOMAIN its
      BY <1>12, <2>3, <2>5, <3>1
    <3>2. NoRef \notin DOMAIN its
      BY <2>6, NoRefs DEF ItemsOK
    <3> QED
      BY <1>3, <1>20, <2>2, <2>3, <2>4, <3>1, <3>2, StoreAssumption DEF Live, IsLegacy
  <2>8. PICK c : c = Call("save", NoRef, x)
    OBVIOUS
  <2>9. c \in ManagerCalls /\ c.op = "save" /\ c.manager = x
    BY <2>3, <2>8 DEF ManagerCalls, Call, Ops
  <2>10. cs \in Seq(AllCalls) /\ InOrder(cs) /\ ToSet(cs) = ToSet(s.calls) \cup {c}
         /\ Asked(cs) = Asked(s.calls) \cup {c}
    <3>1. cs = Append(s.calls, c) /\ c \in AllCalls
      BY <1>14, <1>20, <2>8, <2>9 DEF AllCalls
    <3>2. c.op \notin EditOps
      BY <2>9 DEF EditOps
    <3> QED
      BY <1>4, <2>9, <3>1, <3>2, AppendInOrder
  <2>11. NewSave(its, lost, {i}, c) /\ c.manager.ref = nm.ref
    BY <1>3, <1>20, <2>3, <2>4, <2>6, <2>9 DEF NewSave, IsLegacy
  <2>12. Agrees(prefs, Asked(cs), i, nm)
    <3>1. Saving(prefs, Asked(cs), i) = {c}
      BY <1>3, <1>18, <1>20, <2>3, <2>9, <2>10 DEF Saving, IsLegacy
    <3> QED
      BY <2>4, <2>11, <3>1 DEF Agrees
  <2>13. ref \in Refs => ref = new
    BY <1>9, NoRefs
  <2>14. \A d \in ToSet(cs) : d.op # "load"
    BY <1>4, <2>9, <2>10
  <2>15. /\ DOMAIN s.tunnels # {} => nm.available = Loaded(prefs, items, i).available
         /\ nm.available => nm.body # NoBody /\ Live(prefs, items, i)
    BY <1>3, <1>16, <2>4, <2>7
  <2>16. \A r \in DOMAIN its \ DOMAIN s.items : \A j \in DOMAIN prefs : prefs[j].ref # r
    BY <1>6, <2>6
  <2>17. nm.ref \in Refs => \A j : ~Held(prefs, s.tunnels, Asked(s.calls), nm.ref, j)
    BY <1>17, <2>4, <2>13
  <2>18. \A d \in {c} : NewSave(its, lost, {i}, d) /\ d.manager.ref = nm.ref
    BY <2>11
  <2>19. Listed(lost, s, i, n, t0, nm, {c})
    <3>1. IsLegacy(prefs, i)
      BY <1>3, <1>20 DEF IsLegacy
    <3> QED
      BY <1>8, <1>15, <2>4, <2>6, <2>10, <2>12, <2>14, <2>15, <2>16, <2>17, <2>18, <3>1 DEF Listed
  <2> QED
    BY <1>1, <2>19
<1> QED
  BY <1>19, <1>20

\* A loaded manager like no other is matched.
LEMMA MatchAdds ==
  ASSUME NEW A, NEW lost, NEW D, NEW s, Loading(A), Reloaded(A, lost, D, s), NEW i \in DOMAIN prefs \ D,
         Room(s), \A t \in DOMAIN s.tunnels : ~Equivalent(Loaded(prefs, s.items, i), s.tunnels[t])
  PROVE  Reloaded(A, lost, D \cup {i}, Matched(lost, s, i))
<1> DEFINE E == D \cup {i}
           B == Asked(s.calls)
           T == s.tunnels
<1>1. PICK n : n = Matched(lost, s, i)
  OBVIOUS
<1>2. PICK t0, nm, C : Listed(lost, s, i, n, t0, nm, C)
  BY <1>1, MatchedAnew
<1>3. PICK U : U = n.tunnels
  OBVIOUS
<1>4. PICK G : G = Asked(n.calls)
  OBVIOUS
<1>5. PICK m : m = Loaded(prefs, items, i)
  OBVIOUS
<1>6. \A t \in DOMAIN T : ~Equivalent(m, T[t])
  <2>1. Types /\ ItemsOK(s.items) /\ (\A ref \in DOMAIN items : Same(items, s.items, ref))
        /\ \A ref \in DOMAIN s.items \ DOMAIN items : \A j \in DOMAIN prefs : prefs[j].ref # ref
    BY DEF Loading, Reloaded, ReloadItems
  <2>2. Loaded(prefs, s.items, i) = m
    BY <2>1, <1>5, LoadedIs
  <2> QED
    BY <2>2
<1>7. DOMAIN T \subseteq Slots /\ DOMAIN s = {"items", "tunnels", "calls", "compared"} /\ i \in Ids
      /\ E \subseteq DOMAIN prefs
  BY DEF Reloaded, ReloadList, Loading, Types, PrefsOK
<1> HIDE DEF T, B, E
<1>8. /\ t0 \in Slots /\ t0 \notin DOMAIN T /\ \A c \in B : c.slot # t0
      /\ nm \in Managers /\ nm.id = i /\ nm.name = prefs[i].name /\ nm.legacy = NoBody
      /\ DOMAIN T # {} => nm.available = m.available
      /\ nm.available => nm.body # NoBody /\ Live(prefs, items, i)
      /\ IsLegacy(prefs, i) \/ nm.available = (prefs[i].ref \in DOMAIN items)
      /\ G = B \cup C /\ Agrees(prefs, G, i, nm)
      /\ \A c \in C : NewSave(n.items, lost, {i}, c) /\ c.manager.ref = nm.ref
  BY <1>2, <1>4, <1>5 DEF Listed, T, B
<1>9. /\ DOMAIN U = DOMAIN T \cup {t0} /\ U[t0] = [name |-> prefs[i].name, manager |-> nm]
      /\ \A t \in DOMAIN T : U[t] = T[t]
  BY <1>2, <1>3, <1>8 DEF Listed, T, With
<1>10. U[t0] \in Containers /\ Id(U, t0) = i /\ \A t \in DOMAIN T : Id(U, t) = Id(T, t)
  BY <1>8, <1>9 DEF Containers, Managers, Id
<1>11. \A t \in DOMAIN tunnels : Like(t) => t \in DOMAIN T
  BY DEF Reloaded, ReloadList, T
<1>12. \A t \in DOMAIN T : IF Waiting(D, t) THEN T[t] = tunnels[t] ELSE Touched(D, T, B, t)
  BY DEF Reloaded, ReloadList, T, B
<1>13. ~Waiting(E, t0) /\ \A t \in DOMAIN T : Waiting(E, t) <=> Waiting(D, t)
  BY <1>5, <1>6, <1>8, <1>11, <1>12 DEF Waiting, E
<1>14. Touched(E, U, G, t0)
  <2>1. nm.legacy \in {NoBody, prefs[i].legacy}
    BY <1>8
  <2> QED
    BY <1>8, <1>9, <1>10, <2>1 DEF Touched, E
<1>15. \A c \in C : c.op = "save" /\ c.manager.id = i
  BY <1>8 DEF NewSave
<1>16. \A j \in D : Saving(prefs, G, j) = Saving(prefs, B, j) /\ j # i
  BY <1>8, <1>15 DEF Saving
<1>17. \A t \in DOMAIN U : IF Waiting(E, t) THEN U[t] = tunnels[t] ELSE Touched(E, U, G, t)
  <2> SUFFICES ASSUME NEW t \in DOMAIN T
               PROVE  IF Waiting(E, t) THEN U[t] = tunnels[t] ELSE Touched(E, U, G, t)
    BY <1>9, <1>13, <1>14
  <2>1. CASE Waiting(D, t)
    BY <1>9, <1>12, <1>13, <2>1
  <2>2. CASE ~Waiting(D, t)
    <3>1. Touched(D, T, B, t) /\ ~Waiting(E, t)
      BY <1>12, <1>13, <2>2
    <3>2. Agrees(prefs, B, Id(T, t), T[t].manager) /\ Id(T, t) \in D
      BY <3>1 DEF Touched
    <3>3. Agrees(prefs, G, Id(T, t), T[t].manager)
      BY <1>16, <3>2 DEF Agrees
    <3>4. Touched(E, U, G, t)
      BY <1>9, <1>10, <3>1, <3>3 DEF Touched, E
    <3> QED
      BY <3>1, <3>4
  <2> QED
    BY <2>1, <2>2
<1>18. \A t \in DOMAIN T : Waiting(D, t) \/ Id(T, t) \in D
  BY <1>12 DEF Touched
<1>19. A \subseteq B
  BY DEF Reloaded, ReloadCalls, B
<1>20. ReloadList(A, E, n)
  <2>1. DOMAIN U \subseteq Slots /\ \A t \in DOMAIN tunnels : Like(t) => t \in DOMAIN U
    BY <1>7, <1>8, <1>9, <1>11
  <2>2. \A t, u \in DOMAIN U : Id(U, t) = Id(U, u) => t = u \/ Waiting(E, t) \/ Waiting(E, u)
    <3>1. \A t, u \in DOMAIN T : Id(T, t) = Id(T, u) => t = u \/ Waiting(D, t) \/ Waiting(D, u)
      BY DEF Reloaded, ReloadList, T
    <3> QED
      BY <1>9, <1>10, <1>13, <1>18, <3>1
  <2>3. \A t \in DOMAIN U :
       \/ t \in DOMAIN tunnels /\ Like(t) /\ U[t].name = tunnels[t].name
       \/ \A c \in A : c.slot # t
    <3>1. \A t \in DOMAIN T :
       \/ t \in DOMAIN tunnels /\ Like(t) /\ T[t].name = tunnels[t].name
       \/ \A c \in A : c.slot # t
      BY DEF Reloaded, ReloadList, T
    <3> QED
      BY <1>8, <1>9, <1>19, <3>1
  <2>4. ShownDistinct(U, refused)
    <3>1. \A t \in DOMAIN T : prefs[i].name = T[t].name => refused /\ m.available # T[t].manager.available
      BY <1>5, <1>6, BeforeMatch DEF T
    <3>2. ShownDistinct(T, refused)
      BY DEF Reloaded, ReloadList, T
    <3>3. ASSUME NEW t \in DOMAIN T, U[t].name = U[t0].name,
                 refused => U[t].manager.available = U[t0].manager.available
          PROVE  FALSE
      <4>1. T[t].name = prefs[i].name /\ (refused => T[t].manager.available = nm.available)
        BY <1>9, <3>3
      <4>2. nm.available = m.available
        BY <1>8
      <4> QED
        BY <3>1, <4>1, <4>2
    <3> QED
      BY <1>9, <3>2, <3>3 DEF ShownDistinct
  <2>5. \A j \in E : Firm(A, j) => \E t \in DOMAIN U : Id(U, t) = j /\ ~Waiting(E, t)
    <3>1. \A j \in D : Firm(A, j) => \E t \in DOMAIN T : Id(T, t) = j /\ ~Waiting(D, t)
      BY DEF Reloaded, ReloadList, T
    <3>2. \A j \in D : Firm(A, j) => \E t \in DOMAIN U : Id(U, t) = j /\ ~Waiting(E, t)
      BY <1>9, <1>10, <1>13, <3>1
    <3> QED
      BY <1>9, <1>10, <1>13, <3>2 DEF E
  <2> QED
    BY <1>3, <1>4, <1>17, <2>1, <2>2, <2>3, <2>4, <2>5 DEF ReloadList
<1>21. ReloadItems(n)
  <2>1. /\ ItemsOK(n.items) /\ \A ref \in DOMAIN s.items : Same(s.items, n.items, ref)
        /\ \A ref \in DOMAIN n.items \ DOMAIN s.items : \A j \in DOMAIN prefs : prefs[j].ref # ref
        /\ IsLegacy(prefs, i) \/ n.items = s.items
    BY <1>2 DEF Listed
  <2>2. /\ \A ref \in DOMAIN items : Same(items, s.items, ref)
        /\ \A ref \in DOMAIN s.items \ DOMAIN items : \A j \in DOMAIN prefs : prefs[j].ref # ref
        /\ (\A j \in DOMAIN prefs : ~IsLegacy(prefs, j)) => s.items = items
    BY DEF Reloaded, ReloadItems
  <2> QED
    BY <2>1, <2>2 DEF ReloadItems, Same
<1>22. ReloadCalls(A, lost, E, n)
  <2>1. n.calls \in Seq(AllCalls) /\ InOrder(n.calls) /\ \A c \in ToSet(n.calls) : c.op # "load"
    BY <1>2 DEF Listed
  <2>2. ASSUME NEW c \in B PROVE c \in A \/ NewSave(n.items, lost, E, c)
    <3>1. c \in A \/ NewSave(s.items, lost, D, c)
      BY DEF Reloaded, ReloadCalls, B
    <3>2. \A ref \in DOMAIN s.items : Same(s.items, n.items, ref)
      BY <1>2 DEF Listed
    <3> QED
      BY <3>1, <3>2 DEF NewSave, Same, E
  <2>3. ASSUME NEW c \in C PROVE NewSave(n.items, lost, E, c)
    <3>1. NewSave(n.items, lost, {i}, c)
      BY <1>8
    <3> QED
      BY <3>1 DEF NewSave, E
  <2>4. A \subseteq G /\ \A c \in G : c \in A \/ NewSave(n.items, lost, E, c)
    BY <1>8, <1>19, <2>2, <2>3
  <2> QED
    BY <1>4, <2>1, <2>4 DEF ReloadCalls
<1>23. OneOwner(prefs, U, G)
  <2>1. ASSUME NEW ref, NEW j, Held(prefs, U, G, ref, j) PROVE Held(prefs, T, B, ref, j) \/ (ref = nm.ref /\ j = i)
    BY <1>8, <1>9, <1>15, <2>1 DEF Held
  <2>2. OneOwner(prefs, T, B)
    BY DEF Reloaded, T, B
  <2>3. nm.ref \in Refs => nm.ref = prefs[i].ref \/ \A j : ~Held(prefs, T, B, nm.ref, j)
    BY <1>2 DEF Listed, T, B
  <2>4. nm.ref = prefs[i].ref => Held(prefs, T, B, nm.ref, i)
    BY DEF Held
  <2> SUFFICES ASSUME NEW ref \in Refs, NEW j \in Ids, NEW k \in Ids,
                      Held(prefs, U, G, ref, j), Held(prefs, U, G, ref, k)
               PROVE  j = k
    BY DEF OneOwner
  <2>5. CASE ref # nm.ref
    BY <2>1, <2>2, <2>5 DEF OneOwner
  <2>6. CASE ref = nm.ref /\ nm.ref = prefs[i].ref
    BY <1>7, <2>1, <2>2, <2>4, <2>6 DEF OneOwner
  <2>7. CASE ref = nm.ref /\ nm.ref # prefs[i].ref
    BY <2>1, <2>3, <2>7
  <2> QED
    BY <2>5, <2>6, <2>7
<1>24. DOMAIN n = {"items", "tunnels", "calls", "compared"}
  BY <1>2, <1>7 DEF Listed
<1> QED
  BY <1>1, <1>3, <1>4, <1>7, <1>20, <1>21, <1>22, <1>23, <1>24 DEF Reloaded, E

\* The loop of reload, one manager at a time.
LEMMA ReloadingIs ==
  ASSUME NEW lost, NEW order, NEW n \in Nat, Len(order) = n
  PROVE  Reloading(order, lost) =
           [k \in 0 .. n |-> IF k = 0 THEN ReloadStart ELSE Matched(lost, Reloading(order, lost)[k - 1], order[k])]
<1> DEFINE Is(f, j) == f = [k \in 0 .. j |-> IF k = 0 THEN ReloadStart ELSE Matched(lost, f[k - 1], order[k])]
           S == {j \in Nat : \E f : Is(f, j)}
<1>1. 0 \in S
  <2>1. Is([k \in 0 .. 0 |-> ReloadStart], 0)
    OBVIOUS
  <2> QED
    BY <2>1
<1>2. ASSUME NEW j \in Nat, j \in S PROVE j + 1 \in S
  <2>1. PICK f : Is(f, j)
    BY <1>2
  <2> DEFINE g == [k \in 0 .. j + 1 |-> IF k <= j THEN f[k] ELSE Matched(lost, f[j], order[j + 1])]
  <2>2. ASSUME NEW k \in 0 .. j + 1
        PROVE  g[k] = IF k = 0 THEN ReloadStart ELSE Matched(lost, g[k - 1], order[k])
    <3>1. CASE k = 0
      <4>1. g[0] = f[0] /\ f[0] = ReloadStart
        BY <2>1
      <4> QED
        BY <4>1, <3>1
    <3>2. CASE k # 0 /\ k <= j
      <4>1. k \in 0 .. j /\ k - 1 \in 0 .. j + 1 /\ k - 1 <= j
        BY <3>2
      <4>2. f[k] = Matched(lost, f[k - 1], order[k])
        BY <2>1, <3>2, <4>1
      <4>3. g[k] = f[k] /\ g[k - 1] = f[k - 1]
        BY <4>1
      <4> QED
        BY <3>2, <4>2, <4>3
    <3>3. CASE k = j + 1
      <4>1. g[k] = Matched(lost, f[j], order[j + 1]) /\ g[j] = f[j] /\ k - 1 = j /\ k # 0
        BY <3>3
      <4> QED
        BY <3>3, <4>1
    <3> QED
      BY <3>1, <3>2, <3>3
  <2> HIDE DEF g
  <2>3. \E h : Is(h, j + 1)
    <3>1. g = [k \in 0 .. j + 1 |-> IF k = 0 THEN ReloadStart ELSE Matched(lost, g[k - 1], order[k])]
      BY <2>2 DEF g
    <3> QED
      BY <3>1
  <2> QED
    BY <2>3
<1> HIDE DEF S
<1>3. Nat \subseteq S
  BY <1>1, <1>2, Induction
<1>4. \E f : Is(f, n)
  BY <1>3 DEF S
<1> DEFINE r == CHOOSE f : Is(f, n)
<1>5. Is(r, n)
  BY <1>4
<1>6. Reloading(order, lost) = r
  BY DEF Reloading, ReloadStart, Like
<1> HIDE DEF r
<1> QED
  BY <1>5, <1>6

\* An order goes through every configuration once.
LEMMA OrderIs ==
  ASSUME Types, NEW order \in Bijection(1 .. Cardinality(DOMAIN prefs), DOMAIN prefs)
  PROVE  /\ Len(order) \in Nat /\ DOMAIN order = 1 .. Len(order)
         /\ \A k \in 1 .. Len(order) : order[k] \in DOMAIN prefs
         /\ \A j, k \in 1 .. Len(order) : order[j] = order[k] => j = k
         /\ \A i \in DOMAIN prefs : \E k \in 1 .. Len(order) : order[k] = i
<1>1. IsFiniteSet(DOMAIN prefs)
  BY StoreAssumption, FS_Subset DEF Types, PrefsOK
<1>2. PICK n \in Nat : n = Cardinality(DOMAIN prefs)
  BY <1>1, FS_CardinalityType
<1>3. order \in [1 .. n -> DOMAIN prefs] /\ IsInjective(order)
      /\ \A i \in DOMAIN prefs : \E k \in 1 .. n : order[k] = i
  BY <1>2, Zenon DEF Bijection, Injection, Surjection
<1>4. Len(order) = n
  BY <1>3, FunctionIsSeq
<1>5. \A j, k \in 1 .. n : order[j] = order[k] => j = k
  BY <1>3 DEF IsInjective
<1> QED
  BY <1>3, <1>4, <1>5

\* A loaded manager is matched, in either way.
LEMMA MatchKeeps ==
  ASSUME NEW A, NEW lost, NEW D, NEW s, Loading(A), Reloaded(A, lost, D, s), NEW i \in DOMAIN prefs \ D, Room(s)
  PROVE  Reloaded(A, lost, D \cup {i}, Matched(lost, s, i))
BY MatchTakes, MatchAdds

\* All loaded managers are matched, in the system's order.
LEMMA ReloadSteps ==
  ASSUME Types, NEW A, NEW lost, NEW order \in Bijection(1 .. Cardinality(DOMAIN prefs), DOMAIN prefs),
         Loading(A), Reloaded(A, lost, {}, ReloadStart),
         \A k \in 1 .. Len(order) : Room(Reloading(order, lost)[k - 1])
  PROVE  Reloaded(A, lost, DOMAIN prefs, Reloading(order, lost)[Len(order)])
<1>1. PICK s : s = Reloading(order, lost)
  OBVIOUS
<1>2. PICK n : n = Len(order)
  OBVIOUS
<1>3. n \in Nat /\ (\A k \in 1 .. n : order[k] \in DOMAIN prefs)
      /\ (\A j, k \in 1 .. n : order[j] = order[k] => j = k)
      /\ \A i \in DOMAIN prefs : \E k \in 1 .. n : order[k] = i
  BY <1>2, OrderIs
<1>4. s[0] = ReloadStart /\ \A k \in 1 .. n : s[k] = Matched(lost, s[k - 1], order[k])
  <2>1. s = [k \in 0 .. n |-> IF k = 0 THEN ReloadStart ELSE Matched(lost, s[k - 1], order[k])]
    <3>1. n \in Nat /\ Len(order) = n
      BY <1>2, <1>3
    <3>2. Reloading(order, lost) = [k \in 0 .. n |-> IF k = 0 THEN ReloadStart
                                     ELSE Matched(lost, Reloading(order, lost)[k - 1], order[k])]
      BY ONLY <3>1, ReloadingIs
    <3> QED
      BY <1>1, <3>2
  <2> QED
    BY <1>3, <2>1
<1> DEFINE Through(k) == {order[j] : j \in 1 .. k}
           S == {k \in Nat : k <= n => Reloaded(A, lost, Through(k), s[k])}
<1>5. 0 \in S
  <2>1. Through(0) = {}
    OBVIOUS
  <2> QED
    BY <1>4, <2>1
<1>6. ASSUME NEW k \in Nat, k \in S PROVE k + 1 \in S
  <2> SUFFICES ASSUME k + 1 <= n PROVE Reloaded(A, lost, Through(k + 1), s[k + 1])
    OBVIOUS
  <2>1. Reloaded(A, lost, Through(k), s[k])
    BY <1>3, <1>6
  <2>2. Room(s[k]) /\ s[k + 1] = Matched(lost, s[k], order[k + 1])
    BY <1>1, <1>2, <1>3, <1>4
  <2>3. order[k + 1] \in DOMAIN prefs \ Through(k)
    BY <1>3
  <2>4. Through(k + 1) = Through(k) \cup {order[k + 1]}
    OBVIOUS
  <2> HIDE DEF Through, S
  <2> QED
    BY <2>1, <2>2, <2>3, <2>4, MatchKeeps
<1> HIDE DEF S
<1>7. Nat \subseteq S
  BY <1>5, <1>6, Induction
<1>8. Through(n) = DOMAIN prefs
  <2>1. \A i \in DOMAIN prefs : i \in Through(n)
    BY <1>3
  <2>2. \A i \in Through(n) : i \in DOMAIN prefs
    BY <1>3
  <2> HIDE DEF Through
  <2> QED
    BY <2>1, <2>2
<1> HIDE DEF Through
<1>9. Reloaded(A, lost, Through(n), s[n])
  <2>1. n \in S /\ n <= n
    BY <1>3, <1>7
  <2> QED
    BY <2>1 DEF S
<1> QED
  BY <1>1, <1>2, <1>8, <1>9

\* What reload starts from.
LEMMA ReloadBegins ==
  ASSUME Types, StoreInv, Answered("load"), NEW A, A = Asked(calls), NEW lost
  PROVE  /\ Loading(A) /\ Reloaded(A, lost, {}, ReloadStart)
         /\ \A c, d \in A : c.op \in EditOps /\ d.op \in EditOps => c = d
<1>1. /\ calls # <<>> /\ Head(calls).op = "load" /\ calls \in Seq(AllCalls) /\ InOrder(calls)
      /\ Disk(prefs, items, A, failed, refused) /\ List(prefs, items, tunnels, A, failed, refused)
      /\ OneOwner(prefs, tunnels, A)
  BY DEF Answered, StoreInv, Types
<1>2. 1 \in 1 .. Len(calls) /\ calls[1].op = "load" /\ Len(calls) \in Nat /\ DOMAIN calls = 1 .. Len(calls)
  BY <1>1
<1>3. A = After(calls, 0) /\ A \subseteq ManagerCalls /\ Asked(Tail(calls)) = After(calls, 1)
      /\ Tail(calls) \in Seq(AllCalls)
  BY <1>1, AskedIsAfter
<1>4. After(calls, 1) = After(calls, 1 - 1) /\ \A c \in After(calls, 1) : c.op \notin {"save", "drop"}
  BY <1>1, <1>2, AfterStep
<1>5. Asked(Tail(calls)) = A /\ \A c \in A : c.op \notin {"save", "drop"}
  BY <1>3, <1>4
<1>6. \A c \in ToSet(Tail(calls)) : c.op # "load"
  <2>1. \A k \in DOMAIN calls : 1 < k => calls[k].op # "load"
    BY <1>1, <1>2 DEF InOrder
  <2>2. \A c \in ToSet(Tail(calls)) : \E k \in DOMAIN calls : 1 < k /\ c = calls[k]
    <3>1. \A j \in DOMAIN Tail(calls) : j + 1 \in DOMAIN calls /\ 1 < j + 1 /\ Tail(calls)[j] = calls[j + 1]
      BY <1>1
    <3> QED
      BY <3>1 DEF ToSet
  <2> QED
    BY <2>1, <2>2
<1>7. InOrder(Tail(calls))
  BY <1>1, TailInOrder
<1>8. Loading(A)
  BY <1>1, <1>3, <1>5 DEF Loading
<1>9. \A c, d \in A : c.op \in EditOps /\ d.op \in EditOps => c = d
  <2>1. \A c \in A : \E k \in DOMAIN calls : c = calls[k]
    BY DEF Asked, ToSet
  <2>2. \A j, k \in DOMAIN calls : calls[j].op \in EditOps /\ calls[k].op \in EditOps => j = k
    BY <1>1 DEF InOrder
  <2> QED
    BY <2>1, <2>2
<1>10. PICK s : s = ReloadStart
  OBVIOUS
<1>11. /\ DOMAIN s = {"items", "tunnels", "calls", "compared"} /\ s.items = items /\ s.calls = Tail(calls)
       /\ s.tunnels = [t \in {u \in DOMAIN tunnels : Like(u)} |-> tunnels[t]]
  BY <1>10 DEF ReloadStart
<1>12. \A t \in DOMAIN s.tunnels : t \in DOMAIN tunnels /\ Like(t) /\ s.tunnels[t] = tunnels[t]
  BY <1>11
<1>13. ReloadItems(s)
  BY <1>11 DEF ReloadItems, Types, Same
<1>14. ReloadCalls(A, lost, {}, s)
  BY <1>3, <1>5, <1>6, <1>7, <1>11 DEF ReloadCalls
<1>15. ReloadList(A, {}, s)
  <2>1. DOMAIN s.tunnels \subseteq Slots /\ \A t \in DOMAIN tunnels : Like(t) => t \in DOMAIN s.tunnels
    BY <1>11 DEF Types, ListOK
  <2>2. \A t \in DOMAIN s.tunnels : Waiting({}, t)
    BY <1>12 DEF Waiting
  <2>3. ShownDistinct(s.tunnels, refused)
    BY <1>1, <1>12 DEF List, ShownDistinct
  <2> HIDE DEF ReloadStart
  <2> QED
    BY <1>12, <2>1, <2>2, <2>3 DEF ReloadList
<1>16. OneOwner(prefs, s.tunnels, Asked(s.calls))
  <2>1. Asked(s.calls) = A
    BY <1>5, <1>11
  <2>2. \A ref, j : Held(prefs, s.tunnels, A, ref, j) => Held(prefs, tunnels, A, ref, j)
    BY <1>12 DEF Held
  <2> QED
    BY <1>1, <2>1, <2>2 DEF OneOwner
<1>17. Reloaded(A, lost, {}, s)
  BY <1>11, <1>13, <1>14, <1>15, <1>16 DEF Reloaded
<1> QED
  BY <1>8, <1>9, <1>10, <1>17

\* The disk when all managers have been gone through.
LEMMA ReloadedDisk ==
  ASSUME NEW A, NEW lost, NEW s, Loading(A), Reloaded(A, lost, DOMAIN prefs, s)
  PROVE  Disk(prefs, s.items, Asked(s.calls), failed \cup lost, refused)
<1> DEFINE F == failed \cup lost
           G == Asked(s.calls)
           C == {c \in G : c \notin A}
           J == s.items
<1>1. /\ Disk(prefs, items, A, failed, refused) /\ refused \in BOOLEAN
      /\ \A c \in A : c.op \notin {"save", "drop"}
  BY DEF Loading, Types
<1>2. A \cup C = G /\ \A c \in C : NewSave(J, lost, DOMAIN prefs, c)
  BY DEF Reloaded, ReloadCalls
<1>3. /\ \A ref : Same(items, J, ref)
      /\ \A ref \in DOMAIN J \ DOMAIN items : \A i \in DOMAIN prefs : prefs[i].ref # ref
  BY DEF Reloaded, ReloadItems, Same
<1> HIDE DEF C, G, J, F
<1>4. Disk(prefs, items, A, F, refused)
  <2>1. A \in SUBSET A /\ \A i \in failed : i \in F
    BY DEF F
  <2> QED
    BY <1>1, <2>1, Weaken
<1>5. \A c \in C : c.op = "save" /\ c.manager.id \in DOMAIN prefs /\ IsLegacy(prefs, c.manager.id)
  BY <1>2 DEF NewSave
<1>6. Breaking(A \cup C) = Breaking(A) /\ Of(A \cup C, "drop") = {}
  BY <1>1, <1>5 DEF Breaking, Breaks, Of
<1>7. ASSUME NEW d \in C, NEW e \in A
      PROVE  /\ e.op = "add" => e.manager.id # d.manager.id
             /\ e.op = "rules" /\ e.manager.id = d.manager.id => refused \/ e.manager.legacy # NoBody
  <2>1. e.op = "add" => e.manager.id # d.manager.id
    BY <1>1, <1>5 DEF Disk, AddOK
  <2>2. ASSUME e.op = "rules", e.manager.id = d.manager.id, ~refused PROVE e.manager.legacy # NoBody
    <3>1. RulesOK(prefs, items, A, failed, refused, e)
      BY <1>1 DEF Disk
    <3>2. Saving(prefs, A, e.manager.id) = {}
      BY <1>1 DEF Saving
    <3> QED
      BY <1>5, <2>2, <3>1, <3>2 DEF RulesOK, Agrees
  <2> QED
    BY <2>1, <2>2
<1>8. ASSUME NEW d \in C PROVE SaveOK(prefs, J, A \cup C, F, d)
  <2>1. NewSave(J, lost, DOMAIN prefs, d)
    BY <1>2
  <2>2. ASSUME d.manager.id \notin F \cup Breaking(A) PROVE IsGood(prefs, J, d.manager.id, d.manager)
    <3>1. IsGood(prefs, items, d.manager.id, prefs[d.manager.id])
      BY <1>1, <1>5, <2>2 DEF Disk, Kept, F
    <3> QED
      BY <2>1, <2>2, <3>1 DEF NewSave, IsGood, IsLegacy, F
  <2> QED
    BY <1>6, <2>1, <2>2 DEF SaveOK, NewSave
<1>9. Joins(prefs, items, J, A, C, F, refused)
  <2>1. \A i \in DOMAIN prefs : Live(prefs, J, i) => Live(prefs, items, i)
    BY <1>3 DEF Live
  <2>2. ASSUME NEW d \in C
        PROVE /\ AddOK(prefs, J, A \cup C, F, refused, d) /\ ModOK(prefs, J, A \cup C, F, refused, d)
              /\ NewItem(J, d) /\ RulesOK(prefs, J, A \cup C, F, refused, d) /\ SaveOK(prefs, J, A \cup C, F, d)
    BY <1>5, <1>8 DEF AddOK, ModOK, NewItem, RulesOK
  <2>3. ASSUME NEW d \in C
        PROVE /\ d.op # "drop"
              /\ \A e \in A : e.op = "add" => e.manager.id # d.manager.id
              /\ \A e \in A : d.op = "save" /\ IsLegacy(prefs, d.manager.id) /\ e.op = "rules"
                                  /\ e.manager.id = d.manager.id /\ d.manager.id \in DOMAIN prefs
                                    => refused \/ e.manager.legacy # NoBody
    BY <1>5, <1>7
  <2> QED
    BY <1>3, <2>1, <2>2, <2>3 DEF Joins
<1>10. Disk(prefs, J, A \cup C, F, refused)
  <2>1. refused \in BOOLEAN
    BY <1>1
  <2> QED
    BY <2>1, <1>4, <1>9, Join
<1> QED
  BY <1>2, <1>10 DEF G, J, F

\* The list when all managers have been gone through.
LEMMA ReloadedList ==
  ASSUME NEW A, NEW lost, NEW s, Loading(A), Reloaded(A, lost, DOMAIN prefs, s),
         \A c, d \in A : c.op \in EditOps /\ d.op \in EditOps => c = d
  PROVE  /\ List(prefs, s.items, s.tunnels, Asked(s.calls), failed \cup lost, refused)
         /\ ListOK(s.tunnels)
<1> DEFINE F == failed \cup lost
           G == Asked(s.calls)
           J == s.items
           U == s.tunnels
<1>1. /\ Disk(prefs, items, A, failed, refused) /\ List(prefs, items, tunnels, A, failed, refused)
      /\ refused \in BOOLEAN /\ \A c \in A : c.op \notin {"save", "drop"}
  BY DEF Loading, Types
<1>2. Disk(prefs, J, G, F, refused)
  BY ReloadedDisk
<1>3. A \subseteq G /\ \A c \in G : c \in A \/ NewSave(J, lost, DOMAIN prefs, c)
  BY DEF Reloaded, ReloadCalls
<1>4. \A c \in G : c \in A \/ (c.op = "save" /\ c.manager.id \in DOMAIN prefs /\ IsLegacy(prefs, c.manager.id))
  BY <1>3 DEF NewSave
<1>5. Of(G, "drop") = {} /\ Of(A, "drop") = {}
  BY <1>1, <1>4 DEF Of
<1>6. \A t \in DOMAIN U : ~Waiting(DOMAIN prefs, t)
  BY DEF Waiting, Like
<1>7. \A t \in DOMAIN U : Touched(DOMAIN prefs, U, G, t)
  BY <1>6 DEF Reloaded, ReloadList
<1>8. \A t \in DOMAIN U :
        /\ U[t] \in Containers /\ Id(U, t) \in DOMAIN prefs
        /\ U[t].name = prefs[Id(U, t)].name /\ U[t].manager.name = prefs[Id(U, t)].name
        /\ U[t].manager.legacy \in {NoBody, prefs[Id(U, t)].legacy} /\ Agrees(prefs, G, Id(U, t), U[t].manager)
        /\ U[t].manager.available => U[t].manager.body # NoBody /\ Live(prefs, items, Id(U, t))
  BY <1>7 DEF Touched
<1>9. DOMAIN U \subseteq Slots /\ ShownDistinct(U, refused)
      /\ (\A t, u \in DOMAIN U : Id(U, t) = Id(U, u) => t = u)
      /\ (\A j \in DOMAIN prefs : Firm(A, j) => \E t \in DOMAIN U : Id(U, t) = j)
      /\ \A t \in DOMAIN U :
           \/ t \in DOMAIN tunnels /\ Like(t) /\ U[t].name = tunnels[t].name
           \/ \A c \in A : c.slot # t
  BY <1>6 DEF Reloaded, ReloadList
<1> HIDE DEF F, G, J, U
<1>10. ASSUME NEW t \in DOMAIN U, NEW d \in G, d.op = "save", d.manager.id = Id(U, t)
       PROVE  U[t].manager.legacy = NoBody
  <2>1. d \in Saving(prefs, G, Id(U, t))
    BY <1>1, <1>4, <1>10 DEF Saving
  <2> QED
    BY <1>8, <2>1 DEF Agrees
<1>11. ASSUME NEW t \in DOMAIN U, Id(U, t) \notin F \cup Breaking(G) PROVE IsGood(prefs, J, Id(U, t), U[t].manager)
  <2>1. Agrees(prefs, G, Id(U, t), U[t].manager) /\ Id(U, t) \in DOMAIN prefs
        /\ U[t].manager.legacy \in {NoBody, prefs[Id(U, t)].legacy}
    BY <1>8
  <2>2. CASE Saving(prefs, G, Id(U, t)) # {}
    <3>1. PICK d \in G : d \in Saving(prefs, G, Id(U, t))
      BY <2>2 DEF Saving
    <3>2. d.op = "save" /\ d.manager.id = Id(U, t) /\ IsLegacy(prefs, Id(U, t))
      BY <3>1 DEF Saving
    <3>3. U[t].manager.legacy = NoBody /\ U[t].manager.ref = d.manager.ref
      BY <2>1, <3>1 DEF Agrees
    <3>4. SaveOK(prefs, J, G, F, d)
      BY <1>2 DEF Disk
    <3>5. d.manager.legacy = NoBody /\ IsGood(prefs, J, Id(U, t), d.manager)
      BY <1>11, <2>1, <3>2, <3>4 DEF SaveOK
    <3> QED
      BY <3>3, <3>5 DEF IsGood
  <2>3. CASE Saving(prefs, G, Id(U, t)) = {}
    <3>1. U[t].manager.ref = prefs[Id(U, t)].ref /\ U[t].manager.legacy = prefs[Id(U, t)].legacy
      BY <2>1, <2>3 DEF Agrees, IsLegacy
    <3>2. IsGood(prefs, J, Id(U, t), prefs[Id(U, t)])
      BY <1>2, <1>11, <2>1 DEF Disk, Kept
    <3> QED
      BY <3>1, <3>2 DEF IsGood
  <2> QED
    BY <2>2, <2>3
<1>12. ASSUME NEW t \in DOMAIN U PROVE U[t].name = U[t].manager.name /\ LegacyOK(U[t].manager)
  <2>1. ASSUME U[t].manager.legacy # NoBody PROVE U[t].manager.name \in ProfileNames /\ U[t].manager.ref = NoRef
    <3>1. U[t].manager.legacy = prefs[Id(U, t)].legacy /\ U[t].manager.ref = prefs[Id(U, t)].ref
          /\ U[t].manager.name = prefs[Id(U, t)].name /\ Id(U, t) \in DOMAIN prefs
      BY <1>8, <2>1 DEF Agrees
    <3>2. LegacyOK(prefs[Id(U, t)])
      BY <1>1, <3>1 DEF Disk, Legacies
    <3> QED
      BY <2>1, <3>1, <3>2 DEF LegacyOK
  <2> QED
    BY <1>8, <2>1 DEF LegacyOK
<1>13. ASSUME NEW c \in A PROVE Adding(U, refused, c)
  <2> SUFFICES ASSUME c.op = "add" PROVE Adding(U, refused, c)
    BY DEF Adding
  <2>1. c.manager.available /\ c.slot \notin DOMAIN tunnels
    BY <1>1 DEF List, Adding
  <2>2. c.slot \notin DOMAIN U
    BY <1>9, <2>1
  <2>3. c.manager.id \notin DOMAIN prefs /\ Free(prefs, items, A, failed, refused, c.manager)
    BY <1>1 DEF Disk, AddOK
  <2>4. ASSUME NEW d \in DOMAIN U, U[d].name = c.manager.name PROVE refused /\ ~U[d].manager.available
    <3>1. ~Counts(prefs, items, A, failed, refused, Id(U, d))
      BY <1>8, <2>3, <2>4 DEF Free
    <3> QED
      BY <1>5, <1>8, <3>1 DEF Counts
  <2> QED
    BY <1>8, <2>1, <2>2, <2>3, <2>4 DEF Adding
<1>14. ASSUME NEW c \in A PROVE Modifying(prefs, J, U, G, c)
  <2> SUFFICES ASSUME c.op = "modify", c.manager.ref # NoProtocol, c.manager.id \in DOMAIN prefs, c.slot \in DOMAIN U
               PROVE  FALSE
    BY DEF Modifying
  <2>1. c.slot \in DOMAIN tunnels /\ Like(c.slot)
    BY <1>9
  <2>2. tunnels[c.slot].manager = c.manager /\ c.manager.available /\ prefs[c.manager.id].ref \notin DOMAIN items
    BY <1>1, <2>1 DEF List, Modifying
  <2>3. PICK i \in DOMAIN prefs : Equivalent(Loaded(prefs, items, i), tunnels[c.slot])
    BY <2>1 DEF Like
  <2>4. /\ ItemsOK(items) /\ Types
        /\ \A ref \in DOMAIN items : Same(items, items, ref)
        /\ \A ref \in DOMAIN items \ DOMAIN items : \A j \in DOMAIN prefs : prefs[j].ref # ref
    BY DEF Loading, Types, Same
  <2>5. Loaded(prefs, items, i).name = prefs[i].name /\ Loaded(prefs, items, i).available = (prefs[i].ref \in DOMAIN items)
        /\ (Loaded(prefs, items, i).available => Live(prefs, items, i))
    BY <2>4, LoadedIs
  <2>6. prefs[i].ref \in DOMAIN items /\ prefs[i].name = c.manager.name /\ Live(prefs, items, i)
    BY <2>2, <2>3, <2>5 DEF Equivalent
  <2>7. Free(prefs, items, A, failed, refused, c.manager)
    BY <1>1 DEF Disk, ModOK
  <2>8. i # c.manager.id
    BY <2>2, <2>6
  <2> QED
    BY <2>6, <2>7, <2>8 DEF Free, Counts
<1>15. ASSUME NEW c \in A PROVE Removing(prefs, U, refused, c)
  <2> SUFFICES ASSUME c.op = "remove", c.manager.id \in DOMAIN prefs, c.slot \in DOMAIN U, ~refused
               PROVE  Id(U, c.slot) = c.manager.id
    BY DEF Removing
  <2>1. c.slot \in DOMAIN tunnels /\ U[c.slot].name = tunnels[c.slot].name
    BY <1>9
  <2>2. Id(tunnels, c.slot) = c.manager.id
    BY <1>1, <2>1 DEF List, Removing
  <2>3. c.manager.id \notin Of(A, "modify")
    BY DEF Of, EditOps
  <2>4. tunnels[c.slot].name = prefs[c.manager.id].name
    BY <1>1, <2>1, <2>2, <2>3 DEF List, ShownAgree
  <2>5. Id(U, c.slot) \in DOMAIN prefs /\ prefs[Id(U, c.slot)].name = prefs[c.manager.id].name
    BY <1>8, <2>1, <2>4
  <2> QED
    BY <2>5, AllCount
<1>16. \A c \in G : Adding(U, refused, c) /\ Modifying(prefs, J, U, G, c) /\ Removing(prefs, U, refused, c)
  BY <1>4, <1>13, <1>14, <1>15 DEF Adding, Modifying, Removing
<1>17. \A c \in G : c.op \in EditOps => c.slot \in Slots
  BY <1>1, <1>4 DEF List, EditOps
<1>18. OneEach(U) /\ SavedWithout(U, G) /\ Named(U) /\ NoneDropped(U, G, refused)
  BY <1>5, <1>9, <1>10, <1>12 DEF OneEach, SavedWithout, Named, NoneDropped
<1>19. ShownGood(prefs, J, U, G, F)
  BY <1>11 DEF ShownGood, Id
<1>20. AllShown(prefs, U, G, refused) /\ ShownAgree(prefs, U, G, refused)
  BY <1>8, <1>9 DEF AllShown, ShownAgree, Firm
<1>21. List(prefs, J, U, G, F, refused)
  BY <1>9, <1>16, <1>17, <1>18, <1>19, <1>20 DEF List
<1>22. ListOK(U)
  BY <1>8, <1>9 DEF ListOK
<1> QED
  BY <1>21, <1>22 DEF F, G, J, U

\* reload.
LEMMA ReloadKeeps ==
  ASSUME Types, StoreInv, NEW lost, lost \subseteq DOMAIN prefs, Reload(lost)
  PROVE  Types' /\ StoreInv'
<1>1. PICK A : A = Asked(calls)
  OBVIOUS
<1>2. /\ Answered("load") /\ failed' = failed \cup lost /\ messy' = (messy \/ lost # {})
      /\ UNCHANGED <<prefs, changed, world, refused>>
  BY DEF Reload
<1>3. PICK order \in Bijection(1 .. Cardinality(DOMAIN prefs), DOMAIN prefs) :
        /\ \A k \in 1 .. Len(order) : Room(Reloading(order, lost)[k - 1])
        /\ items' = Reloading(order, lost)[Len(order)].items /\ tunnels' = Reloading(order, lost)[Len(order)].tunnels
        /\ calls' = Reloading(order, lost)[Len(order)].calls
  BY DEF Reload
<1>4. /\ Loading(A) /\ Reloaded(A, lost, {}, ReloadStart)
      /\ \A c, d \in A : c.op \in EditOps /\ d.op \in EditOps => c = d
  BY <1>1, <1>2, ReloadBegins
<1>5. PICK s : s = Reloading(order, lost)[Len(order)]
  OBVIOUS
<1>6. Reloaded(A, lost, DOMAIN prefs, s)
  BY <1>3, <1>4, <1>5, ReloadSteps
<1>7. items' = s.items /\ tunnels' = s.tunnels /\ calls' = s.calls
  BY <1>3, <1>5
<1>8. Disk(prefs, s.items, Asked(s.calls), failed \cup lost, refused)
  BY <1>4, <1>6, ReloadedDisk
<1>9. List(prefs, s.items, s.tunnels, Asked(s.calls), failed \cup lost, refused) /\ ListOK(s.tunnels)
  BY <1>4, <1>6, ReloadedList
<1>10. InOrder(s.calls) /\ s.calls \in Seq(AllCalls) /\ ItemsOK(s.items) /\ OneOwner(prefs, s.tunnels, Asked(s.calls))
  BY <1>6 DEF Reloaded, ReloadItems, ReloadCalls
<1>11. failed' \subseteq Ids /\ messy' \in BOOLEAN /\ prefs' = prefs /\ refused' = refused /\ world' = world
  BY <1>2 DEF Types, PrefsOK
<1>12. StoreInv'
  BY <1>2, <1>7, <1>8, <1>9, <1>10, <1>11, InvNext
<1>13. Types'
  BY <1>2, <1>7, <1>9, <1>10, <1>11 DEF Types
<1> QED
  BY <1>12, <1>13

-----------------------------------------------------------------------------
(* Nothing is left behind in the keychain.                                 *)

RefUsed(p, A, ref) == (\E i \in DOMAIN p : p[i].ref = ref) \/ (\E c \in A : c.manager.ref = ref)
Gone(p, its, A, i) == p[i].ref \notin DOMAIN its /\ \A s \in Saving(p, A, i) : s.manager.ref \notin DOMAIN its

\* Every item is used; an item that is there is known to be there; profiles are being
\* migrated; what is being removed has no item.
Clean(p, its, T, A) ==
  /\ \A ref \in DOMAIN its : RefUsed(p, A, ref)
  /\ \A t \in DOMAIN T : T[t].manager.ref \in DOMAIN its => T[t].manager.available
  /\ \A i \in DOMAIN p : IsLegacy(p, i) => Saving(p, A, i) # {}
  /\ \A c \in A : c.op \in {"remove", "drop"} => c.manager.ref \notin DOMAIN its
  /\ \A c \in A : c.op = "remove" /\ c.manager.id \in DOMAIN p => Gone(p, its, A, c.manager.id)

Tidy == messy \/ (~refused /\ Clean(prefs, items, tunnels, Asked(calls)))

\* An edit is asked for.
LEMMA CleanJoins ==
  ASSUME NEW p, NEW its, NEW new, NEW T, NEW U, NEW A, NEW c, Clean(p, its, T, A), c.op \in {"add", "modify", "rules"},
         \A ref \in DOMAIN new :
           \/ ref \in DOMAIN its
           \/ /\ c.manager.ref = ref /\ \A d \in A : d.manager.ref # ref
              /\ \A i \in DOMAIN p : p[i].ref # ref,
         \A t \in DOMAIN U : U[t].manager.ref \in DOMAIN new => U[t].manager.available
  PROVE  Clean(p, new, U, A \cup {c})
<1>1. \A i : Saving(p, A \cup {c}, i) = Saving(p, A, i)
  BY DEF Saving
<1>2. \A i : Saving(p, A, i) \subseteq A
  BY DEF Saving
<1>3. \A i \in DOMAIN p : Gone(p, its, A, i) => Gone(p, new, A \cup {c}, i)
  BY <1>1, <1>2 DEF Gone
<1>4. \A ref \in DOMAIN new : RefUsed(p, A \cup {c}, ref)
  BY DEF Clean, RefUsed
<1>5. \A d \in A \cup {c} : d.op \in {"remove", "drop"} => d \in A
  OBVIOUS
<1>6. \A d \in A \cup {c} : d.op \in {"remove", "drop"} => d.manager.ref \notin DOMAIN new
  BY <1>5 DEF Clean
<1>7. \A d \in A \cup {c} : d.op = "remove" /\ d.manager.id \in DOMAIN p => Gone(p, new, A \cup {c}, d.manager.id)
  BY <1>3, <1>5 DEF Clean
<1>8. \A i \in DOMAIN p : IsLegacy(p, i) => Saving(p, A \cup {c}, i) # {}
  BY <1>1 DEF Clean
<1> QED
  BY <1>4, <1>6, <1>7, <1>8 DEF Clean

\* An edit fails, and its item goes.
LEMMA CleanFails ==
  ASSUME NEW p, NEW its, NEW new, NEW T, NEW A, NEW c, NEW B, Clean(p, its, T, A), Answers(A, c, B),
         c.op \in EditOps, DOMAIN new \subseteq DOMAIN its, c.manager.ref \notin DOMAIN new
  PROVE  Clean(p, new, T, B)
<1>1. B \subseteq A /\ A \subseteq B \cup {c}
  BY DEF Answers
<1>2. \A i : Saving(p, B, i) = Saving(p, A, i)
  BY <1>1 DEF Saving, EditOps
<1>3. \A i \in DOMAIN p : Gone(p, its, A, i) => Gone(p, new, B, i)
  BY <1>2 DEF Gone
<1>4. \A ref \in DOMAIN new : RefUsed(p, B, ref)
  BY <1>1 DEF Clean, RefUsed
<1> QED
  BY <1>1, <1>2, <1>3, <1>4 DEF Clean

\* A request c is answered: the configuration of its manager is stored anew, or forgotten.
StoredAs(p, its, A, c, B, q) ==
  LET i0 == c.manager.id IN
  /\ Answers(A, c, B)
  /\ \A i \in DOMAIN q : i # i0 => i \in DOMAIN p /\ q[i] = p[i]
  /\ \A i \in DOMAIN p : i # i0 => i \in DOMAIN q
  /\ i0 \in DOMAIN p /\ p[i0].ref \in DOMAIN its => i0 \in DOMAIN q /\ q[i0].ref = p[i0].ref
  /\ c.manager.ref \in DOMAIN its => i0 \in DOMAIN q /\ q[i0].ref = c.manager.ref
  /\ i0 \in DOMAIN q /\ IsLegacy(q, i0) => Saving(p, A, i0) # {} /\ c.op # "save"
  /\ \A d \in B : d.op = "remove" /\ d.manager.id = i0 /\ i0 \in DOMAIN q =>
       q[i0].ref \notin DOMAIN its /\ ~IsLegacy(q, i0)

\* A request succeeds.
LEMMA CleanStored ==
  ASSUME NEW p, NEW its, NEW q, NEW T, NEW U, NEW A, NEW c, NEW B, Clean(p, its, T, A), StoredAs(p, its, A, c, B, q),
         \A t \in DOMAIN U : U[t].manager.ref \in DOMAIN its => U[t].manager.available
  PROVE  Clean(q, its, U, B)
<1> PICK i0 : i0 = c.manager.id
  OBVIOUS
<1> USE DEF StoredAs
<1>1. B \subseteq A /\ A \subseteq B \cup {c}
  BY DEF Answers
<1>2. \A i \in DOMAIN q : i # i0 => Saving(q, B, i) = Saving(p, A, i) /\ (IsLegacy(q, i) <=> IsLegacy(p, i))
  BY <1>1 DEF Saving, IsLegacy
<1>3. \A ref \in DOMAIN its : RefUsed(q, B, ref)
  <2> SUFFICES ASSUME NEW ref \in DOMAIN its PROVE RefUsed(q, B, ref)
    OBVIOUS
  <2>1. CASE \E i \in DOMAIN p : p[i].ref = ref
    BY <2>1 DEF RefUsed
  <2>2. CASE \E d \in A : d.manager.ref = ref
    BY <1>1, <2>2 DEF RefUsed
  <2> QED
    BY <2>1, <2>2 DEF Clean, RefUsed
<1>4. \A i \in DOMAIN q : IsLegacy(q, i) => Saving(q, B, i) # {}
  <2> SUFFICES ASSUME NEW i \in DOMAIN q, IsLegacy(q, i) PROVE Saving(q, B, i) # {}
    OBVIOUS
  <2>1. CASE i # i0
    BY <1>2, <2>1 DEF Clean
  <2>2. CASE i = i0
    <3>1. PICK s \in A : s \in Saving(p, A, i0)
      BY <2>2 DEF Saving
    <3>2. s.op = "save" /\ s.manager.id = i0 /\ s \in B
      BY <1>1, <2>2, <3>1 DEF Saving
    <3>3. s \in Saving(q, B, i)
      BY <2>2, <3>2 DEF Saving
    <3> QED
      BY <3>3
  <2> QED
    BY <2>1, <2>2
<1>5. \A d \in B : d.op \in {"remove", "drop"} => d.manager.ref \notin DOMAIN its
  BY <1>1 DEF Clean
<1>6. ASSUME NEW d \in B, d.op = "remove", d.manager.id \in DOMAIN q PROVE Gone(q, its, B, d.manager.id)
  <2>1. CASE d.manager.id # i0
    <3>1. Gone(p, its, A, d.manager.id)
      BY <1>1, <1>6, <2>1 DEF Clean
    <3> QED
      BY <1>2, <1>6, <2>1, <3>1 DEF Gone
  <2>2. CASE d.manager.id = i0
    <3>1. q[i0].ref \notin DOMAIN its /\ ~IsLegacy(q, i0)
      BY <1>6, <2>2
    <3> QED
      BY <2>2, <3>1 DEF Gone, Saving
  <2> QED
    BY <2>1, <2>2
<1> QED
  BY <1>3, <1>4, <1>5, <1>6 DEF Clean

\* The app starts.
LEMMA CleanLaunch ==
  ASSUME NEW p, NEW new, NEW kept, NEW mgr, NEW listed, NEW shown, NEW its, NEW T, NEW cs,
         Starts(p, {}, new, kept, mgr, listed, shown, its, T, cs), PrefsOK(p), ItemsOK(items)
  PROVE  Clean(p, its, T, Asked(cs))
<1>1. PICK B : B = Asked(cs)
  OBVIOUS
<1>2. \A i \in DOMAIN p :
        /\ mgr[i] \in Managers /\ mgr[i].id = i
        /\ ~IsLegacy(p, i) => mgr[i].ref = p[i].ref
        /\ mgr[i].ref \in DOMAIN its <=> i \in listed /\ mgr[i].ref \in DOMAIN kept
  BY StartedManager
<1>3. B = Saves(p, mgr) \cup Drops(p, mgr, listed)
  <2>1. cs \in Requests(Saves(p, mgr) \cup Drops(p, mgr, listed))
    BY DEF Starts
  <2> QED
    BY <1>1, <1>2, <2>1, LaunchCalls
<1>4. \A i \in DOMAIN p : IsLegacy(p, i) =>
        Call("save", NoRef, mgr[i]) \in B /\ Call("save", NoRef, mgr[i]) \in Saving(p, B, i)
  <2> SUFFICES ASSUME NEW i \in DOMAIN p, IsLegacy(p, i)
               PROVE  Call("save", NoRef, mgr[i]) \in B /\ Call("save", NoRef, mgr[i]) \in Saving(p, B, i)
    OBVIOUS
  <2>1. Call("save", NoRef, mgr[i]) \in B
    BY <1>3 DEF Saves, Migrating
  <2> QED
    BY <1>2, <2>1 DEF Saving, Call
<1>5. \A ref \in DOMAIN its : RefUsed(p, B, ref)
  <2> SUFFICES ASSUME NEW ref \in DOMAIN its PROVE RefUsed(p, B, ref)
    OBVIOUS
  <2>1. PICK i \in DOMAIN p : mgr[i].ref = ref
    BY DEF Starts
  <2>2. CASE IsLegacy(p, i)
    <3>1. Call("save", NoRef, mgr[i]) \in B /\ Call("save", NoRef, mgr[i]).manager.ref = ref
      BY <1>4, <2>1, <2>2 DEF Call
    <3> QED
      BY <3>1 DEF RefUsed
  <2>3. CASE ~IsLegacy(p, i)
    BY <1>2, <2>1, <2>3 DEF RefUsed
  <2> QED
    BY <2>2, <2>3
<1>6. \A t \in DOMAIN T : T[t].manager.ref \in DOMAIN its => T[t].manager.available
  <2> SUFFICES ASSUME NEW t \in DOMAIN T, T[t].manager.ref \in DOMAIN its PROVE T[t].manager.available
    OBVIOUS
  <2>1. PICK m : m = mgr[shown[t]]
    OBVIOUS
  <2>2. T[t].manager = [m EXCEPT !.available = m.ref \in DOMAIN kept] /\ shown[t] \in DOMAIN p
    <3>1. T[t] = [name |-> p[shown[t]].name, manager |-> [mgr[shown[t]] EXCEPT !.available = mgr[shown[t]].ref \in DOMAIN kept]]
          /\ shown[t] \in listed
      BY DEF Starts
    <3>2. shown[t] \in DOMAIN p
      BY <3>1 DEF Starts
    <3>3. T[t].manager = [m EXCEPT !.available = m.ref \in DOMAIN kept]
      BY <2>1, <3>1
    <3> QED
      BY <3>2, <3>3
  <2>3. m \in Managers /\ (m.ref \in DOMAIN its => m.ref \in DOMAIN kept)
    BY <1>2, <2>1, <2>2
  <2>4. PICK av : av = (m.ref \in DOMAIN kept)
    OBVIOUS
  <2>5. T[t].manager = [m EXCEPT !.available = av]
    BY <2>2, <2>4
  <2>6. T[t].manager.ref = m.ref /\ T[t].manager.available = av
    BY <2>3, <2>5 DEF Managers
  <2> QED
    BY <2>3, <2>4, <2>6
<1>7. \A c \in B : c.op # "remove" /\ (c.op = "drop" => c.manager.ref \notin DOMAIN its)
  <2> SUFFICES ASSUME NEW c \in B PROVE c.op # "remove" /\ (c.op = "drop" => c.manager.ref \notin DOMAIN its)
    OBVIOUS
  <2>1. CASE c \in Saves(p, mgr)
    BY <2>1 DEF Saves, Call
  <2>2. CASE c \in Drops(p, mgr, listed)
    <3>1. PICK i \in DOMAIN p \ listed : c = Call("drop", NoRef, mgr[i])
      BY <2>2 DEF Drops
    <3> QED
      BY <1>2, <3>1 DEF Call
  <2> QED
    BY <1>3, <2>1, <2>2
<1>8. Clean(p, its, T, B)
  BY <1>4, <1>5, <1>6, <1>7 DEF Clean
<1> QED
  BY <1>1, <1>8

\* Tidy after a step, from its parts.
LEMMA TidyNext ==
  ASSUME messy' \/ (refused' = FALSE /\ Clean(prefs', items', tunnels', Asked(calls')))
  PROVE  Tidy'
BY DEF Tidy

\* A request at the end is asked for.
LEMMA AskedAppend ==
  ASSUME NEW cs \in Seq(AllCalls), NEW c, c.op # "load"
  PROVE  Asked(Append(cs, c)) = Asked(cs) \cup {c} /\ ToSet(Append(cs, c)) = ToSet(cs) \cup {c}
<1>1. PICK t : t = Append(cs, c)
  OBVIOUS
<1>2. /\ DOMAIN t = 1 .. Len(cs) + 1 /\ Len(cs) \in Nat /\ DOMAIN cs = 1 .. Len(cs)
      /\ t[Len(cs) + 1] = c /\ \A j \in 1 .. Len(cs) : t[j] = cs[j]
  BY <1>1
<1>3. ToSet(t) = ToSet(cs) \cup {c}
  <2>1. ToSet(t) \subseteq ToSet(cs) \cup {c}
    BY <1>2 DEF ToSet
  <2>2. ToSet(cs) \cup {c} \subseteq ToSet(t)
    BY <1>2 DEF ToSet
  <2> QED
    BY <2>1, <2>2
<1> QED
  BY <1>1, <1>3 DEF Asked

\* add.
LEMMA AddTidy ==
  ASSUME Types, StoreInv, Tidy, NEW name \in Names, NEW body \in Bodies, Add(name, body)
  PROVE  Tidy'
<1> DEFINE ref == NewRef(Now)
           A == Asked(calls)
<1>1. MayEdit /\ UNCHANGED <<prefs, tunnels, messy, refused>>
  BY DEF Add
<1>2. PICK m : m = [id |-> Min(FreshIds), name |-> name, ref |-> ref, legacy |-> NoBody, available |-> TRUE, body |-> body]
  OBVIOUS
<1>3. \/ items' = WithItem(items, ref, body, NoRef) /\ calls' = Append(calls, Call("add", NewSlot(Now), m))
      \/ items' = items /\ calls' = Append(calls, Call("add", NewSlot(Now), [m EXCEPT !.ref = NoProtocol]))
  BY <1>2 DEF Add
<1>4. /\ ref \notin DOMAIN items /\ \A i \in DOMAIN prefs : prefs[i].ref # ref
      /\ \A t \in DOMAIN tunnels : tunnels[t].manager.ref # ref
      /\ \A c \in A : c.manager.ref # ref
  BY <1>1, EditRoom, FreshRef
<1> HIDE DEF ref
<1>5. PICK new : new = items'
  OBVIOUS
<1>6. \E c : /\ calls' = Append(calls, c) /\ c.op = "add"
             /\ \A x \in DOMAIN new : x \in DOMAIN items \/ (x = ref /\ c.manager.ref = ref)
  <2>1. CASE items' = WithItem(items, ref, body, NoRef) /\ calls' = Append(calls, Call("add", NewSlot(Now), m))
    <3>1. Call("add", NewSlot(Now), m).op = "add" /\ Call("add", NewSlot(Now), m).manager.ref = ref
      BY <1>2 DEF Call
    <3>2. \A x \in DOMAIN new : x \in DOMAIN items \/ x = ref
      BY <1>5, <2>1 DEF WithItem, With, Without
    <3> QED
      BY <2>1, <3>1, <3>2
  <2>2. CASE items' = items /\ calls' = Append(calls, Call("add", NewSlot(Now), [m EXCEPT !.ref = NoProtocol]))
    <3>1. Call("add", NewSlot(Now), [m EXCEPT !.ref = NoProtocol]).op = "add"
      BY DEF Call
    <3> QED
      BY <1>5, <2>2, <3>1
  <2> QED
    BY <1>3, <2>1, <2>2
<1>7. PICK c : /\ calls' = Append(calls, c) /\ c.op = "add"
               /\ \A x \in DOMAIN new : x \in DOMAIN items \/ (x = ref /\ c.manager.ref = ref)
  BY <1>6
<1>8. CASE ~messy
  <2>1. Clean(prefs, items, tunnels, A) /\ refused = FALSE
    BY <1>8 DEF Tidy, Types
  <2>2. Asked(calls') = A \cup {c}
    BY <1>7, AskedAppend DEF Types
  <2> HIDE DEF A
  <2>3. \A t \in DOMAIN tunnels : tunnels[t].manager.ref \in DOMAIN new => tunnels[t].manager.available
    BY <1>4, <1>7, <2>1 DEF Clean
  <2>4. Clean(prefs, new, tunnels, A \cup {c})
    BY <1>4, <1>7, <2>1, <2>3, CleanJoins
  <2>5. prefs' = prefs /\ tunnels' = tunnels /\ refused' = FALSE
    BY <1>1, <2>1
  <2> QED
    BY <1>5, <2>2, <2>4, <2>5, TidyNext
<1> QED
  BY <1>1, <1>8, TidyNext

\* modify: the old item goes before the request.
LEMMA ModifyTidy ==
  ASSUME Types, StoreInv, Tidy, NEW x \in DOMAIN tunnels, NEW name \in Names \cup {tunnels[x].name}, NEW body \in Bodies,
         Modify(x, name, body)
  PROVE  Tidy'
<1> DEFINE A == Asked(calls)
           ref == NewRef(Now)
<1>1. MayEdit /\ UNCHANGED <<prefs, messy, refused>>
  BY DEF Modify
<1>2. PICK m : m = tunnels[x].manager
  OBVIOUS
<1>3. PICK edited : edited = [m EXCEPT !.name = name, !.body = body, !.available = TRUE, !.legacy = NoBody]
  OBVIOUS
<1>4. /\ \E op, n, its :
           /\ op \in {"rules", "modify"}
           /\ items' = its
           /\ tunnels' = [tunnels EXCEPT ![x] = [name |-> IF name # m.name THEN name ELSE @.name, manager |-> n]]
           /\ calls' = Append(calls, Call(op, x, n))
           /\ \/ op = "rules" /\ its = items /\ n = m
              \/ op = "modify" /\ its = WithItem(items, ref, body, m.ref) /\ n = [edited EXCEPT !.ref = ref]
              \/ op = "modify" /\ its = items /\ n = [edited EXCEPT !.ref = NoProtocol]
  BY <1>2, <1>3 DEF Modify
<1>5. PICK op, n, new :
           /\ op \in {"rules", "modify"}
           /\ items' = new
           /\ tunnels' = [tunnels EXCEPT ![x] = [name |-> IF name # m.name THEN name ELSE @.name, manager |-> n]]
           /\ calls' = Append(calls, Call(op, x, n))
           /\ \/ op = "rules" /\ new = items /\ n = m
              \/ op = "modify" /\ new = WithItem(items, ref, body, m.ref) /\ n = [edited EXCEPT !.ref = ref]
              \/ op = "modify" /\ new = items /\ n = [edited EXCEPT !.ref = NoProtocol]
  BY <1>4
<1> op \in {"rules", "modify"}
  BY <1>5
<1>6. /\ ref \notin DOMAIN items /\ \A i \in DOMAIN prefs : prefs[i].ref # ref
      /\ \A c \in DOMAIN tunnels : tunnels[c].manager.ref # ref
      /\ \A c \in A : c.manager.ref # ref
  BY <1>1, EditRoom, FreshRef
<1> HIDE DEF A, ref
<1>7. m \in Managers
  BY <1>2 DEF Types, ListOK, Containers
<1>8. \A y \in DOMAIN new : y \in DOMAIN items \/ (y = ref /\ n.ref = ref)
  <2>1. CASE new = WithItem(items, ref, body, m.ref) /\ n = [edited EXCEPT !.ref = ref]
    <3>1. edited \in [id : Ids, name : {name}, ref : Refs \cup {NoRef, NoProtocol}, legacy : {NoBody},
                      available : {TRUE}, body : {body}]
      BY <1>3, <1>7 DEF Managers
    <3>2. n.ref = ref
      BY <2>1, <3>1
    <3>3. \A y \in DOMAIN new : y \in DOMAIN items \/ y = ref
      BY <2>1 DEF WithItem, With, Without
    <3> QED
      BY <3>2, <3>3
  <2> QED
    BY <1>5, <2>1
<1>9. n.available \/ n = m
  BY <1>3, <1>5, <1>7 DEF Managers
<1>10. PICK c : c = Call(op, x, n)
  OBVIOUS
<1>11. c.op = op /\ c.manager = n /\ calls' = Append(calls, c)
  BY <1>5, <1>10 DEF Call
<1>12. PICK U : U = tunnels'
  OBVIOUS
<1>13. DOMAIN U = DOMAIN tunnels /\ U[x].manager = n /\ \A t \in DOMAIN tunnels \ {x} : U[t] = tunnels[t]
  BY <1>5, <1>12
<1>14. CASE ~messy
  <2>1. Clean(prefs, items, tunnels, A) /\ refused = FALSE
    BY <1>14 DEF Tidy, Types, A
  <2>2. Asked(calls') = A \cup {c}
    BY <1>11, AskedAppend DEF Types, A
  <2>3. ASSUME NEW t \in DOMAIN U, U[t].manager.ref \in DOMAIN new PROVE U[t].manager.available
    <3>1. CASE t # x
      BY <1>6, <1>8, <1>13, <2>1, <2>3, <3>1 DEF Clean
    <3>2. CASE t = x /\ n = m
      <4>1. m.ref # ref
        BY <1>2, <1>6
      <4> QED
        BY <1>2, <1>8, <1>13, <2>1, <2>3, <3>2, <4>1 DEF Clean
    <3> QED
      BY <1>9, <1>13, <3>1, <3>2
  <2>4. Clean(prefs, new, U, A \cup {c})
    BY <1>6, <1>8, <1>11, <2>1, <2>3, CleanJoins
  <2>5. prefs' = prefs /\ refused' = FALSE
    BY <1>1, <2>1
  <2> QED
    BY <1>5, <1>12, <2>2, <2>4, <2>5, TidyNext
<1> QED
  BY <1>1, <1>14, TidyNext

\* remove: the item goes before the request.
LEMMA RemoveTidy ==
  ASSUME Types, StoreInv, Tidy, NEW x \in DOMAIN tunnels, RemoveTunnel(x)
  PROVE  Tidy'
<1> DEFINE A == Asked(calls)
<1>1. MayEdit /\ UNCHANGED <<prefs, tunnels, messy, refused>>
  BY DEF RemoveTunnel
<1>2. PICK m : m = tunnels[x].manager
  OBVIOUS
<1>3. PICK c : c = Call("remove", x, m)
  OBVIOUS
<1>4. PICK new : new = items'
  OBVIOUS
<1>5. new = (IF m.available THEN Without(items, m.ref) ELSE items) /\ calls' = Append(calls, c)
  BY <1>2, <1>3, <1>4 DEF RemoveTunnel
<1>6. c.op = "remove" /\ c.manager = m /\ m \in Managers
  BY <1>2, <1>3 DEF Call, Types, ListOK, Containers
<1>7. \A d \in A : d.op \in {"save", "drop"}
  BY <1>1, EditRoom
<1> DEFINE B == A \cup {c}
<1>8. CASE ~messy
  <2>1. Clean(prefs, items, tunnels, A) /\ refused = FALSE
    BY <1>8 DEF Tidy, Types
  <2>2. Asked(calls') = B
    BY <1>5, <1>6, AskedAppend DEF Types
  <2>3. List(prefs, items, tunnels, A, failed, FALSE) /\ Legacies(prefs) /\ PrefsOK(prefs) /\ ItemsOK(items)
    BY <2>1 DEF StoreInv, Disk, Types
  <2> HIDE DEF A
  <2>4. m.ref \notin DOMAIN new /\ DOMAIN new \subseteq DOMAIN items
    <3>1. CASE m.available
      BY <1>5, <3>1 DEF Without
    <3>2. CASE ~m.available
      BY <1>2, <1>5, <2>1, <3>2 DEF Clean
    <3> QED
      BY <3>1, <3>2
  <2>5. \A i : Saving(prefs, B, i) = Saving(prefs, A, i)
    BY <1>6 DEF Saving
  <2>6. ASSUME m.id \in DOMAIN prefs PROVE Gone(prefs, new, B, m.id)
    <3>1. Agrees(prefs, A, m.id, m)
      <4>1. m.id \notin Of(A, "modify")
        BY <1>7 DEF Of
      <4> QED
        BY <1>2, <2>3, <2>6, <4>1 DEF List, ShownAgree, Id
    <3>2. CASE Saving(prefs, A, m.id) = {}
      BY <2>4, <2>5, <3>1, <3>2 DEF Agrees, Gone
    <3>3. CASE Saving(prefs, A, m.id) # {}
      <4>1. prefs[m.id].ref \notin DOMAIN new
        <5>1. prefs[m.id].ref = NoRef
          BY <2>3, <2>6, <3>3 DEF Legacies, LegacyOK, Saving, IsLegacy
        <5> QED
          BY <2>3, <2>4, <5>1, NoRefs DEF ItemsOK
      <4> QED
        BY <2>4, <2>5, <3>1, <3>3, <4>1 DEF Agrees, Gone
    <3> QED
      BY <3>2, <3>3
  <2>7. Clean(prefs, new, tunnels, B)
    <3>1. \A ref \in DOMAIN new : RefUsed(prefs, B, ref)
      BY <2>1, <2>4 DEF Clean, RefUsed
    <3>2. \A t \in DOMAIN tunnels : tunnels[t].manager.ref \in DOMAIN new => tunnels[t].manager.available
      BY <2>1, <2>4 DEF Clean
    <3>3. \A i \in DOMAIN prefs : IsLegacy(prefs, i) => Saving(prefs, B, i) # {}
      BY <2>1, <2>5 DEF Clean
    <3>4. \A d \in B : d.op \in {"remove", "drop"} => d.manager.ref \notin DOMAIN new
      BY <1>6, <2>1, <2>4 DEF Clean
    <3>5. \A d \in B : d.op = "remove" /\ d.manager.id \in DOMAIN prefs => Gone(prefs, new, B, d.manager.id)
      BY <1>6, <1>7, <2>6
    <3> QED
      BY <3>1, <3>2, <3>3, <3>4, <3>5 DEF Clean
  <2>8. prefs' = prefs /\ tunnels' = tunnels /\ refused' = FALSE
    BY <1>1, <2>1
  <2> QED
    BY <1>4, <2>2, <2>7, <2>8, TidyNext
<1> QED
  BY <1>1, <1>8, TidyNext

\* A failed edit.
LEMMA FailTidy ==
  ASSUME Types, StoreInv, Tidy, NEW c, calls # <<>>, c = Head(calls), c.op \in {"add", "remove"}, calls' = Tail(calls),
         UNCHANGED <<prefs, tunnels, messy, refused>>,
         (c.op = "remove" /\ items' = items) \/ items' = Without(items, c.manager.ref)
  PROVE  Tidy'
<1>1. Answers(Asked(calls), c, Asked(calls')) /\ c.op \in EditOps
  BY HeadAnswered DEF EditOps
<1>2. CASE ~messy
  <2>1. Clean(prefs, items, tunnels, Asked(calls)) /\ refused' = FALSE
    BY <1>2 DEF Tidy, Types
  <2>2. PICK new : new = items'
    OBVIOUS
  <2>3. DOMAIN new \subseteq DOMAIN items /\ c.manager.ref \notin DOMAIN new
    BY <1>1, <2>1, <2>2 DEF Clean, Without, Answers
  <2>4. Clean(prefs, new, tunnels, Asked(calls'))
    BY <1>1, <2>1, <2>3, CleanFails
  <2> QED
    BY <2>1, <2>2, <2>4, TidyNext
<1> QED
  BY <1>2, TidyNext

\* What a request that succeeds does, when nothing has gone wrong.
LEMMA StoredTidy ==
  ASSUME Types, StoreInv, Clean(prefs, items, tunnels, Asked(calls)), refused = FALSE,
         NEW c, calls # <<>>, c = Head(calls), c.op # "load", calls' = Tail(calls), Possible(prefs, c),
         NEW q, q = Stored(prefs, c), c.op = "modify" => c.slot \in DOMAIN tunnels
  PROVE  StoredAs(prefs, items, Asked(calls), c, Asked(calls'), q)
<1> DEFINE A == Asked(calls)
           B == Asked(calls')
<1>1. Answers(A, c, B) /\ c \in ManagerCalls
  BY HeadAnswered
<1>2. ItemsOK(items) /\ Disk(prefs, items, A, failed, FALSE) /\ List(prefs, items, tunnels, A, failed, FALSE)
  BY DEF Types, StoreInv
<1>3. PICK m, i0 : m = c.manager /\ i0 = c.manager.id
  OBVIOUS
<1> HIDE DEF A, B
<1>4. NoRef \notin DOMAIN items
  BY <1>2, NoRefs DEF ItemsOK
<1>5. c \in A /\ B \subseteq A /\ (c.op \in EditOps => \A d \in B : d.op # "remove")
  BY <1>1 DEF Answers, EditOps
<1>6. \A i \in DOMAIN prefs : IsLegacy(prefs, i) => prefs[i].ref = NoRef
  BY <1>2 DEF Disk, Legacies, LegacyOK, IsLegacy
<1>7. /\ \A i \in DOMAIN q : i # i0 => i \in DOMAIN prefs /\ q[i] = prefs[i]
      /\ \A i \in DOMAIN prefs : i # i0 => i \in DOMAIN q
  BY <1>3 DEF Stored, Without, With
<1>8. CASE c.op \in {"add", "modify", "rules", "save"}
  <2>1. i0 \in DOMAIN q /\ q[i0].ref = m.ref /\ q[i0].legacy = m.legacy /\ m.ref # NoProtocol
    BY <1>3, <1>8 DEF Stored, With, Entry, Possible
  <2>2. CASE c.op = "add"
    <3>1. i0 \notin DOMAIN prefs /\ m.legacy = NoBody
      BY <1>2, <1>3, <1>5, <2>1, <2>2 DEF Disk, AddOK, NewItem
    <3> QED
      BY <1>1, <1>3, <1>5, <1>7, <2>1, <2>2, <3>1 DEF StoredAs, IsLegacy, A, B, EditOps
  <2>3. CASE c.op = "modify"
    <3>1. i0 \in DOMAIN prefs /\ m.legacy = NoBody
      BY <1>2, <1>3, <1>5, <2>1, <2>3 DEF Disk, NewItem, Possible
    <3>2. prefs[i0].ref \notin DOMAIN items
      BY <1>2, <1>3, <1>5, <2>1, <2>3, <3>1 DEF List, Modifying
    <3> QED
      BY <1>1, <1>3, <1>5, <1>7, <2>1, <2>3, <3>1, <3>2 DEF StoredAs, IsLegacy, A, B, EditOps
  <2>4. CASE c.op = "rules"
    <3>1. i0 \in DOMAIN prefs /\ RulesOK(prefs, items, A, failed, FALSE, c)
      BY <1>2, <1>3, <1>5, <2>4 DEF Disk, Possible
    <3>2. (m.legacy # NoBody /\ IsLegacy(prefs, i0)) \/ (m.legacy = NoBody /\ Agrees(prefs, A, i0, m))
      BY <1>3, <2>4, <3>1 DEF RulesOK
    <3>3. prefs[i0].ref \in DOMAIN items => m.ref = prefs[i0].ref
      BY <1>4, <1>6, <3>1, <3>2 DEF Agrees, Saving
    <3>4. IsLegacy(q, i0) => Saving(prefs, A, i0) # {}
      BY <2>1, <3>1, <3>2 DEF IsLegacy, Clean, A
    <3> QED
      BY <1>1, <1>3, <1>5, <1>7, <2>1, <2>4, <3>3, <3>4 DEF StoredAs, A, B, EditOps
  <2>5. CASE c.op = "save"
    <3>1. i0 \in DOMAIN prefs /\ m.legacy = NoBody /\ IsLegacy(prefs, i0)
      BY <1>2, <1>3, <1>5, <2>5 DEF Disk, Possible, SaveOK, IsLegacy
    <3>2. c \in Saving(prefs, A, i0)
      BY <1>3, <1>5, <2>5, <3>1 DEF Saving
    <3>3. \A d \in B : d.op = "remove" /\ d.manager.id = i0 => m.ref \notin DOMAIN items
      BY <1>3, <1>5, <3>1, <3>2 DEF Clean, Gone, A
    <3> QED
      BY <1>1, <1>3, <1>4, <1>6, <1>7, <2>1, <2>5, <3>1, <3>3 DEF StoredAs, IsLegacy, A, B
  <2> QED
    BY <1>8, <2>2, <2>3, <2>4, <2>5
<1>9. CASE c.op \in {"remove", "drop"}
  <2>1. i0 \notin DOMAIN q /\ i0 \in DOMAIN prefs /\ m.ref \notin DOMAIN items
    BY <1>3, <1>5, <1>9 DEF Stored, Without, Possible, Clean, A
  <2>2. prefs[i0].ref \notin DOMAIN items
    <3>1. CASE c.op = "remove"
      BY <1>3, <1>5, <2>1, <3>1 DEF Clean, Gone, A
    <3>2. CASE c.op = "drop"
      <4>1. IsLegacy(prefs, i0) \/ ~Live(prefs, items, i0)
        BY <1>2, <1>3, <1>5, <2>1, <3>2 DEF Disk, DropOK
      <4> QED
        BY <1>4, <1>6, <2>1, <4>1 DEF Live
    <3> QED
      BY <1>9, <3>1, <3>2
  <2> QED
    BY <1>1, <1>3, <1>7, <2>1, <2>2 DEF StoredAs, A, B
<1> QED
  BY <1>1, <1>8, <1>9, CallFields

\* A request that succeeds.
LEMMA SuccessTidy ==
  ASSUME Types, StoreInv, Tidy, NEW c, calls # <<>>, c = Head(calls), c.op # "load", calls' = Tail(calls),
         Possible(prefs, c), prefs' = Stored(prefs, c), UNCHANGED <<items, messy, refused>>,
         c.op = "modify" => c.slot \in DOMAIN tunnels,
         \/ c.op = "add" /\ tunnels' = With(tunnels, c.slot, [name |-> c.manager.name, manager |-> c.manager])
         \/ c.op # "add" /\ DOMAIN tunnels' \subseteq DOMAIN tunnels /\ \A t \in DOMAIN tunnels' : tunnels'[t] = tunnels[t]
  PROVE  Tidy'
<1> DEFINE A == Asked(calls)
           B == Asked(calls')
<1>1. CASE ~messy
  <2>1. Clean(prefs, items, tunnels, A) /\ refused = FALSE
    BY <1>1 DEF Tidy, Types
  <2>2. PICK q, U : q = prefs' /\ U = tunnels'
    OBVIOUS
  <2>3. \A t \in DOMAIN U : U[t].manager.ref \in DOMAIN items => U[t].manager.available
    <3>1. c.op = "add" => c.manager.available
      <4>1. c \in A
        BY HeadAnswered DEF Answers
      <4> QED
        BY <4>1 DEF StoreInv, List, Adding
    <3> QED
      BY <2>1, <2>2, <3>1 DEF Clean, With
  <2>4. StoredAs(prefs, items, A, c, B, q)
    BY <2>1, <2>2, StoredTidy
  <2> HIDE DEF A, B
  <2>5. Clean(q, items, U, B)
    BY <2>1, <2>2, <2>3, <2>4, CleanStored
  <2> QED
    BY <2>1, <2>2, <2>5, TidyNext DEF B
<1> QED
  BY <1>1, TidyNext

\* A launch sweeps the keychain.
LEMMA RelaunchTidy ==
  ASSUME Types, StoreInv, NEW n \in 0 .. Len(calls), NEW lost, Relaunch(n, lost)
  PROVE  Tidy'
<1> DEFINE q == AfterCalls(n)[n]
<1>1. prefs' = q /\ Launch(q, lost \cap DOMAIN q) /\ messy' = (lost # {}) /\ refused' = FALSE
  BY DEF Relaunch
<1>2. PrefsOK(q) /\ ItemsOK(items)
  BY AfterCallsDisk DEF Types, StoreInv
<1> HIDE DEF q
<1>3. CASE lost = {}
  <2>1. Launch(q, {})
    <3>1. lost \cap DOMAIN q = {}
      BY <1>3
    <3> QED
      BY <1>1, <3>1
  <2>2. PICK new, kept, mgr, listed, shown : Starts(q, {}, new, kept, mgr, listed, shown, items', tunnels', calls')
    BY <2>1, LaunchStarts
  <2>3. PICK its, T, cs : its = items' /\ T = tunnels' /\ cs = calls'
    OBVIOUS
  <2>4. Starts(q, {}, new, kept, mgr, listed, shown, its, T, cs)
    BY <2>2, <2>3
  <2>5. Clean(q, its, T, Asked(cs))
    BY <1>2, <2>4, CleanLaunch
  <2> QED
    BY <1>1, <2>3, <2>5, TidyNext
<1> QED
  BY <1>1, <1>3, TidyNext

\* A container that the reload leaves in the list has the manager of a stored configuration.
LEMMA AllTouched ==
  ASSUME NEW A, NEW lost, NEW s, Reloaded(A, lost, DOMAIN prefs, s), NEW t \in DOMAIN s.tunnels
  PROVE  Touched(DOMAIN prefs, s.tunnels, Asked(s.calls), t)
<1>1. ~Waiting(DOMAIN prefs, t)
  BY DEF Waiting, Like
<1> QED
  BY <1>1 DEF Reloaded, ReloadList

\* reload: what it makes is for the migrations that it asks for.
LEMMA ReloadTidy ==
  ASSUME Types, StoreInv, Tidy, NEW lost, lost \subseteq DOMAIN prefs, Reload(lost)
  PROVE  Tidy'
<1>1. PICK A : A = Asked(calls)
  OBVIOUS
<1>2. /\ Answered("load") /\ messy' = (messy \/ lost # {})
      /\ UNCHANGED <<prefs, refused>>
  BY DEF Reload
<1>3. PICK order \in Bijection(1 .. Cardinality(DOMAIN prefs), DOMAIN prefs) :
        /\ \A k \in 1 .. Len(order) : Room(Reloading(order, lost)[k - 1])
        /\ items' = Reloading(order, lost)[Len(order)].items /\ tunnels' = Reloading(order, lost)[Len(order)].tunnels
        /\ calls' = Reloading(order, lost)[Len(order)].calls
  BY DEF Reload
<1>4. Loading(A) /\ Reloaded(A, lost, {}, ReloadStart)
  BY <1>1, <1>2, ReloadBegins
<1>5. PICK s : s = Reloading(order, lost)[Len(order)]
  OBVIOUS
<1>6. Reloaded(A, lost, DOMAIN prefs, s)
  BY <1>3, <1>4, <1>5, ReloadSteps
<1>7. items' = s.items /\ tunnels' = s.tunnels /\ calls' = s.calls
  BY <1>3, <1>5
<1>8. CASE ~messy /\ lost = {}
  <2>1. Clean(prefs, items, tunnels, A) /\ refused = FALSE
    BY <1>1, <1>8 DEF Tidy, Types
  <2>2. \A i \in DOMAIN prefs : ~IsLegacy(prefs, i)
    BY <1>4, <2>1 DEF Clean, Saving, Loading
  <2>3. s.items = items
    BY <1>6, <2>2 DEF Reloaded, ReloadItems
  <2>4. Asked(s.calls) = A
    BY <1>6, <2>2 DEF Reloaded, ReloadCalls, NewSave
  <2>5. ASSUME NEW t \in DOMAIN s.tunnels, s.tunnels[t].manager.ref \in DOMAIN items PROVE s.tunnels[t].manager.available
    <3>1. Touched(DOMAIN prefs, s.tunnels, A, t)
      BY <1>6, <2>4, AllTouched
    <3>2. PICK i : i = Id(s.tunnels, t)
      OBVIOUS
    <3>3. i \in DOMAIN prefs /\ Agrees(prefs, A, i, s.tunnels[t].manager)
          /\ (IsLegacy(prefs, i) \/ s.tunnels[t].manager.available = (prefs[i].ref \in DOMAIN items))
      BY <3>1, <3>2 DEF Touched
    <3>4. s.tunnels[t].manager.ref = prefs[i].ref
      BY <2>2, <3>3 DEF Agrees, Saving
    <3> QED
      BY <2>2, <2>5, <3>3, <3>4
  <2>6. Clean(prefs, items, s.tunnels, A)
    BY <2>1, <2>5 DEF Clean
  <2>7. prefs' = prefs /\ refused' = FALSE
    BY <1>2, <2>1
  <2> QED
    BY <1>7, <2>3, <2>4, <2>6, <2>7, TidyNext
<1> QED
  BY <1>2, <1>8, TidyNext

\* The first launch.
LEMMA TidyInit == Init => Tidy
<1> SUFFICES ASSUME Init PROVE Tidy
  OBVIOUS
<1>1. DOMAIN prefs = {} /\ DOMAIN items = {} /\ DOMAIN tunnels = {} /\ DOMAIN calls = {} /\ refused = FALSE
  BY DEF Init
<1>2. Asked(calls) = {}
  BY <1>1 DEF Asked, ToSet
<1>3. PICK A : A = Asked(calls)
  OBVIOUS
<1>4. Clean(prefs, items, tunnels, A)
  BY <1>1, <1>2, <1>3 DEF Clean
<1> QED
  BY <1>1, <1>3, <1>4 DEF Tidy

\* Every step.
LEMMA TidyStep == Types /\ StoreInv /\ Tidy /\ [Next]_vars => Tidy'
<1> SUFFICES ASSUME Types, StoreInv, Tidy, [Next]_vars PROVE Tidy'
  OBVIOUS
<1> DEFINE c == Head(calls)
<1>1. CASE Edit
  BY <1>1, AddTidy, ModifyTidy, RemoveTidy DEF Edit
<1>2. CASE AddReturns
  <2>1. calls # <<>> /\ c.op = "add" /\ calls' = Tail(calls) /\ UNCHANGED <<messy, refused>>
    BY <1>2 DEF AddReturns, Answered
  <2>2. CASE Succeeds(c) /\ tunnels' = With(tunnels, c.slot, [name |-> c.manager.name, manager |-> c.manager])
             /\ UNCHANGED items
    BY <2>1, <2>2, SuccessTidy DEF Succeeds
  <2>3. CASE Fails(c) /\ items' = Without(items, c.manager.ref) /\ UNCHANGED tunnels
    BY <2>1, <2>3, FailTidy DEF Fails
  <2> QED
    BY <1>2, <2>2, <2>3 DEF AddReturns
<1>3. CASE ModifyReturns
  <2>1. calls # <<>> /\ c.op \in {"modify", "rules"}
    BY <1>3 DEF ModifyReturns, Answered
  <2>2. CASE Succeeds(c) /\ c.slot \in DOMAIN tunnels /\ calls' = Tail(calls)
             /\ UNCHANGED <<items, tunnels, messy, refused>>
    BY <2>1, <2>2, SuccessTidy DEF Succeeds
  <2>3. CASE \E n \in 1 .. Len(calls) : Relaunch(n, {})
    <3>1. \A n \in 1 .. Len(calls) : n \in 0 .. Len(calls)
      BY DEF Types
    <3> QED
      BY <2>3, <3>1, RelaunchTidy
  <2>4. CASE messy'
    BY <2>4, TidyNext
  <2> QED
    BY <1>3, <2>2, <2>3, <2>4 DEF ModifyReturns
<1>4. CASE RemoveReturns
  <2>1. calls # <<>> /\ c.op = "remove" /\ calls' = Tail(calls) /\ UNCHANGED <<items, messy, refused>>
    BY <1>4 DEF RemoveReturns, Answered
  <2>2. CASE Succeeds(c) /\ tunnels' = Without(tunnels, c.slot)
    <3>1. DOMAIN tunnels' \subseteq DOMAIN tunnels /\ \A t \in DOMAIN tunnels' : tunnels'[t] = tunnels[t]
      BY <2>2 DEF Without
    <3> QED
      BY <2>1, <2>2, <3>1, SuccessTidy DEF Succeeds
  <2>3. CASE Fails(c) /\ UNCHANGED tunnels
    BY <2>1, <2>3, FailTidy DEF Fails
  <2> QED
    BY <1>4, <2>2, <2>3 DEF RemoveReturns
<1>5. CASE BackgroundReturns
  <2>1. calls # <<>> /\ c.op \in {"save", "drop"} /\ calls' = Tail(calls) /\ UNCHANGED <<items, tunnels>>
    BY <1>5 DEF BackgroundReturns, Answered
  <2>2. CASE Succeeds(c) /\ UNCHANGED <<messy, refused>>
    BY <2>1, <2>2, SuccessTidy DEF Succeeds
  <2>3. CASE messy'
    BY <2>3, TidyNext
  <2> QED
    BY <1>5, <2>2, <2>3 DEF BackgroundReturns
<1>6. CASE PostReload
  <2>1. calls' = Append(calls, Load) /\ (\A d \in ToSet(calls) : d.op # "load")
        /\ UNCHANGED <<prefs, items, tunnels, messy, refused>>
    BY <1>6 DEF PostReload
  <2>2. Load \in AllCalls /\ Load.op = "load" /\ calls \in Seq(AllCalls) /\ InOrder(calls)
    BY DEF AllCalls, Load, Types, StoreInv
  <2>3. Asked(calls') = Asked(calls)
    BY <2>1, <2>2, AppendInOrder DEF EditOps
  <2> QED
    BY <2>1, <2>3, TidyNext DEF Tidy, Types
<1>7. CASE Reload({})
  BY <1>7, ReloadTidy
<1>8. CASE Reload(Legacy)
  <2>1. Legacy \subseteq DOMAIN prefs
    BY DEF Legacy
  <2> QED
    BY <1>8, <2>1, ReloadTidy
<1>9. CASE Crash
  <2>1. 0 \in 0 .. Len(calls)
    BY DEF Types
  <2> QED
    BY <1>9, <2>1, RelaunchTidy DEF Crash
<1>10. CASE Outside
  BY <1>10, TidyNext DEF Outside, AddedOutside, DeletedOutside
<1>11. CASE UNCHANGED vars
  BY <1>11, TidyNext DEF vars, Tidy, Types
<1> QED
  BY <1>1, <1>2, <1>3, <1>4, <1>5, <1>6, <1>7, <1>8, <1>9, <1>10, <1>11 DEF Next

\* That every item is used is what the property says.
LEMMA NoneLeft == Tidy => NothingLeftBehind
<1> SUFFICES ASSUME Tidy, ~messy, NEW r \in DOMAIN items
             PROVE  (\E i \in DOMAIN prefs : prefs[i].ref = r) \/ (\E c \in AboutManager : c.manager.ref = r)
  BY DEF NothingLeftBehind
<1>1. RefUsed(prefs, Asked(calls), r)
  BY DEF Tidy, Clean
<1> QED
  BY <1>1 DEF RefUsed, Asked, AboutManager

-----------------------------------------------------------------------------
(* When nothing is under way, the list shows what is stored.               *)

Stale == changed \/ \E c \in ToSet(calls) : c.op = "load"

Settling(A) == Of(A, "modify") \cup Of(A, "remove") \cup Of(A, "drop")
Shows(p, T, A, i) ==
  /\ \E t \in DOMAIN T : Id(T, t) = i
  /\ \A t \in DOMAIN T : Id(T, t) = i => T[t].name = p[i].name /\ Agrees(p, A, i, T[t].manager)
Listing(p, T, A, F) ==
  /\ \A t \in DOMAIN T : Id(T, t) \in DOMAIN p
  /\ \A i \in DOMAIN p \ (F \cup Settling(A)) : Shows(p, T, A, i)

\* A reload that is still to come may change the list.
Synced == ProfilesApart(prefs) /\ (Stale \/ Listing(prefs, tunnels, Asked(calls), failed))

\* An edit is asked for.
LEMMA ListingJoins ==
  ASSUME NEW p, NEW T, NEW U, NEW A, NEW c, NEW F, Listing(p, T, A, F), c.op \in EditOps,
         DOMAIN U = DOMAIN T,
         \A t \in DOMAIN T : /\ Id(U, t) = Id(T, t)
                             /\ U[t] = T[t] \/ (c.op = "modify" /\ Id(T, t) = c.manager.id)
  PROVE  Listing(p, U, A \cup {c}, F)
<1> DEFINE B == A \cup {c}
<1>1. \A i : Saving(p, B, i) = Saving(p, A, i)
  BY DEF Saving, EditOps
<1>2. \A op : Of(A, op) \subseteq Of(B, op)
  BY DEF Of
<1>3. c.op = "modify" => c.manager.id \in Of(B, "modify")
  BY DEF Of
<1> HIDE DEF B
<1>4. ASSUME NEW i \in DOMAIN p \ (F \cup Settling(B)) PROVE Shows(p, U, B, i)
  <2>1. i \notin Settling(A) /\ (c.op = "modify" => i # c.manager.id)
    BY <1>2, <1>3 DEF Settling
  <2>2. Shows(p, T, A, i)
    BY <2>1 DEF Listing
  <2> QED
    BY <1>1, <2>1, <2>2 DEF Shows, Agrees
<1> QED
  BY <1>4 DEF Listing, B

\* A request fails.
LEMMA ListingFails ==
  ASSUME NEW p, NEW its, NEW T, NEW A, NEW c, NEW B, NEW F, NEW G, NEW r, Listing(p, T, A, F), Answers(A, c, B),
         Disk(p, its, A, F, r), ItemsOK(its), \A i \in DOMAIN p : i \in F => i \in G,
         (c.op \in {"modify", "remove"} \/ (c.op \in {"save", "drop"} /\ Possible(p, c)))
           /\ c.manager.id \in DOMAIN p => c.manager.id \in G
  PROVE  Listing(p, T, B, G)
<1>1. c \in A /\ B \subseteq A /\ A \subseteq B \cup {c}
  BY DEF Answers
<1>2. ASSUME NEW i \in DOMAIN p \ (G \cup Settling(B)) PROVE Shows(p, T, B, i)
  <2>1. i \notin Settling(A)
    <3>1. ASSUME NEW op, i \in Of(A, op), i \notin Of(B, op) PROVE c.op = op /\ i = c.manager.id
      BY <1>1, <3>1 DEF Of
    <3>2. c.op = "drop" /\ c.manager.id \in DOMAIN p => Possible(p, c)
      BY DEF Possible
    <3> QED
      BY <1>2, <3>1, <3>2 DEF Settling
  <2>2. i \notin F \cup Breaking(A)
    BY <1>2, <2>1 DEF Settling, Breaking, Breaks, Of
  <2>3. Shows(p, T, A, i)
    BY <2>1, <2>2 DEF Listing
  <2>4. Saving(p, B, i) = Saving(p, A, i)
    <3> SUFFICES ASSUME c.op = "save", c.manager.id = i, IsLegacy(p, i) PROVE FALSE
      BY <1>1 DEF Saving
    <3>1. IsGood(p, its, i, c.manager) /\ c.manager.legacy = NoBody
      BY <1>1, <2>2 DEF Disk, SaveOK
    <3>2. c.manager.ref # NoProtocol
      BY <3>1, NoRefs DEF IsGood, ItemsOK
    <3>3. Possible(p, c)
      BY <3>2 DEF Possible, IsLegacy
    <3> QED
      BY <1>2, <3>3
  <2> QED
    BY <2>3, <2>4 DEF Shows, Agrees
<1> QED
  BY <1>2 DEF Listing

\* The app starts.
LEMMA ListingLaunch ==
  ASSUME NEW p, NEW lost, NEW new, NEW kept, NEW mgr, NEW listed, NEW shown, NEW its, NEW T, NEW cs, NEW G,
         Starts(p, lost, new, kept, mgr, listed, shown, its, T, cs), PrefsOK(p), ItemsOK(items),
         List(p, its, T, Asked(cs), G, FALSE)
  PROVE  Listing(p, T, Asked(cs), G)
<1>1. PICK B : B = Asked(cs)
  OBVIOUS
<1>2. \A i \in DOMAIN p : mgr[i] \in Managers /\ mgr[i].id = i
  BY StartedManager
<1>3. B = Saves(p, mgr) \cup Drops(p, mgr, listed)
  <2>1. cs \in Requests(Saves(p, mgr) \cup Drops(p, mgr, listed))
    BY DEF Starts
  <2> QED
    BY <1>1, <1>2, <2>1, LaunchCalls
<1>4. \A i \in DOMAIN p : IsLegacy(p, i) => i \in Of(B, "save")
  <2> SUFFICES ASSUME NEW i \in DOMAIN p, IsLegacy(p, i) PROVE i \in Of(B, "save")
    OBVIOUS
  <2>1. Call("save", NoRef, mgr[i]) \in B
    BY <1>3 DEF Saves, Migrating
  <2> QED
    BY <1>2, <2>1 DEF Of, Call
<1>5. \A t \in DOMAIN T : Id(T, t) \in DOMAIN p
  <2> SUFFICES ASSUME NEW t \in DOMAIN T PROVE Id(T, t) \in DOMAIN p
    OBVIOUS
  <2>1. PICK m : m = mgr[shown[t]]
    OBVIOUS
  <2>2. shown[t] \in DOMAIN p /\ m \in Managers /\ m.id = shown[t]
    BY <1>2, <2>1 DEF Starts
  <2>3. PICK av : av = (m.ref \in DOMAIN kept)
    OBVIOUS
  <2>4. T[t].manager = [m EXCEPT !.available = av]
    <3>1. T[t] = [name |-> p[shown[t]].name, manager |-> [mgr[shown[t]] EXCEPT !.available = mgr[shown[t]].ref \in DOMAIN kept]]
      BY DEF Starts
    <3> QED
      BY <2>1, <2>3, <3>1
  <2> QED
    BY <2>2, <2>4 DEF Id, Managers
<1>6. Of(B, "modify") = {}
  BY <1>3 DEF Of, Saves, Drops, Call
<1>7. ASSUME NEW i \in DOMAIN p \ (G \cup Settling(B)) PROVE Shows(p, T, B, i)
  <2>1. List(p, its, T, B, G, FALSE)
    BY <1>1
  <2>2. \E t \in DOMAIN T : Id(T, t) = i
    BY <1>4, <1>7, <2>1 DEF List, AllShown, Settling
  <2>3. \A t \in DOMAIN T : Id(T, t) = i => T[t].name = p[i].name /\ Agrees(p, B, i, T[t].manager)
    BY <1>6, <2>1 DEF List, ShownAgree
  <2> QED
    BY <2>2, <2>3 DEF Shows
<1> QED
  BY <1>1, <1>5, <1>7 DEF Listing

\* A reload has gone through all managers.
LEMMA ListingReload ==
  ASSUME NEW A, NEW lost, NEW s, Loading(A), Reloaded(A, lost, DOMAIN prefs, s), ProfilesApart(prefs)
  PROVE  Listing(prefs, s.tunnels, Asked(s.calls), failed \cup lost)
<1>1. \A t \in DOMAIN s.tunnels :
        LET i == Id(s.tunnels, t) IN
        i \in DOMAIN prefs /\ s.tunnels[t].name = prefs[i].name /\ Agrees(prefs, Asked(s.calls), i, s.tunnels[t].manager)
  BY AllTouched DEF Touched
<1>2. PICK B : B = Asked(s.calls)
  OBVIOUS
<1>3. A \subseteq B
  BY <1>2 DEF Reloaded, ReloadCalls
<1>4. ASSUME NEW i \in DOMAIN prefs \ (failed \cup lost \cup Settling(B)) PROVE Shows(prefs, s.tunnels, B, i)
  <2>1. Of(A, "modify") \subseteq Of(B, "modify") /\ Of(A, "remove") \subseteq Of(B, "remove")
    BY <1>3 DEF Of
  <2>2. Firm(A, i)
    BY <1>4, <2>1 DEF Firm, Settling
  <2>3. \E t \in DOMAIN s.tunnels : Id(s.tunnels, t) = i
    BY <2>2 DEF Reloaded, ReloadList
  <2> QED
    BY <1>1, <1>2, <2>3 DEF Shows
<1> QED
  BY <1>1, <1>2, <1>4 DEF Listing

\* Every step tells the names of profiles apart.
LEMMA ProfilesStep == Types /\ StoreInv /\ ProfilesApart(prefs) /\ [Next]_vars => ProfilesApart(prefs')
<1> SUFFICES ASSUME Types, StoreInv, ProfilesApart(prefs), [Next]_vars PROVE ProfilesApart(prefs')
  OBVIOUS
<1> DEFINE c == Head(calls)
<1>1. CASE prefs' = prefs
  BY <1>1
<1>2. CASE calls # <<>> /\ c.op # "load" /\ Succeeds(c)
  <2>1. c \in Asked(calls) /\ c \in ManagerCalls
    <3>1. Asked(calls) = After(calls, 0) /\ c \in AllCalls /\ c = calls[1] /\ Len(calls) \in Nat \ {0}
      BY <1>2, AskedIsAfter DEF Types
    <3>2. 1 \in DOMAIN calls
      BY <3>1 DEF Types
    <3> QED
      BY <1>2, <3>1, <3>2, RequestKinds DEF After
  <2>2. prefs' = StoredIfPossible(prefs, c)
    BY <1>2 DEF Succeeds, StoredIfPossible
  <2>3. Disk(prefs, items, Asked(calls), failed, refused)
    BY DEF StoreInv
  <2> HIDE DEF c
  <2> QED
    BY <2>1, <2>2, <2>3, ProfilesStored
<1>3. ASSUME NEW n \in 0 .. Len(calls), NEW lost, Relaunch(n, lost) PROVE ProfilesApart(prefs')
  BY <1>3, AfterCallsDisk DEF Relaunch, Types, StoreInv
<1>4. CASE Outside
  <2>1. ASSUME NEW name \in ProfileNames, NEW body \in Bodies, AddedOutside(name, body) PROVE ProfilesApart(prefs')
    <3>1. PICK i0, e : e.name = name /\ prefs' = With(prefs, i0, e)
      BY <2>1 DEF AddedOutside
    <3>2. \A i \in DOMAIN prefs : prefs[i].name # name
      BY <2>1 DEF AddedOutside
    <3> QED
      BY <3>1, <3>2 DEF With, ProfilesApart
  <2>2. ASSUME NEW i \in Ids, DeletedOutside(i) PROVE ProfilesApart(prefs')
    BY <2>2 DEF DeletedOutside, Without, ProfilesApart
  <2> QED
    BY <1>4, <2>1, <2>2 DEF Outside
<1>5. CASE Edit
  <2>1. ASSUME NEW name, NEW body, Add(name, body) PROVE prefs' = prefs
    BY <2>1 DEF Add
  <2>2. ASSUME NEW t, NEW name, NEW body, Modify(t, name, body) PROVE prefs' = prefs
    <3>1. UNCHANGED <<prefs, changed, world, failed, messy, refused>>
      BY <2>2 DEF Modify
    <3> QED
      BY <3>1
  <2>3. ASSUME NEW t, RemoveTunnel(t) PROVE prefs' = prefs
    BY <2>3 DEF RemoveTunnel
  <2> QED
    BY <1>1, <1>5, <2>1, <2>2, <2>3 DEF Edit
<1>6. CASE AddReturns
  BY <1>1, <1>2, <1>6 DEF AddReturns, Answered, Fails
<1>7. CASE ModifyReturns
  <2>1. \A n \in 1 .. Len(calls) : n \in 0 .. Len(calls)
    BY DEF Types
  <2> QED
    BY <1>1, <1>2, <1>3, <1>7, <2>1 DEF ModifyReturns, Answered, Fails
<1>8. CASE RemoveReturns
  BY <1>1, <1>2, <1>8 DEF RemoveReturns, Answered, Fails
<1>9. CASE BackgroundReturns
  BY <1>1, <1>2, <1>9 DEF BackgroundReturns, Answered, Fails
<1>10. CASE PostReload \/ Reload({}) \/ Reload(Legacy)
  BY <1>1, <1>10 DEF PostReload, Reload
<1>11. CASE Crash
  <2>1. 0 \in 0 .. Len(calls)
    BY DEF Types
  <2> QED
    BY <1>3, <1>11, <2>1 DEF Crash
<1>12. CASE UNCHANGED vars
  BY <1>1, <1>12 DEF vars
<1> QED
  BY <1>4, <1>5, <1>6, <1>7, <1>8, <1>9, <1>10, <1>11, <1>12 DEF Next

\* Synced after a step, from its parts.
LEMMA SyncedNext ==
  ASSUME Types, StoreInv, ProfilesApart(prefs), [Next]_vars,
         \/ changed' \/ (\E c \in ToSet(calls') : c.op = "load")
         \/ Listing(prefs', tunnels', Asked(calls'), failed')
  PROVE  Synced'
BY ProfilesStep DEF Synced, Stale

\* An edit is asked for: a stale list stays stale.
LEMMA EditSynced ==
  ASSUME Types, StoreInv, Synced, [Next]_vars, NEW c, c.op \in EditOps, calls' = Append(calls, c),
         UNCHANGED <<prefs, changed, failed>>, NEW U, U = tunnels', DOMAIN U = DOMAIN tunnels,
         \A t \in DOMAIN tunnels : /\ Id(U, t) = Id(tunnels, t)
                                   /\ U[t] = tunnels[t] \/ (c.op = "modify" /\ Id(tunnels, t) = c.manager.id)
  PROVE  Synced'
<1>1. Asked(calls') = Asked(calls) \cup {c} /\ ToSet(calls') = ToSet(calls) \cup {c}
  BY AskedAppend DEF EditOps, Types
<1>2. CASE Listing(prefs, tunnels, Asked(calls), failed)
  <2>1. Listing(prefs, U, Asked(calls) \cup {c}, failed)
    BY <1>2, ListingJoins
  <2> QED
    BY <1>1, <2>1, SyncedNext DEF Synced
<1>3. CASE Stale
  BY <1>1, <1>3, SyncedNext DEF Stale, Synced
<1> QED
  BY <1>2, <1>3 DEF Synced

\* A request fails: a stale list stays stale.
LEMMA FailSynced ==
  ASSUME Types, StoreInv, Synced, [Next]_vars, NEW c, calls # <<>>, c = Head(calls), c.op # "load", calls' = Tail(calls),
         UNCHANGED <<prefs, tunnels, changed>>, \A i \in DOMAIN prefs : i \in failed => i \in failed',
         (c.op \in {"modify", "remove"} \/ (c.op \in {"save", "drop"} /\ Possible(prefs, c)))
           /\ c.manager.id \in DOMAIN prefs => c.manager.id \in failed'
  PROVE  Synced'
<1>1. CASE Listing(prefs, tunnels, Asked(calls), failed)
  <2>1. Answers(Asked(calls), c, Asked(calls'))
    BY HeadAnswered
  <2>2. PICK G : G = failed'
    OBVIOUS
  <2>3. Listing(prefs, tunnels, Asked(calls'), G)
    BY <1>1, <2>1, <2>2, ListingFails DEF StoreInv, Types
  <2> QED
    BY <2>2, <2>3, SyncedNext DEF Synced
<1>2. CASE Stale
  <2>1. ASSUME NEW d \in ToSet(calls), d.op = "load" PROVE d \in ToSet(calls')
    <3>1. PICK k \in DOMAIN calls : d = calls[k]
      BY DEF ToSet
    <3>2. k # 1 /\ k \in 1 .. Len(calls) /\ Len(calls) \in Nat
      BY <2>1, <3>1 DEF Types
    <3>3. PICK j : j = k - 1
      OBVIOUS
    <3>4. j \in DOMAIN calls' /\ calls'[j] = calls[k]
      BY <3>2, <3>3 DEF Types
    <3> QED
      BY <3>1, <3>4 DEF ToSet
  <2> QED
    BY <1>2, <2>1, SyncedNext DEF Stale, Synced
<1> QED
  BY <1>1, <1>2 DEF Synced

\* add.
LEMMA AddSynced ==
  ASSUME Types, StoreInv, Synced, [Next]_vars, NEW name \in Names, NEW body \in Bodies, Add(name, body)
  PROVE  Synced'
<1>1. PICK m : calls' = Append(calls, Call("add", NewSlot(Now), m))
  BY DEF Add
<1>2. UNCHANGED <<prefs, tunnels, changed, failed>>
  BY DEF Add
<1>3. PICK c : c = Call("add", NewSlot(Now), m)
  OBVIOUS
<1>4. c.op \in EditOps /\ calls' = Append(calls, c)
  BY <1>1, <1>3 DEF Call, EditOps
<1> QED
  BY <1>2, <1>4, EditSynced

\* modify.
LEMMA ModifySynced ==
  ASSUME Types, StoreInv, Synced, [Next]_vars, NEW x \in DOMAIN tunnels, NEW name, NEW body, Modify(x, name, body)
  PROVE  Synced'
<1>1. UNCHANGED <<prefs, changed, world, failed, messy, refused>>
  BY DEF Modify
<1>2. PICK m : m = tunnels[x].manager
  OBVIOUS
<1>3. PICK edited : edited = [m EXCEPT !.name = name, !.body = body, !.available = TRUE, !.legacy = NoBody]
  OBVIOUS
<1>4. \E op, n, its :
        /\ items' = its
        /\ tunnels' = [tunnels EXCEPT ![x] = [name |-> IF name # m.name THEN name ELSE @.name, manager |-> n]]
        /\ calls' = Append(calls, Call(op, x, n))
        /\ \/ op = "rules" /\ its = items /\ n = m /\ name = m.name
           \/ op = "modify" /\ its = WithItem(items, NewRef(Now), body, m.ref) /\ n = [edited EXCEPT !.ref = NewRef(Now)]
           \/ op = "modify" /\ its = items /\ n = [edited EXCEPT !.ref = NoProtocol]
  BY <1>2, <1>3 DEF Modify
<1>5. PICK op, n, ref :
        /\ tunnels' = [tunnels EXCEPT ![x] = [name |-> IF name # m.name THEN name ELSE @.name, manager |-> n]]
        /\ calls' = Append(calls, Call(op, x, n))
        /\ (op = "rules" /\ n = m /\ name = m.name) \/ (op = "modify" /\ n = [edited EXCEPT !.ref = ref])
  BY <1>4
<1>6. PICK c : c = Call(op, x, n)
  OBVIOUS
<1>7. c.op = op /\ c.manager = n /\ calls' = Append(calls, c)
  BY <1>5, <1>6 DEF Call
<1>8. PICK U : U = tunnels'
  OBVIOUS
<1>9. m \in Managers /\ tunnels[x] \in Containers
  BY <1>2 DEF Types, ListOK, Containers
<1>10. n.id = m.id
  BY <1>3, <1>5, <1>9 DEF Managers
<1>11. DOMAIN U = DOMAIN tunnels /\ U[x].manager = n /\ \A t \in DOMAIN tunnels \ {x} : U[t] = tunnels[t]
  BY <1>5, <1>8
<1>12. n = m /\ name = m.name => U[x] = tunnels[x]
  BY <1>2, <1>5, <1>8, <1>9 DEF Containers
<1>13. \A t \in DOMAIN tunnels : /\ Id(U, t) = Id(tunnels, t)
                                 /\ U[t] = tunnels[t] \/ (c.op = "modify" /\ Id(tunnels, t) = c.manager.id)
  <2> SUFFICES ASSUME NEW t \in DOMAIN tunnels
               PROVE  /\ Id(U, t) = Id(tunnels, t)
                      /\ U[t] = tunnels[t] \/ (c.op = "modify" /\ Id(tunnels, t) = c.manager.id)
    OBVIOUS
  <2>1. CASE t = x
    BY <1>2, <1>5, <1>7, <1>10, <1>11, <1>12, <2>1 DEF Id
  <2>2. CASE t # x
    BY <1>11, <2>2 DEF Id
  <2> QED
    BY <2>1, <2>2
<1>14. c.op \in EditOps
  BY <1>5, <1>7 DEF EditOps
<1> QED
  BY <1>1, <1>7, <1>8, <1>11, <1>13, <1>14, EditSynced

\* remove.
LEMMA RemoveSynced ==
  ASSUME Types, StoreInv, Synced, [Next]_vars, NEW x \in DOMAIN tunnels, RemoveTunnel(x)
  PROVE  Synced'
<1>1. UNCHANGED <<prefs, tunnels, changed, failed>> /\ calls' = Append(calls, Call("remove", x, tunnels[x].manager))
  BY DEF RemoveTunnel
<1>2. PICK c : c = Call("remove", x, tunnels[x].manager)
  OBVIOUS
<1>3. c.op \in EditOps /\ calls' = Append(calls, c)
  BY <1>1, <1>2 DEF Call, EditOps
<1> QED
  BY <1>1, <1>3, EditSynced

\* An answer, with or without success.
LEMMA AnswerSynced ==
  ASSUME Types, StoreInv, Synced, [Next]_vars, AddReturns \/ RemoveReturns \/ BackgroundReturns
  PROVE  Synced'
<1> DEFINE c == Head(calls)
<1>1. calls # <<>> /\ c.op \in {"add", "remove", "save", "drop"} /\ calls' = Tail(calls)
  BY DEF AddReturns, RemoveReturns, BackgroundReturns, Answered
<1>2. CASE Succeeds(c)
  BY <1>2, SyncedNext DEF Succeeds, Synced
<1>3. CASE ~Succeeds(c)
  <2>1. CASE AddReturns
    <3>1. Fails(c) /\ UNCHANGED <<tunnels, failed>> /\ c.op = "add"
      BY <1>3, <2>1 DEF AddReturns, Answered
    <3> QED
      BY <1>1, <3>1, FailSynced DEF Fails
  <2>2. CASE RemoveReturns
    <3>1. Fails(c) /\ UNCHANGED tunnels /\ failed' = (failed \cup {c.manager.id}) \cap DOMAIN prefs
      BY <1>3, <2>2 DEF RemoveReturns
    <3>2. UNCHANGED <<prefs, changed>>
      BY <3>1 DEF Fails
    <3>3. \A i \in DOMAIN prefs : (i \in failed \/ i = c.manager.id) => i \in failed'
      BY <3>1
    <3> QED
      BY <1>1, <3>1, <3>2, <3>3, FailSynced
  <2>3. CASE BackgroundReturns
    <3>1. Fails(c) /\ failed' = (IF Possible(prefs, c) THEN failed \cup {c.manager.id} ELSE failed) /\ UNCHANGED tunnels
          /\ c.op \in {"save", "drop"}
      BY <1>3, <2>3 DEF BackgroundReturns, Answered
    <3>2. UNCHANGED <<prefs, changed>>
      BY <3>1 DEF Fails
    <3> QED
      BY <1>1, <3>1, <3>2, FailSynced
  <2> QED
    BY <2>1, <2>2, <2>3
<1> QED
  BY <1>2, <1>3

\* A launch lists what it keeps.
LEMMA RelaunchSynced ==
  ASSUME Types, StoreInv, Synced, [Next]_vars, NEW n \in 0 .. Len(calls), NEW lost, Relaunch(n, lost)
  PROVE  Synced'
<1> DEFINE q == AfterCalls(n)[n]
<1>1. prefs' = q /\ Launch(q, lost \cap DOMAIN q) /\ refused' = FALSE
  BY DEF Relaunch
<1>2. PrefsOK(q) /\ ItemsOK(items)
  BY AfterCallsDisk DEF Types, StoreInv
<1>3. StoreInv'
  BY RelaunchKeeps
<1> HIDE DEF q
<1>4. PICK new, kept, mgr, listed, shown :
        Starts(q, lost \cap DOMAIN q, new, kept, mgr, listed, shown, items', tunnels', calls')
  BY <1>1, LaunchStarts
<1>5. PICK its, T, cs, G : its = items' /\ T = tunnels' /\ cs = calls' /\ G = failed'
  OBVIOUS
<1>6. Starts(q, lost \cap DOMAIN q, new, kept, mgr, listed, shown, its, T, cs)
  BY <1>4, <1>5
<1>7. List(q, its, T, Asked(cs), G, FALSE)
  BY <1>1, <1>3, <1>5 DEF StoreInv
<1>8. Listing(q, T, Asked(cs), G)
  BY <1>2, <1>6, <1>7, ListingLaunch
<1> QED
  BY <1>1, <1>5, <1>8, SyncedNext DEF Synced

\* A reload lists what is stored, and a stale list is stale no more.
LEMMA ReloadSynced ==
  ASSUME Types, StoreInv, Synced, [Next]_vars, NEW lost, Reload(lost)
  PROVE  Synced'
<1>1. PICK A : A = Asked(calls)
  OBVIOUS
<1>2. Answered("load") /\ failed' = failed \cup lost /\ prefs' = prefs
  BY DEF Reload
<1>3. PICK order \in Bijection(1 .. Cardinality(DOMAIN prefs), DOMAIN prefs) :
        /\ \A k \in 1 .. Len(order) : Room(Reloading(order, lost)[k - 1])
        /\ items' = Reloading(order, lost)[Len(order)].items /\ tunnels' = Reloading(order, lost)[Len(order)].tunnels
        /\ calls' = Reloading(order, lost)[Len(order)].calls
  BY DEF Reload
<1>4. Loading(A) /\ Reloaded(A, lost, {}, ReloadStart)
  BY <1>1, <1>2, ReloadBegins
<1>5. PICK s : s = Reloading(order, lost)[Len(order)]
  OBVIOUS
<1>6. Reloaded(A, lost, DOMAIN prefs, s)
  BY <1>3, <1>4, <1>5, ReloadSteps
<1>7. Listing(prefs, s.tunnels, Asked(s.calls), failed \cup lost)
  BY <1>4, <1>6, ListingReload DEF Synced
<1>8. tunnels' = s.tunnels /\ calls' = s.calls
  BY <1>3, <1>5
<1> QED
  BY <1>2, <1>7, <1>8, SyncedNext DEF Synced

\* The answer to modify, when the container is gone from the list or not.
LEMMA ModifyReturnsSynced ==
  ASSUME Types, StoreInv, Synced, [Next]_vars, ModifyReturns
  PROVE  Synced'
<1> DEFINE c == Head(calls)
<1>1. calls # <<>> /\ c.op \in {"modify", "rules"}
  BY DEF ModifyReturns, Answered
<1>2. CASE Succeeds(c)
  BY <1>2, SyncedNext DEF Succeeds, Synced
<1>3. CASE \E n \in 1 .. Len(calls) : Relaunch(n, {})
  <2>1. \A n \in 1 .. Len(calls) : n \in 0 .. Len(calls)
    BY DEF Types
  <2> QED
    BY <1>3, <2>1, RelaunchSynced
<1>4. CASE /\ Fails(c) /\ calls' = Tail(calls)
           /\ failed' = (failed \cup IF c.op = "modify" THEN {c.manager.id} ELSE {}) \cap DOMAIN prefs
           /\ UNCHANGED tunnels
  <2>1. UNCHANGED <<prefs, changed>>
    BY <1>4 DEF Fails
  <2>2. \A i \in DOMAIN prefs : i \in failed \/ (c.op = "modify" /\ i = c.manager.id) => i \in failed'
    BY <1>4
  <2> QED
    BY <1>1, <1>4, <2>1, <2>2, FailSynced
<1> QED
  BY <1>2, <1>3, <1>4 DEF ModifyReturns

\* The first launch.
LEMMA SyncedInit == Init => Synced
<1> SUFFICES ASSUME Init PROVE Synced
  OBVIOUS
<1>1. DOMAIN prefs = {} /\ DOMAIN tunnels = {}
  BY DEF Init
<1> QED
  BY <1>1 DEF Synced, ProfilesApart, Listing

\* Every step.
LEMMA SyncedStep == Types /\ StoreInv /\ Synced /\ [Next]_vars => Synced'
<1> SUFFICES ASSUME Types, StoreInv, Synced, [Next]_vars PROVE Synced'
  OBVIOUS
<1>1. CASE Edit
  BY <1>1, AddSynced, ModifySynced, RemoveSynced DEF Edit
<1>2. CASE AddReturns \/ RemoveReturns \/ BackgroundReturns
  BY <1>2, AnswerSynced
<1>3. CASE ModifyReturns
  BY <1>3, ModifyReturnsSynced
<1>4. CASE PostReload
  <2>1. calls' = Append(calls, Load) /\ Load.op = "load"
    BY <1>4 DEF PostReload, Load
  <2>2. Load \in ToSet(calls')
    <3>1. calls'[Len(calls) + 1] = Load /\ Len(calls) + 1 \in DOMAIN calls'
      BY <2>1 DEF Types
    <3> QED
      BY <3>1 DEF ToSet
  <2> QED
    BY <2>1, <2>2, SyncedNext DEF Synced
<1>5. CASE Reload({}) \/ Reload(Legacy)
  BY <1>5, ReloadSynced
<1>6. CASE Crash
  <2>1. 0 \in 0 .. Len(calls)
    BY DEF Types
  <2> QED
    BY <1>6, <2>1, RelaunchSynced DEF Crash
<1>7. CASE Outside
  <2>1. changed' = TRUE
    BY <1>7 DEF Outside, AddedOutside, DeletedOutside
  <2> QED
    BY <2>1, SyncedNext DEF Synced
<1>8. CASE UNCHANGED vars
  <2>1. prefs' = prefs /\ tunnels' = tunnels /\ calls' = calls /\ failed' = failed /\ changed' = changed
    BY <1>8 DEF vars
  <2> QED
    BY <2>1 DEF Synced, Stale
<1> QED
  BY <1>1, <1>2, <1>3, <1>4, <1>5, <1>6, <1>7, <1>8 DEF Next

\* When nothing is under way, nothing is settling, so that the list is what is stored.
LEMMA StoredIsShown == Types /\ StoreInv /\ Synced => ListIsStored
<1> SUFFICES ASSUME Types, StoreInv, Synced, calls = <<>>, ~changed PROVE
        /\ \A i \in DOMAIN prefs \ failed :
             \E c \in DOMAIN tunnels :
               /\ tunnels[c].name = prefs[i].name /\ tunnels[c].manager.ref = prefs[i].ref
               /\ \A d \in DOMAIN tunnels : tunnels[d].manager.id = i <=> d = c
        /\ \A c \in DOMAIN tunnels : tunnels[c].manager.id \in DOMAIN prefs
  BY DEF ListIsStored
<1>1. ToSet(calls) = {}
  BY DEF ToSet
<1>2. PICK A : A = Asked(calls)
  OBVIOUS
<1>3. A = {}
  BY <1>1, <1>2 DEF Asked
<1>4. Listing(prefs, tunnels, A, failed) /\ OneEach(tunnels)
  BY <1>1, <1>2 DEF Synced, Stale, StoreInv, List
<1>5. Settling(A) = {} /\ \A i : Saving(prefs, A, i) = {}
  BY <1>3 DEF Settling, Of, Saving
<1>6. ASSUME NEW i \in DOMAIN prefs \ failed
      PROVE  \E c \in DOMAIN tunnels :
               /\ tunnels[c].name = prefs[i].name /\ tunnels[c].manager.ref = prefs[i].ref
               /\ \A d \in DOMAIN tunnels : tunnels[d].manager.id = i <=> d = c
  <2>1. Shows(prefs, tunnels, A, i)
    BY <1>4, <1>5 DEF Listing
  <2>2. PICK c \in DOMAIN tunnels : Id(tunnels, c) = i
    BY <2>1 DEF Shows
  <2>3. tunnels[c].name = prefs[i].name /\ tunnels[c].manager.ref = prefs[i].ref
    BY <1>5, <2>1, <2>2 DEF Shows, Agrees
  <2>4. \A d \in DOMAIN tunnels : tunnels[d].manager.id = i <=> d = c
    BY <1>4, <2>2 DEF OneEach, Id
  <2> QED
    BY <2>2, <2>3, <2>4
<1> QED
  BY <1>4, <1>6 DEF Listing, Id

-----------------------------------------------------------------------------
(* The inductive invariant, and what it implies.                           *)

\* The first launch.
LEMMA InvInit == Init => Types /\ StoreInv
<1> SUFFICES ASSUME Init PROVE Types /\ StoreInv
  OBVIOUS
<1>1. /\ DOMAIN prefs = {} /\ DOMAIN items = {} /\ DOMAIN tunnels = {} /\ DOMAIN calls = {} /\ calls \in Seq(AllCalls)
      /\ world \in Worlds /\ changed \in BOOLEAN /\ failed = {} /\ messy \in BOOLEAN /\ refused = FALSE
  <2>1. prefs = <<>> /\ items = <<>> /\ tunnels = <<>> /\ calls = <<>>
    BY DEF Init
  <2>2. DOMAIN <<>> = {} /\ <<>> \in Seq(AllCalls)
    OBVIOUS
  <2>3. world \in Worlds /\ changed = FALSE /\ failed = {} /\ messy = FALSE /\ refused = FALSE
    BY DEF Init
  <2> QED
    BY <2>1, <2>2, <2>3
<1>2. Asked(calls) = {}
  BY <1>1 DEF Asked, ToSet
<1>3. PICK A : A = Asked(calls)
  OBVIOUS
<1>4. InOrder(calls) /\ OneOwner(prefs, tunnels, A)
  BY <1>1, <1>2, <1>3 DEF InOrder, OneOwner, Held
<1>5. Disk(prefs, items, A, failed, refused)
  BY <1>1, <1>2, <1>3 DEF Disk, Kept, Distinct, Legacies
<1>6. List(prefs, items, tunnels, A, failed, refused)
  BY <1>1, <1>2, <1>3 DEF List, OneEach, SavedWithout, ShownGood, Named, ShownDistinct, NoneDropped, AllShown, ShownAgree
<1> QED
  BY <1>1, <1>3, <1>4, <1>5, <1>6 DEF Types, PrefsOK, ItemsOK, ListOK, StoreInv

\* Every step.
LEMMA InvStep == Types /\ StoreInv /\ [Next]_vars => Types' /\ StoreInv'
<1> SUFFICES ASSUME Types, StoreInv, [Next]_vars PROVE Types' /\ StoreInv'
  OBVIOUS
<1>1. CASE Edit
  BY <1>1, AddKeeps, ModifyKeeps, RemoveKeeps DEF Edit
<1>2. CASE AddReturns
  BY <1>2, AddReturnsKeeps
<1>3. CASE ModifyReturns
  BY <1>3, ModifyReturnsKeeps
<1>4. CASE RemoveReturns
  BY <1>4, RemoveReturnsKeeps
<1>5. CASE BackgroundReturns
  BY <1>5, BackgroundReturnsKeeps
<1>6. CASE PostReload
  BY <1>6, PostReloadKeeps
<1>7. CASE Reload({})
  BY <1>7, ReloadKeeps
<1>8. CASE Reload(Legacy)
  <2>1. Legacy \subseteq DOMAIN prefs
    BY DEF Legacy
  <2> QED
    BY <1>8, <2>1, ReloadKeeps
<1>9. CASE Crash
  BY <1>9, CrashKeeps
<1>10. CASE Outside
  BY <1>10, AddedOutsideKeeps, DeletedOutsideKeeps DEF Outside
<1>11. CASE UNCHANGED vars
  <2>1. /\ prefs' = prefs /\ items' = items /\ tunnels' = tunnels /\ calls' = calls /\ changed' = changed
        /\ world' = world /\ failed' = failed /\ messy' = messy /\ refused' = refused
    BY <1>11 DEF vars
  <2>2. StoreInv'
    BY <2>1, InvNext DEF StoreInv
  <2> QED
    BY <2>1, <2>2 DEF Types
<1> QED
  BY <1>1, <1>2, <1>3, <1>4, <1>5, <1>6, <1>7, <1>8, <1>9, <1>10, <1>11 DEF Next

\* The types that the proofs use are those of TypeOK, and more.
LEMMA TypesAreOK == Types => TypeOK
<1> SUFFICES ASSUME Types PROVE TypeOK
  OBVIOUS
<1>1. \A c \in ToSet(calls) : c = Load \/ (c.op \in Ops /\ c.manager \in Managers)
  <2> SUFFICES ASSUME NEW c \in ToSet(calls) PROVE c = Load \/ (c.op \in Ops /\ c.manager \in Managers)
    OBVIOUS
  <2>1. c \in AllCalls
    BY DEF Types, ToSet
  <2> QED
    BY <2>1, RequestKinds DEF ManagerCalls
<1> QED
  BY <1>1 DEF Types, PrefsOK, ItemsOK, ListOK, TypeOK

\* What Disk says of the stored configurations is what the property says.
LEMMA NothingIsLost == Types /\ StoreInv => SavedIsKept
<1> SUFFICES ASSUME Types, StoreInv, NEW i \in DOMAIN prefs \ (failed \cup BeingEdited)
             PROVE  IF prefs[i].legacy # NoBody THEN prefs[i].legacy = prefs[i].saved
                    ELSE prefs[i].ref \in DOMAIN items /\ items[prefs[i].ref] = prefs[i].saved
  BY DEF SavedIsKept
<1>1. i \notin Breaking(Asked(calls))
  BY DEF BeingEdited, EditCalls, EditOps, Breaking, Breaks, Asked
<1>2. IsGood(prefs, items, i, prefs[i])
  BY <1>1 DEF StoreInv, Disk, Kept
<1> QED
  BY <1>2 DEF IsGood

\* What List and Disk say of names is what the property says.
LEMMA NamesDiffer == Types /\ StoreInv => NamesAreUnique
<1> SUFFICES ASSUME Types, StoreInv PROVE NamesAreUnique
  OBVIOUS
<1>1. ASSUME NEW t \in DOMAIN tunnels, NEW u \in DOMAIN tunnels, tunnels[t].manager.available,
             tunnels[u].manager.available, tunnels[t].name = tunnels[u].name
      PROVE  t = u
  <2>1. tunnels[t].manager.available = tunnels[u].manager.available
    BY <1>1 DEF Types, ListOK, Containers, Managers
  <2> QED
    BY <1>1, <2>1 DEF StoreInv, List, ShownDistinct
<1>2. ASSUME NEW i \in DOMAIN prefs \ failed, NEW j \in DOMAIN prefs \ failed, prefs[i].name = prefs[j].name PROVE i = j
  BY <1>2 DEF StoreInv, Disk, Distinct, Counts
<1> QED
  BY <1>1, <1>2 DEF NamesAreUnique

\* The inductive invariant of add, modify, remove, reload, create and what happens outside
\* the app holds in every behaviour, for any number of tunnels, references and containers.
THEOREM InvHolds == Spec => [](Types /\ StoreInv)
BY InvInit, InvStep, PTL DEF Spec

\* Every variable of the store has its type, and an available configuration has been read.
THEOREM TypesHold == Spec => []TypeOK
<1>1. Types /\ StoreInv => TypeOK
  BY TypesAreOK
<1> QED
  BY <1>1, InvHolds, PTL

\* What was saved last can be read back: no add, modify, remove or reload of another tunnel
\* and no launch takes a stored configuration's keychain item away or changes it.
THEOREM SavedStays == Spec => []SavedIsKept
BY NothingIsLost, InvHolds, PTL

\* No two usable tunnels have the same name, in the list or stored: the check for the name
\* that add and modify make before they ask the system is enough, whatever happens until
\* the system has answered.
THEOREM NamesStayUnique == Spec => []NamesAreUnique
BY NamesDiffer, InvHolds, PTL

\* Every keychain item belongs to a stored configuration or to one being saved, unless an
\* edit failed or something happened outside the app since the launch: each path of add,
\* modify, remove and reload deletes what it no longer needs, and create sweeps the rest.
THEOREM NothingStaysBehind == Spec => []NothingLeftBehind
<1>1. Spec => []Tidy
  BY TidyInit, TidyStep, InvHolds, PTL DEF Spec
<1> QED
  BY <1>1, NoneLeft, PTL

\* When no request is under way and nothing has changed outside the app, the list shows each
\* stored configuration once, under its name and with its item, and nothing else: the
\* completion handlers and reload keep tunnels in line with the preferences.
THEOREM ListStaysStored == Spec => []ListIsStored
<1>1. Spec => []Synced
  BY SyncedInit, SyncedStep, InvHolds, PTL DEF Spec
<1> QED
  BY <1>1, StoredIsShown, InvHolds, PTL
=============================================================================
